--------------------------- MODULE FileBlocksProofs ---------------------------
(***************************************************************************)
(* Proofs about FileBlocks, for any files with extents, any device, any    *)
(* number of entries to a node and any size of EXTENTS_CACHE: every block  *)
(* has one owner, a cached list is the list of the tree, the trees are     *)
(* sound, a call that succeeds leaks no block, the files are those of      *)
(* FileStore, and a call changes them as its arguments say.                *)
(***************************************************************************)
EXTENDS FileBlocks, SequenceTheorems, FiniteSetTheorems, WellFoundedInduction, TLAPS

\* The facts about extent lists.
Lists == INSTANCE ExtentsProofs WITH extents <- <<>>

\* A set of natural numbers that is not empty has a least element.
LEMMA LeastOf ==
  ASSUME NEW T, T \in SUBSET Nat, T # {}
  PROVE  \E i \in T : \A j \in T : i <= j
<1>1. PICK n \in T : TRUE
  OBVIOUS
<1>2. QED
  BY <1>1, ExtentsAssumption, Lists!Least

\* before is a strict order of S, given by the elements before each one.
Order(S, before) ==
    /\ before \in [S -> SUBSET S]
    /\ \A a \in S : a \notin before[a]
    /\ \A a, b \in S : a # b => a \in before[b] \/ b \in before[a]
    /\ \A a, b \in S : a \in before[b] => before[a] \subseteq before[b]

\* A sequence that has every element of S once.
Enumerates(s, S) ==
    /\ s \in Seq(S) /\ Len(s) = Cardinality(S) /\ Len(s) \in Nat /\ DOMAIN s = 1 .. Len(s)
    /\ \A i \in 1 .. Len(s) : s[i] \in S
    /\ \A i, j \in 1 .. Len(s) : s[i] = s[j] => i = j
    /\ \A a \in S : \E i \in 1 .. Len(s) : s[i] = a

\* Each number of elements is that before one element.
Ranked(S, before) ==
    /\ Cardinality(S) \in Nat
    /\ \A a \in S : Cardinality(before[a]) \in 0 .. Cardinality(S) - 1
    /\ \A a, b \in S : Cardinality(before[a]) = Cardinality(before[b]) => a = b
    /\ \A i \in 1 .. Cardinality(S) : \E a \in S : Cardinality(before[a]) = i - 1

\* It is so in every finite set.
LEMMA Ranks ==
  ASSUME NEW S, IsFiniteSet(S), NEW before, Order(S, before)
  PROVE  Ranked(S, before)
<1> DEFINE n == Cardinality(S)
           rank == [a \in S |-> Cardinality(before[a])]
<1> USE DEF Order
<1>1. n \in Nat
  BY FS_CardinalityType
<1>2. \A a \in S : IsFiniteSet(before[a]) /\ rank[a] \in Nat
  BY FS_Subset, FS_CardinalityType
<1>3. ASSUME NEW a \in S, NEW b \in S, a \in before[b]
      PROVE  rank[a] < rank[b]
  <2>1. before[a] \in SUBSET before[b] /\ before[a] # before[b]
    BY <1>3
  <2>2. Cardinality(before[a]) <= Cardinality(before[b])
        /\ Cardinality(before[a]) # Cardinality(before[b])
    BY <1>2, <2>1, FS_Subset
  <2>3. QED
    BY <1>2, <2>2
<1>4. ASSUME NEW a \in S
      PROVE  rank[a] \in 0 .. n - 1
  <2>1. before[a] \in SUBSET S /\ before[a] # S
    OBVIOUS
  <2>2. Cardinality(before[a]) <= n /\ Cardinality(before[a]) # n
    BY <2>1, FS_Subset
  <2>3. QED
    BY <1>1, <1>2, <2>2
<1>5. \A a, b \in S : rank[a] = rank[b] => a = b
  <2>1. SUFFICES ASSUME NEW a \in S, NEW b \in S, rank[a] = rank[b], a # b
                 PROVE  FALSE
    OBVIOUS
  <2>2. rank[a] < rank[b] \/ rank[b] < rank[a]
    BY <1>3, <2>1
  <2>3. QED
    BY <1>2, <2>1, <2>2
<1>6. IsFiniteSet(0 .. n - 1) /\ Cardinality(0 .. n - 1) = n
  BY <1>1, FS_Interval
<1>7. rank \in Injection(S, 0 .. n - 1)
  BY <1>4, <1>5 DEF Injection, IsInjective
<1>8. rank \in Surjection(S, 0 .. n - 1)
  BY <1>6, <1>7, FS_Injection
<1>9. \A i \in 1 .. n : \E a \in S : rank[a] = i - 1
  <2>1. \A k \in 0 .. n - 1 : \E a \in S : rank[a] = k
    BY <1>8 DEF Surjection
  <2>2. \A i \in 1 .. n : i - 1 \in 0 .. n - 1
    BY <1>1
  <2>3. QED
    BY <2>1, <2>2
<1>10. QED
  BY <1>1, <1>4, <1>5, <1>9 DEF Ranked

\* The elements in order: every place has one element, every element one place.
LEMMA InOrder ==
  ASSUME NEW S, IsFiniteSet(S), NEW before, Order(S, before),
         NEW s, s = [i \in 1 .. Cardinality(S) |-> s[i]],
         \A i \in 1 .. Cardinality(S) : s[i] \in S /\ Cardinality(before[s[i]]) = i - 1
  PROVE  Enumerates(s, S)
<1> DEFINE n == Cardinality(S)
           rank == [a \in S |-> Cardinality(before[a])]
<1>1. /\ n \in Nat /\ rank \in [S -> 0 .. n - 1]
      /\ \A a, b \in S : rank[a] = rank[b] => a = b
  BY Ranks DEF Ranked
<1>2. s = [i \in 1 .. n |-> s[i]] /\ \A i \in 1 .. n : s[i] \in S /\ rank[s[i]] = i - 1
  OBVIOUS
<1> HIDE DEF n, rank
<1>3. s \in [1 .. n -> S]
  BY <1>2
<1>4. s \in Seq(S) /\ Len(s) = n /\ DOMAIN s = 1 .. n
  <2>1. n \in Nat
    BY <1>1
  <2>2. QED
    BY ONLY <2>1, <1>3
<1>5. \A i, j \in 1 .. n : s[i] = s[j] => i = j
  <2>1. \A i, j \in 1 .. n : i - 1 = j - 1 => i = j
    BY <1>1
  <2>2. QED
    BY <1>2, <2>1
<1>6. ASSUME NEW a \in S PROVE \E i \in 1 .. n : s[i] = a
  <2>1. PICK k \in 0 .. n - 1 : k = rank[a]
    BY <1>1
  <2>2. k + 1 \in 1 .. n /\ (k + 1) - 1 = k
    BY <1>1, <2>1
  <2>3. rank[s[k + 1]] = k /\ s[k + 1] \in S
    BY <1>2, <2>2
  <2>4. QED
    BY <1>1, <2>1, <2>2, <2>3
<1>7. QED
  BY <1>1, <1>2, <1>4, <1>5, <1>6 DEF Enumerates, n

\* alloc_block hands out every free block once.
LEMMA FreeOrder ==
  ASSUME cursor \in Nat
  PROVE  /\ Enumerates(free_order, PBlock \ used)
         /\ free_count \in Nat /\ Len(free_order) = free_count
<1> DEFINE S == PBlock \ used
           before == [a \in S |-> {b \in S : alloc_before(b, a)}]
<1>1. IsFiniteSet(S) /\ S \subseteq Nat
  BY FileAssumption, ExtentsAssumption, FS_Difference
<1>2. Order(S, before)
  <2>1. \A a \in S : a \notin before[a]
    BY <1>1 DEF alloc_before
  <2>2. \A a, b \in S : a # b => a \in before[b] \/ b \in before[a]
    BY <1>1 DEF alloc_before
  <2>3. \A a, b \in S : a \in before[b] => before[a] \subseteq before[b]
    BY <1>1 DEF alloc_before
  <2>4. QED
    BY <2>1, <2>2, <2>3 DEF Order
<1>3. \A i \in 1 .. Cardinality(S) :
          \E a \in S : Cardinality({b \in S : alloc_before(b, a)}) = i - 1
  <2>1. \A i \in 1 .. Cardinality(S) : \E a \in S : Cardinality(before[a]) = i - 1
    <3> HIDE DEF S, before
    <3>1. Ranked(S, before)
      BY <1>1, <1>2, Ranks
    <3>2. QED
      BY <3>1 DEF Ranked
  <2>2. QED
    BY <2>1
<1> DEFINE nth(i) == CHOOSE a \in S : Cardinality({b \in S : alloc_before(b, a)}) = i - 1
<1>4. free_order = [i \in 1 .. Cardinality(S) |-> nth(i)]
  BY DEF free_order, in_order
<1>4a. \A i \in 1 .. Cardinality(S) :
          nth(i) \in S /\ Cardinality({b \in S : alloc_before(b, nth(i))}) = i - 1
  BY <1>3
<1> HIDE DEF nth
<1>5. \A i \in 1 .. Cardinality(S) :
          free_order[i] \in S /\ Cardinality({b \in S : alloc_before(b, free_order[i])}) = i - 1
  BY <1>4, <1>4a
<1>6. \A i \in 1 .. Cardinality(S) :
          free_order[i] \in S /\ Cardinality(before[free_order[i]]) = i - 1
  BY <1>5
<1>7. free_order = [i \in 1 .. Cardinality(S) |-> free_order[i]]
  BY <1>4
<1>8. Enumerates(free_order, S)
  <2> HIDE DEF S, before
  <2>1. QED
    BY <1>1, <1>2, <1>6, <1>7, InOrder
<1>9. QED
  BY <1>8 DEF Enumerates, free_count

\* The blocks a write has to allocate, each once.
LEMMA Unmapped ==
  ASSUME NEW es, NEW lo \in Nat, NEW hi \in Nat
  PROVE  Enumerates(unmapped(es, lo, hi), {l \in lo .. hi - 1 : map_logical_block(es, l) = NoBlock})
<1> DEFINE S == {l \in lo .. hi - 1 : map_logical_block(es, l) = NoBlock}
           before == [a \in S |-> {b \in S : b < a}]
<1>1. IsFiniteSet(S) /\ S \subseteq Nat
  <2>1. IsFiniteSet(lo .. hi - 1) /\ S \in SUBSET (lo .. hi - 1)
    BY FS_Interval
  <2>2. QED
    BY <2>1, FS_Subset
<1>2. PICK u : u = unmapped(es, lo, hi)
  OBVIOUS
<1> DEFINE nth(i) == CHOOSE a \in S : Cardinality({b \in S : b < a}) = i - 1
<1>4. u = [i \in 1 .. Cardinality(S) |-> nth(i)]
  BY <1>2 DEF unmapped, in_order
<1> HIDE DEF S
<1>5. Order(S, before)
  <2>1. \A a \in S : a \notin before[a]
    BY <1>1
  <2>2. \A a, b \in S : a # b => a \in before[b] \/ b \in before[a]
    BY <1>1
  <2>3. ASSUME NEW a \in S, NEW b \in S, a \in before[b], NEW c \in before[a]
        PROVE  c \in before[b]
    <3>1. c \in S /\ c < a /\ a < b
      BY <2>3
    <3>2. c < b
      BY <1>1, <3>1
    <3>3. QED
      BY <3>1, <3>2
  <2>4. QED
    BY <2>1, <2>2, <2>3 DEF Order
<1>6. \A i \in 1 .. Cardinality(S) : \E a \in S : Cardinality({b \in S : b < a}) = i - 1
  <2>1. \A i \in 1 .. Cardinality(S) : \E a \in S : Cardinality(before[a]) = i - 1
    <3> HIDE DEF before
    <3>1. Ranked(S, before)
      BY <1>1, <1>5, Ranks
    <3>2. QED
      BY <3>1 DEF Ranked
  <2>2. QED
    BY <2>1
<1>6a. \A i \in 1 .. Cardinality(S) :
           nth(i) \in S /\ Cardinality({b \in S : b < nth(i)}) = i - 1
  BY <1>6
<1> HIDE DEF nth
<1>7. \A i \in 1 .. Cardinality(S) :
          u[i] \in S /\ Cardinality({b \in S : b < u[i]}) = i - 1
  BY <1>4, <1>6a
<1>8. \A i \in 1 .. Cardinality(S) :
          u[i] \in S /\ Cardinality(before[u[i]]) = i - 1
  BY <1>7
<1>9. u = [i \in 1 .. Cardinality(S) |-> u[i]]
  BY <1>4
<1>10. Enumerates(u, S)
  <2> HIDE DEF before
  <2>1. QED
    BY <1>1, <1>5, <1>8, <1>9, InOrder
<1>11. QED
  BY <1>2, <1>10 DEF S

-------------------------------------------------------------------------------
\* Products keep the order.
LEMMA Times ==
  ASSUME NEW P \in Nat \ {0}, NEW i \in Nat, NEW j \in Nat
  PROVE  /\ i * P \in Nat
         /\ i < j => i * P + P <= j * P
         /\ i <= j => i * P <= j * P
<1>1. i * P \in Nat /\ j * P \in Nat
  OBVIOUS
<1>2. ASSUME i < j PROVE i * P + P <= j * P
  <2>1. PICK d \in Nat : j = i + 1 + d
    <3>1. j - i - 1 \in Nat /\ j = i + 1 + (j - i - 1)
      BY <1>2
    <3>2. QED
      BY <3>1
  <2>2. j * P = i * P + P + d * P /\ d * P \in Nat
    BY <2>1
  <2>3. QED
    BY <1>1, <2>2
<1>3. QED
  BY <1>1, <1>2

\* Where the i-th node of a level ends, when the level has n entries below it.
cut(n, i) == IF i * PerNode < n THEN i * PerNode ELSE n

\* Nodes are as many as needed for all entries, none of them empty.
LEMMA NodesFor ==
  ASSUME NEW n \in Nat
  PROVE  /\ nodes_for(n) \in Nat /\ n <= nodes_for(n) * PerNode
         /\ n > 0 => nodes_for(n) - 1 \in Nat /\ (nodes_for(n) - 1) * PerNode < n
         /\ n = 0 => nodes_for(n) = 0
<1>1. PICK P \in Nat \ {0} : P = PerNode
  BY FileAssumption
<1>2. PICK m \in Nat : m = n + P - 1
  BY <1>1
<1>3. PICK q \in Nat, r \in 0 .. P - 1 : q = m \div P /\ m = P * q + r
  <2>1. m \div P \in Nat /\ m % P \in 0 .. P - 1 /\ m = P * (m \div P) + (m % P)
    OBVIOUS
  <2>2. QED
    BY <2>1
<1>4. nodes_for(n) = q
  BY <1>1, <1>2, <1>3 DEF nodes_for
<1>5. q * P = P * q /\ (q - 1) * P = P * q - P
  OBVIOUS
<1>6. q * P \in Nat
  OBVIOUS
<1>7. n <= q * P /\ (q - 1) * P < n
  BY <1>2, <1>3, <1>5, <1>6
<1>8. ASSUME n > 0 PROVE q - 1 \in Nat
  <2>1. q # 0
    BY <1>2, <1>3, <1>8
  <2>2. QED
    BY <2>1
<1>9. ASSUME n = 0 PROVE q = 0
  <2>1. q >= 1 => 1 * P <= q * P
    BY Times
  <2>2. QED
    BY <1>2, <1>3, <1>5, <1>9, <2>1
<1>10. QED
  BY <1>1, <1>4, <1>7, <1>8, <1>9

\* The ends of the nodes go up, from nothing to all entries.
LEMMA Cuts ==
  ASSUME NEW n \in Nat
  PROVE  /\ \A i \in Nat : cut(n, i) \in 0 .. n
         /\ \A i \in Nat : cut(n, i) <= cut(n, i + 1)
         /\ cut(n, 0) = 0 /\ cut(n, nodes_for(n)) = n
<1>1. PICK P \in Nat \ {0} : P = PerNode
  BY FileAssumption
<1>2. \A i \in Nat : i * P \in Nat /\ i * P <= (i + 1) * P
  BY Times
<1>3. \A i \in Nat : cut(n, i) = IF i * P < n THEN i * P ELSE n
  BY <1>1 DEF cut
<1>4. ASSUME NEW i \in Nat PROVE cut(n, i) \in 0 .. n /\ cut(n, i) <= cut(n, i + 1)
  <2>1. PICK x \in Nat, y \in Nat : x = i * P /\ y = (i + 1) * P /\ x <= y
    BY <1>2
  <2>2. cut(n, i) = (IF x < n THEN x ELSE n) /\ cut(n, i + 1) = (IF y < n THEN y ELSE n)
    BY <1>3, <2>1
  <2>3. QED
    BY <2>1, <2>2
<1>5. cut(n, 0) = 0
  <2>1. 0 * P = 0
    OBVIOUS
  <2>2. QED
    BY <1>3, <2>1
<1>6. cut(n, nodes_for(n)) = n
  <2>1. PICK q \in Nat : q = nodes_for(n) /\ n <= q * P
    BY <1>1, NodesFor
  <2>2. cut(n, q) = IF q * P < n THEN q * P ELSE n
    BY <1>3
  <2>3. q * P \in Nat
    OBVIOUS
  <2>4. QED
    BY <2>1, <2>2, <2>3
<1>7. QED
  BY <1>4, <1>5, <1>6

\* A node that is there begins where the one before it ends, and has entries.
LEMMA NodeCut ==
  ASSUME NEW n \in Nat, NEW i \in 1 .. nodes_for(n)
  PROVE  /\ i - 1 \in Nat /\ (i - 1) * PerNode \in Nat
         /\ cut(n, i - 1) = (i - 1) * PerNode
         /\ cut(n, i) - (i - 1) * PerNode \in 1 .. PerNode
         /\ cut(n, i) \in 1 .. n
<1>1. PICK P \in Nat \ {0} : P = PerNode
  BY FileAssumption
<1>2. PICK q \in Nat : q = nodes_for(n) /\ (n > 0 => (q - 1) * P < n) /\ (n = 0 => q = 0)
  BY <1>1, NodesFor
<1>3. n > 0 /\ i \in Nat /\ 1 <= i /\ i <= q /\ i - 1 \in Nat /\ q - 1 \in Nat
  BY <1>2
<1>4. PICK x \in Nat : x = (i - 1) * P
  BY <1>3
<1>5. i * P = x + P
  BY <1>3, <1>4
<1>6. x <= (q - 1) * P /\ (q - 1) * P \in Nat /\ (q - 1) * P < n
  BY <1>2, <1>3, <1>4, Times
<1>7. x < n
  BY <1>6
<1>8. cut(n, i - 1) = x /\ cut(n, i) = IF x + P < n THEN x + P ELSE n
  BY <1>1, <1>4, <1>5, <1>7 DEF cut
<1>9. QED
  BY <1>1, <1>3, <1>4, <1>7, <1>8

\* Every entry is in a node.
LEMMA InNode ==
  ASSUME NEW n \in Nat, NEW k \in 1 .. n
  PROVE  \E i \in 1 .. nodes_for(n) : \E m \in 1 .. cut(n, i) - (i - 1) * PerNode :
            k = (i - 1) * PerNode + m
<1>1. PICK P \in Nat \ {0} : P = PerNode
  BY FileAssumption
<1>2. PICK q \in Nat : q = nodes_for(n) /\ n <= q * P
  BY <1>1, NodesFor
<1>3. PICK i \in Nat : i - 1 \in Nat /\ k <= i * P /\ (i - 1) * P < k
  <2>1. k \in Nat /\ k > 0
    OBVIOUS
  <2>2. /\ nodes_for(k) \in Nat /\ nodes_for(k) - 1 \in Nat
        /\ k <= nodes_for(k) * P /\ (nodes_for(k) - 1) * P < k
    BY <1>1, <2>1, NodesFor
  <2>3. QED
    BY <2>2
<1>4. i <= q
  <2>1. q * P \in Nat /\ (i - 1) * P \in Nat
    BY <1>3
  <2>2. q <= i - 1 => q * P <= (i - 1) * P
    BY <1>3, Times
  <2>3. QED
    BY <1>2, <1>3, <2>1, <2>2
<1>5. PICK x \in Nat : x = (i - 1) * P /\ i * P = x + P
  BY <1>3
<1>6. cut(n, i) = IF x + P < n THEN x + P ELSE n
  BY <1>1, <1>5 DEF cut
<1>7. PICK m \in Nat : m = k - x /\ m \in 1 .. cut(n, i) - x
  BY <1>3, <1>5, <1>6
<1>8. QED
  BY <1>1, <1>2, <1>3, <1>4, <1>5, <1>7

-------------------------------------------------------------------------------
\* Two parts of a sequence that meet.
LEMMA Parts ==
  ASSUME NEW A, NEW s \in Seq(A), NEW a \in 0 .. Len(s), NEW b \in 0 .. Len(s),
         NEW d \in 0 .. Len(s), a <= b, b <= d
  PROVE  SubSeq(s, a + 1, b) \o SubSeq(s, b + 1, d) = SubSeq(s, a + 1, d)
<1>1. PICK x, y, z : /\ x = SubSeq(s, a + 1, b) /\ y = SubSeq(s, b + 1, d)
                     /\ z = SubSeq(s, a + 1, d)
  OBVIOUS
<1>2. Len(s) \in Nat
  OBVIOUS
<1>3. /\ x \in Seq(A) /\ Len(x) = b - a /\ \A i \in 1 .. b - a : x[i] = s[a + i]
  <2>1. a + 1 \in 1 .. Len(s) + 1 /\ b \in a .. Len(s)
    BY <1>2
  <2>2. QED
    BY <1>1, <2>1
<1>4. /\ y \in Seq(A) /\ Len(y) = d - b /\ \A i \in 1 .. d - b : y[i] = s[b + i]
  <2>1. b + 1 \in 1 .. Len(s) + 1 /\ d \in b .. Len(s)
    BY <1>2
  <2>2. QED
    BY <1>1, <2>1
<1>5. /\ z \in Seq(A) /\ Len(z) = d - a /\ \A i \in 1 .. d - a : z[i] = s[a + i]
  <2>1. a + 1 \in 1 .. Len(s) + 1 /\ d \in a .. Len(s)
    BY <1>2
  <2>2. QED
    BY <1>1, <2>1
<1>6. QED
  BY <1>1, <1>2, <1>3, <1>4, <1>5, SMTT(40)

\* Parts of a sequence one behind the other, flattened.
LEMMA FlattenParts ==
  ASSUME NEW A, NEW s \in Seq(A), NEW n \in Nat \ {0},
         NEW c, \A i \in 0 .. n : c[i] \in 0 .. Len(s),
         \A i \in 1 .. n : c[i - 1] <= c[i],
         NEW ss, Len(ss) = n, \A i \in 1 .. n : ss[i] = SubSeq(s, c[i - 1] + 1, c[i])
  PROVE  FlattenSeq(ss) = SubSeq(s, c[0] + 1, c[n])
<1> DEFINE step(g) == [i \in 1 .. Len(ss) |-> IF i = 1 THEN ss[i] ELSE g[i - 1] \o ss[i]]
           w == [i \in 1 .. Len(ss) |-> SubSeq(s, c[0] + 1, c[i])]
           h == CHOOSE g : g = step(g)
<1>1. FlattenSeq(ss) = h[n]
  BY DEF FlattenSeq
<1>2. \A i \in 1 .. n : c[0] <= c[i]
  <2> DEFINE bad == {i \in 1 .. n : ~(c[0] <= c[i])}
  <2>1. SUFFICES ASSUME bad # {} PROVE FALSE
    OBVIOUS
  <2>2. PICK i \in bad : \A j \in bad : i <= j
    <3>1. bad \in SUBSET Nat
      OBVIOUS
    <3> HIDE DEF bad
    <3>2. QED
      BY <2>1, <3>1, LeastOf
  <2>3. i \in 1 .. n /\ ~(c[0] <= c[i]) /\ c[i - 1] <= c[i]
    OBVIOUS
  <2>4. i - 1 \in 0 .. n /\ i - 1 \notin bad
    BY <2>2, <2>3
  <2>5. i - 1 = 0 \/ c[0] <= c[i - 1]
    BY <2>3, <2>4
  <2>6. c[0] \in 0 .. Len(s) /\ c[i - 1] \in 0 .. Len(s) /\ c[i] \in 0 .. Len(s)
    BY <2>3, <2>4
  <2>7. PICK x \in Nat, y \in Nat, z \in Nat : x = c[0] /\ y = c[i - 1] /\ z = c[i]
    BY <2>6
  <2>8. ~(x <= z) /\ y <= z /\ (i - 1 = 0 \/ x <= y)
    BY <2>3, <2>5, <2>7
  <2>9. i - 1 = 0 => x = y
    BY <2>7
  <2>10. QED
    BY ONLY <2>8, <2>9, x \in Nat, y \in Nat, z \in Nat
<1>3. ASSUME NEW i \in 1 .. n
      PROVE  w[i] = IF i = 1 THEN ss[i] ELSE w[i - 1] \o ss[i]
  <2>1. CASE i = 1
    <3>1. ss[1] = SubSeq(s, c[1 - 1] + 1, c[1]) /\ 1 - 1 = 0
      BY <2>1
    <3>2. QED
      BY <2>1, <3>1
  <2>2. CASE i # 1
    <3>1. i - 1 \in 1 .. n /\ i - 1 \in 0 .. n
      BY <2>2
    <3>2. w[i - 1] = SubSeq(s, c[0] + 1, c[i - 1]) /\ w[i] = SubSeq(s, c[0] + 1, c[i])
      BY <3>1
    <3>3. /\ c[0] \in 0 .. Len(s) /\ c[i - 1] \in 0 .. Len(s) /\ c[i] \in 0 .. Len(s)
          /\ c[0] <= c[i - 1] /\ c[i - 1] <= c[i]
      BY <1>2, <3>1
    <3>4. SubSeq(s, c[0] + 1, c[i - 1]) \o SubSeq(s, c[i - 1] + 1, c[i]) = SubSeq(s, c[0] + 1, c[i])
      BY <3>3, Parts
    <3>5. QED
      BY <2>2, <3>2, <3>4
  <2>3. QED
    BY <2>1, <2>2
<1>4. w = step(w)
  BY <1>3
<1>5. h = step(h)
  <2> HIDE DEF w, step
  <2> QED
    BY <1>4, Zenon
<1>6. \A i \in 1 .. n : h[i] = IF i = 1 THEN ss[i] ELSE h[i - 1] \o ss[i]
  <2> HIDE DEF h
  <2> QED
    BY <1>5
<1> HIDE DEF h, w
<1>7. h[n] = w[n]
  <2> DEFINE bad == {i \in 1 .. n : h[i] # w[i]}
  <2>1. SUFFICES ASSUME bad # {} PROVE FALSE
    OBVIOUS
  <2>2. PICK i \in bad : \A j \in bad : i <= j
    <3>1. bad \in SUBSET Nat
      OBVIOUS
    <3> HIDE DEF bad
    <3>2. QED
      BY <2>1, <3>1, LeastOf
  <2>3. i \in 1 .. n /\ h[i] # w[i]
    OBVIOUS
  <2>4. i # 1 => i - 1 \in 1 .. n /\ h[i - 1] = w[i - 1]
    BY <2>2, <2>3
  <2>5. QED
    BY <1>3, <1>6, <2>3, <2>4
<1>8. w[n] = SubSeq(s, c[0] + 1, c[n])
  <2>1. n \in 1 .. Len(ss)
    OBVIOUS
  <2>2. QED
    BY <2>1 DEF w
<1>9. QED
  BY <1>1, <1>7, <1>8

-------------------------------------------------------------------------------
\* Extent lists, as the proofs about Extents have them: sorted lists, each of
\* which takes some blocks of a file to blocks of the device.
list(es) == Lists!list(es)
maps(es, l, v) == Lists!maps(es, l, v)

\* List fs is es and one pair more.
extends(fs, es, l, p) ==
    \A k \in Nat, v \in Nat : maps(fs, k, v) <=> maps(es, k, v) \/ (k = l /\ v = p)

\* The two modules mean the same by an extent list.
LEMMA SameLists ==
  /\ \A es : list(es) <=> es \in Seq(Extent) /\ sorted(es)
  /\ \A es, l, v : maps(es, l, v) <=>
       \E i \in 1 .. Len(es) : covers(es[i], l) /\ v = es[i].start + (l - es[i].block)
  /\ \A es, l : Lists!map_logical_block(es, l) = map_logical_block(es, l)
  /\ \A es, l : Lists!is_end(es, l) <=> is_end(es, l)
  /\ \A es, l, p : Lists!insert_block_mapping(es, l, p) = insert_block_mapping(es, l, p)
  /\ \A es, l, p : Lists!push_block_to_extents(es, l, p) = push_block_to_extents(es, l, p)
<1> USE DEF Lists!covers, covers, Lists!follows, follows, Lists!new_extent, new_extent
<1>1. \A es : list(es) <=> es \in Seq(Extent) /\ sorted(es)
  BY Zenon DEF list, Lists!list, Lists!sorted, sorted, Lists!Extent, Extent
<1>2. \A es, l, v : maps(es, l, v) <=>
        \E i \in 1 .. Len(es) : covers(es[i], l) /\ v = es[i].start + (l - es[i].block)
  BY Zenon DEF maps, Lists!maps
<1>3. \A es, l : Lists!map_logical_block(es, l) = map_logical_block(es, l)
  BY Zenon DEF Lists!map_logical_block, map_logical_block
<1>4. \A es, l : Lists!is_end(es, l) <=> is_end(es, l)
  BY Zenon DEF Lists!is_end, is_end
<1>5. \A es, l : Lists!insert_pos(es, l) = insert_pos(es, l)
  BY Zenon DEF Lists!insert_pos, insert_pos
<1>6. \A es, i, l, p : Lists!place(es, i, l, p) = place(es, i, l, p)
  <2>1. \A es, i, l, p : Lists!merge_prev(es, i, l, p) <=> merge_prev(es, i, l, p)
    BY Zenon DEF Lists!merge_prev, merge_prev
  <2>2. \A es, i, l, p : Lists!merge_next(es, i, l, p) <=> merge_next(es, i, l, p)
    BY Zenon DEF Lists!merge_next, merge_next
  <2>3. \A es, i : Lists!join(es, i) = join(es, i)
    BY Zenon DEF Lists!join, join, Lists!remove_at, remove_at
  <2>4. \A es, i, e : Lists!insert_at(es, i, e) = insert_at(es, i, e)
    BY Zenon DEF Lists!insert_at, insert_at
  <2>5. \A l, p : Lists!new_extent(l, p) = new_extent(l, p)
    BY Zenon
  <2>6. QED
    <3> USE DEF Lists!place, place
    <3> HIDE DEF Lists!new_extent, new_extent
    <3> TAKE es, i, l, p
    <3>1. CASE merge_prev(es, i, l, p) /\ merge_next(es, i, l, p)
               /\ es[i - 1].len + 1 + es[i].len <= MaxLen
      BY <2>1, <2>2, <2>3, <3>1
    <3>2. CASE merge_prev(es, i, l, p)
               /\ ~(merge_next(es, i, l, p) /\ es[i - 1].len + 1 + es[i].len <= MaxLen)
      BY <2>1, <2>2, <3>2
    <3>3. CASE ~merge_prev(es, i, l, p) /\ merge_next(es, i, l, p)
      BY <2>1, <2>2, <3>3
    <3>4. CASE ~merge_prev(es, i, l, p) /\ ~merge_next(es, i, l, p)
      BY <2>1, <2>2, <2>4, <2>5, <3>4
    <3>5. QED
      BY <3>1, <3>2, <3>3, <3>4
<1>7. \A es, l, p : Lists!insert_block_mapping(es, l, p) = insert_block_mapping(es, l, p)
  BY <1>5, <1>6, Zenon DEF Lists!insert_block_mapping, insert_block_mapping
<1>8. \A es, l, p : Lists!push_block_to_extents(es, l, p) = push_block_to_extents(es, l, p)
  BY Zenon DEF Lists!push_block_to_extents, push_block_to_extents
<1>9. QED
  BY <1>1, <1>2, <1>3, <1>4, <1>7, <1>8, Zenon

\* The fields of the extents of a list.
LEMMA ListFacts ==
  ASSUME NEW es, list(es)
  PROVE  /\ es \in Seq(Extent) /\ Len(es) \in Nat /\ DOMAIN es = 1 .. Len(es)
         /\ \A i \in 1 .. Len(es) :
              /\ es[i] \in Extent /\ es[i].block \in Nat /\ es[i].start \in Nat
              /\ es[i].len \in Nat /\ 1 <= es[i].len
         /\ \A i, j \in 1 .. Len(es) : i < j => es[i].block + es[i].len <= es[j].block
<1>1. es \in Seq(Extent) /\ sorted(es)
  BY SameLists
<1>2. Len(es) \in Nat /\ DOMAIN es = 1 .. Len(es) /\ \A i \in 1 .. Len(es) : es[i] \in Extent
  BY <1>1
<1>3. QED
  BY <1>1, <1>2, ExtentsAssumption DEF sorted, Extent

\* map_logical_block gives the one block a list takes l to.
LEMMA ListMaps ==
  ASSUME NEW es, list(es), NEW l \in Nat
  PROVE  /\ map_logical_block(es, l) \in Nat \cup {NoBlock}
         /\ \A v \in Nat : maps(es, l, v) <=> map_logical_block(es, l) = v
<1>1. /\ Lists!map_logical_block(es, l) \in Nat \cup {NoBlock}
      /\ \A v \in Nat : Lists!maps(es, l, v) <=> Lists!map_logical_block(es, l) = v
  BY ExtentsAssumption, Lists!MapMaps DEF list
<1>2. Lists!map_logical_block(es, l) = map_logical_block(es, l)
  BY SameLists, Zenon
<1>3. QED
  BY <1>1, <1>2 DEF maps

\* insert_block_mapping adds a block the list does not map.
LEMMA ListInsert ==
  ASSUME NEW es, list(es), NEW l \in Nat, NEW p \in Nat, map_logical_block(es, l) = NoBlock
  PROVE  /\ list(insert_block_mapping(es, l, p))
         /\ extends(insert_block_mapping(es, l, p), es, l, p)
<1>1. Lists!map_logical_block(es, l) = NoBlock
  BY SameLists, Zenon
<1>2. PICK fs : fs = Lists!insert_block_mapping(es, l, p)
  OBVIOUS
<1>3. Lists!list(fs) /\ Lists!extends(fs, es, l, p)
  BY <1>1, <1>2, ExtentsAssumption, Lists!InsertBlock DEF list
<1>4. fs = insert_block_mapping(es, l, p)
  BY <1>2, SameLists, Zenon
<1>5. QED
  BY <1>3, <1>4 DEF list, extends, maps, Lists!extends

\* push_block_to_extents adds a block behind all others.
LEMMA ListPush ==
  ASSUME NEW es, list(es), NEW l \in Nat, NEW p \in Nat, is_end(es, l)
  PROVE  /\ map_logical_block(es, l) = NoBlock
         /\ list(push_block_to_extents(es, l, p))
         /\ extends(push_block_to_extents(es, l, p), es, l, p)
<1>1. Lists!is_end(es, l)
  BY SameLists, Zenon
<1>2. PICK fs : fs = Lists!push_block_to_extents(es, l, p)
  OBVIOUS
<1>3. Lists!list(fs) /\ Lists!extends(fs, es, l, p)
  BY <1>1, <1>2, ExtentsAssumption, Lists!PushBlock, Lists!Place DEF list
<1>4. fs = push_block_to_extents(es, l, p)
  BY <1>2, SameLists, Zenon
<1>5. Lists!map_logical_block(es, l) = NoBlock
  BY <1>1, ExtentsAssumption, Lists!EndUnmapped DEF list
<1>6. map_logical_block(es, l) = NoBlock
  BY <1>5, SameLists, Zenon
<1>7. QED
  BY <1>3, <1>4, <1>6 DEF list, extends, maps, Lists!extends

-------------------------------------------------------------------------------
\* A set of subsets of a finite set that is not empty has a smallest one.
LEMMA LeastSubset ==
  ASSUME NEW S, IsFiniteSet(S), NEW Bad \in SUBSET (SUBSET S), Bad # {}
  PROVE  \E s \in Bad : \A x \in s : s \ {x} \notin Bad
<1>1. Bad \subseteq FiniteSubsetsOf(S)
  BY FS_FiniteSubsetsOfFinite
<1>2. PICK s \in Bad : \A y \in Bad : ~(<<y, s>> \in StrictSubsetOrdering(S))
  BY <1>1, FS_StrictSubsetOrderingWellFounded, WFMin
<1>3. ASSUME NEW x \in s, s \ {x} \in Bad
      PROVE  FALSE
  <2>1. <<s \ {x}, s>> \in StrictSubsetOrdering(S)
    BY <1>3 DEF StrictSubsetOrdering
  <2>2. QED
    BY <2>1, <1>2, <1>3
<1>4. QED
  BY <1>2, <1>3

\* The largest of finitely many numbers is one of them.
LEMMA MaxIsIn ==
  ASSUME NEW S \in SUBSET Nat, IsFiniteSet(S), S # {}
  PROVE  Max(S) \in S
<1> DEFINE Bad == {s \in SUBSET S : s # {} /\ ~\E x \in s : \A y \in s : x >= y}
<1>1. SUFFICES ASSUME Bad # {} PROVE FALSE
  <2>1. \E x \in S : \A y \in S : x >= y
    BY <1>1
  <2>2. QED
    BY <2>1 DEF Max
<1>2. PICK s \in Bad : \A x \in s : s \ {x} \notin Bad
  <2> Bad \in SUBSET (SUBSET S)
    OBVIOUS
  <2> HIDE DEF Bad
  <2> QED
    BY <1>1, LeastSubset
<1>3. PICK x \in s : TRUE
  BY <1>2
<1>4. s \ {x} # {}
  BY <1>2, <1>3
<1>5. PICK z \in s \ {x} : \A y \in s \ {x} : z >= y
  BY <1>2, <1>3, <1>4
<1>6. x \in Nat /\ z \in Nat /\ \A y \in s : y \in Nat
  BY <1>2, <1>3, <1>5
<1>7. QED
  BY <1>2, <1>3, <1>5, <1>6

\* The blocks of extent i, and of the extents in I.
run(es, i) == es[i].start .. es[i].start + es[i].len - 1
runs(es, I) == UNION {run(es, i) : i \in I}

\* No two blocks of the file are on one block of the device.
OneToOne(es) == \A l, m, v \in Nat : maps(es, l, v) /\ maps(es, m, v) => l = m

\* The blocks of the extents are those the list takes blocks of the file to.
LEMMA Targets ==
  ASSUME NEW es, list(es)
  PROVE  /\ extent_blocks(es) = runs(es, 1 .. Len(es))
         /\ \A v : v \in extent_blocks(es) => v \in Nat /\ \E l \in Nat : maps(es, l, v)
         /\ \A l \in Nat : \A v : maps(es, l, v) => v \in extent_blocks(es)
<1>1. extent_blocks(es) = runs(es, 1 .. Len(es))
  BY DEF extent_blocks, runs, run
<1>2. \A i \in 1 .. Len(es) : /\ es[i].block \in Nat /\ es[i].start \in Nat
                              /\ es[i].len \in Nat
  BY ListFacts
<1>3. ASSUME NEW v, v \in extent_blocks(es)
      PROVE  v \in Nat /\ \E l \in Nat : maps(es, l, v)
  <2>1. PICK i \in 1 .. Len(es) : v \in run(es, i)
    BY <1>1, <1>3 DEF runs
  <2>2. PICK b \in Nat, s \in Nat, n \in Nat : b = es[i].block /\ s = es[i].start /\ n = es[i].len
    BY <1>2
  <2>3. v \in Nat /\ s <= v /\ v < s + n
    BY <2>1, <2>2 DEF run
  <2>4. PICK l \in Nat : l = b + (v - s)
    BY <2>3
  <2>5. covers(es[i], l) /\ v = es[i].start + (l - es[i].block)
    <3>1. b <= l /\ l < b + n /\ v = s + (l - b)
      BY ONLY <2>3, <2>4, b \in Nat, s \in Nat, n \in Nat, l \in Nat
    <3>2. QED
      BY <2>2, <3>1, Zenon DEF covers
  <2>6. QED
    BY <2>3, <2>5, SameLists
<1>4. ASSUME NEW l \in Nat, NEW v, maps(es, l, v)
      PROVE  v \in extent_blocks(es)
  <2>1. PICK i \in 1 .. Len(es) : covers(es[i], l) /\ v = es[i].start + (l - es[i].block)
    BY <1>4, SameLists
  <2>2. PICK b \in Nat, s \in Nat, n \in Nat : b = es[i].block /\ s = es[i].start /\ n = es[i].len
    BY <1>2
  <2>3. b <= l /\ l < b + n /\ v = s + (l - b)
    BY <2>1, <2>2 DEF covers
  <2>4. v \in s .. s + n - 1
    BY ONLY <2>3, b \in Nat, s \in Nat, n \in Nat, l \in Nat
  <2>5. QED
    BY <1>1, <2>2, <2>4 DEF run, runs
<1>5. QED
  BY <1>1, <1>3, <1>4

\* Different extents have no block in common.
LEMMA RunsApart ==
  ASSUME NEW es, list(es), OneToOne(es), NEW i \in 1 .. Len(es), NEW j \in 1 .. Len(es), i < j
  PROVE  run(es, i) \cap run(es, j) = {}
<1>1. SUFFICES ASSUME NEW v, v \in run(es, i), v \in run(es, j) PROVE FALSE
  OBVIOUS
<1>2. PICK b \in Nat, s \in Nat, n \in Nat : b = es[i].block /\ s = es[i].start /\ n = es[i].len
  BY ListFacts
<1>3. PICK c \in Nat, t \in Nat, m \in Nat : c = es[j].block /\ t = es[j].start /\ m = es[j].len
  BY ListFacts
<1>4. b + n <= c
  BY <1>2, <1>3, ListFacts
<1>5. v \in Nat /\ s <= v /\ v < s + n /\ t <= v /\ v < t + m
  <2>1. v \in s .. s + n - 1 /\ v \in t .. t + m - 1
    BY <1>1, <1>2, <1>3, Zenon DEF run
  <2>2. QED
    BY ONLY <2>1, s \in Nat, n \in Nat, t \in Nat, m \in Nat
<1>6. PICK l \in Nat, k \in Nat : l = b + (v - s) /\ k = c + (v - t)
  BY <1>5
<1>7. /\ covers(es[i], l) /\ v = es[i].start + (l - es[i].block)
      /\ covers(es[j], k) /\ v = es[j].start + (k - es[j].block)
  <2>1. b <= l /\ l < b + n /\ v = s + (l - b) /\ c <= k /\ k < c + m /\ v = t + (k - c)
    BY ONLY <1>5, <1>6, b \in Nat, s \in Nat, n \in Nat, c \in Nat, t \in Nat, m \in Nat
  <2>2. QED
    BY <1>2, <1>3, <2>1, Zenon DEF covers
<1>8. maps(es, l, v) /\ maps(es, k, v)
  BY <1>7, SameLists
<1>9. l = k
  BY <1>5, <1>8 DEF OneToOne
<1>10. QED
  BY <1>4, <1>5, <1>6, <1>9

\* An extent adds its length to the number of blocks.
LEMMA RunsSplit ==
  ASSUME NEW es, list(es), OneToOne(es), NEW I \in SUBSET (1 .. Len(es)), NEW i \in I,
         IsFiniteSet(runs(es, I \ {i}))
  PROVE  /\ IsFiniteSet(runs(es, I))
         /\ Cardinality(runs(es, I)) = Cardinality(runs(es, I \ {i})) + es[i].len
<1> DEFINE O == runs(es, I \ {i})
           R == run(es, i)
<1>1. runs(es, I) = O \cup R
  BY DEF runs
<1>2. O \cap R = {}
  <2>1. ASSUME NEW j \in I \ {i} PROVE run(es, j) \cap run(es, i) = {}
    <3>1. i < j \/ j < i
      BY ListFacts
    <3>2. QED
      BY <3>1, RunsApart
  <2>2. QED
    BY <2>1 DEF runs
<1>3. IsFiniteSet(R) /\ Cardinality(R) = es[i].len
  <2>1. PICK s \in Nat, n \in Nat : s = es[i].start /\ n = es[i].len /\ 1 <= n
    BY ListFacts
  <2>2. IsFiniteSet(s .. s + n - 1) /\ Cardinality(s .. s + n - 1) = n
    <3>1. s \in Int /\ s + n - 1 \in Int /\ ~(s > s + n - 1) /\ (s + n - 1) - s + 1 = n
      BY ONLY <2>1, s \in Nat, n \in Nat
    <3>2. QED
      BY <3>1, FS_Interval
  <2>3. QED
    BY <2>1, <2>2 DEF run
<1> HIDE DEF O, R
<1>4. IsFiniteSet(O) /\ Cardinality(O) \in Nat
  BY FS_CardinalityType DEF O
<1>5. /\ IsFiniteSet(O \cup R)
      /\ Cardinality(O \cup R) = Cardinality(O) + Cardinality(R) - Cardinality(O \cap R)
  BY <1>3, <1>4, FS_Union
<1>6. Cardinality(O \cap R) = 0
  BY <1>2, FS_EmptySet
<1>7. es[i].len \in Nat
  BY ListFacts
<1>8. QED
  BY <1>1, <1>3, <1>4, <1>5, <1>6, <1>7 DEF O

\* i_blocks, the sum of the lengths of the extents, is the number of blocks.
LEMMA Counted ==
  ASSUME NEW es, list(es), OneToOne(es)
  PROVE  /\ IsFiniteSet(extent_blocks(es))
         /\ extents_blocks_count(es) = Cardinality(extent_blocks(es))
<1> DEFINE S == DOMAIN es
           step(g) == [s \in SUBSET S |-> IF s = {} THEN 0 ELSE g[s \ {Max(s)}] + es[Max(s)].len]
           w == [s \in SUBSET S |-> Cardinality(runs(es, s))]
           h == CHOOSE g : g = step(g)
<1>1. extents_blocks_count(es) = h[S]
  BY DEF extents_blocks_count, FoldLeft, MapThenFoldSet
<1>2. S = 1 .. Len(es) /\ S \in SUBSET Nat /\ IsFiniteSet(S)
  <2>1. S = 1 .. Len(es) /\ Len(es) \in Nat
    BY ListFacts
  <2>2. QED
    BY <2>1, FS_Interval
<1> HIDE DEF S
<1>3. \A s \in SUBSET S : IsFiniteSet(s) /\ (s # {} => Max(s) \in s)
  BY <1>2, FS_Subset, MaxIsIn
<1>4. \A s \in SUBSET S : s = {} => IsFiniteSet(runs(es, s)) /\ Cardinality(runs(es, s)) = 0
  <2>1. runs(es, {}) = {}
    BY DEF runs
  <2>2. QED
    BY <2>1, FS_EmptySet
<1>5. ASSUME NEW s \in SUBSET S
      PROVE  IsFiniteSet(runs(es, s))
  <2> DEFINE Bad == {t \in SUBSET S : ~IsFiniteSet(runs(es, t))}
  <2>1. SUFFICES ASSUME Bad # {} PROVE FALSE
    OBVIOUS
  <2>2. PICK t \in Bad : \A x \in t : t \ {x} \notin Bad
    <3> Bad \in SUBSET (SUBSET S)
      OBVIOUS
    <3> HIDE DEF Bad
    <3> QED
      BY <1>2, <2>1, LeastSubset
  <2>3. t # {}
    BY <1>4, <2>2
  <2>4. PICK x \in t : IsFiniteSet(runs(es, t \ {x}))
    BY <2>2, <2>3
  <2>5. IsFiniteSet(runs(es, t))
    BY <1>2, <2>4, RunsSplit
  <2>6. QED
    BY <2>5
<1>6. ASSUME NEW s \in SUBSET S
      PROVE  w[s] = IF s = {} THEN 0 ELSE w[s \ {Max(s)}] + es[Max(s)].len
  <2>1. CASE s = {}
    BY <1>4, <2>1
  <2>2. CASE s # {}
    <3>1. PICK x \in s : x = Max(s)
      BY <1>3, <2>2
    <3>2. Cardinality(runs(es, s)) = Cardinality(runs(es, s \ {x})) + es[x].len
      BY <1>2, <1>5, RunsSplit
    <3>3. QED
      BY <2>2, <3>1, <3>2
  <2>3. QED
    BY <2>1, <2>2
<1>7. w = step(w)
  BY <1>6
<1>8. h = step(h)
  <2> HIDE DEF w, step
  <2> QED
    BY <1>7, Zenon
<1>9. \A s \in SUBSET S : h[s] = IF s = {} THEN 0 ELSE h[s \ {Max(s)}] + es[Max(s)].len
  <2> HIDE DEF h
  <2> QED
    BY <1>8
<1> HIDE DEF h, w
<1>10. h[S] = w[S]
  <2> DEFINE Bad == {t \in SUBSET S : h[t] # w[t]}
  <2>1. SUFFICES ASSUME Bad # {} PROVE FALSE
    OBVIOUS
  <2>2. PICK t \in Bad : \A x \in t : t \ {x} \notin Bad
    <3> Bad \in SUBSET (SUBSET S)
      OBVIOUS
    <3> HIDE DEF Bad
    <3> QED
      BY <1>2, <2>1, LeastSubset
  <2>3. t \in SUBSET S /\ h[t] # w[t]
    BY <2>2
  <2>4. CASE t = {}
    BY <1>6, <1>9, <2>3, <2>4
  <2>5. CASE t # {}
    <3>1. PICK x \in t : x = Max(t)
      BY <1>3, <2>3, <2>5
    <3>2. h[t \ {x}] = w[t \ {x}]
      BY <2>2, <2>3, <3>1
    <3>3. QED
      BY <1>6, <1>9, <2>3, <2>5, <3>1, <3>2
  <2>6. QED
    BY <2>4, <2>5
<1>11. w[S] = Cardinality(runs(es, S))
  BY DEF w
<1>12. extent_blocks(es) = runs(es, S)
  BY <1>2, Targets
<1>13. QED
  BY <1>1, <1>5, <1>10, <1>11, <1>12

\* List fs is es and the pairs ls[j], bs[j] for j up to i.
Adds(fs, es, ls, bs, i) ==
    \A l \in Nat, v \in Nat :
        maps(fs, l, v) <=> maps(es, l, v) \/ \E j \in 1 .. i : l = ls[j] /\ v = bs[j]

\* add_all: the list gets every pair, whatever is merged on the way.
LEMMA AddAll ==
  ASSUME NEW es, list(es), NEW ls \in Seq(Nat), NEW bs,
         \A i \in 1 .. Len(ls) : bs[i] \in Nat /\ map_logical_block(es, ls[i]) = NoBlock,
         \A i, j \in 1 .. Len(ls) : ls[i] = ls[j] => i = j
  PROVE  list(add_all(es, ls, bs)) /\ Adds(add_all(es, ls, bs), es, ls, bs, Len(ls))
<1> DEFINE n == Len(ls)
           step(g) == [i \in 0 .. n |-> IF i = 0 THEN es
                                        ELSE insert_block_mapping(g[i - 1], ls[i], bs[i])]
           h == CHOOSE g : g = step(g)
<1>1. add_all(es, ls, bs) = h[n]
  BY DEF add_all
<1>2. n \in Nat /\ \A i \in 1 .. n : ls[i] \in Nat
  OBVIOUS
<1> HIDE DEF n
<1> DEFINE rec(g, i) == g = [k \in 0 .. i |-> IF k = 0 THEN es
                                             ELSE insert_block_mapping(g[k - 1], ls[k], bs[k])]
<1>3. \E g : rec(g, n)
  <2> DEFINE bad == {i \in Nat : ~\E g : rec(g, i)}
  <2>1. SUFFICES ASSUME bad # {} PROVE FALSE
    BY <1>2
  <2>2. PICK i \in bad : \A j \in bad : i <= j
    <3>1. bad \in SUBSET Nat
      OBVIOUS
    <3> HIDE DEF bad
    <3>2. QED
      BY <2>1, <3>1, LeastOf
  <2>3. i \in Nat /\ \A g : ~rec(g, i)
    OBVIOUS
  <2>4. i # 0
    <3>1. rec([k \in {0} |-> es], 0)
      OBVIOUS
    <3>2. QED
      BY <2>3, <3>1
  <2>4a. i - 1 \in Nat /\ ~(i <= i - 1)
    BY <2>3, <2>4
  <2>5. i - 1 \in Nat /\ i - 1 \notin bad
    <3> HIDE DEF bad
    <3> QED
      BY <2>2, <2>4a
  <2>6. PICK g : rec(g, i - 1)
    BY <2>5
  <2> DEFINE g2 == [k \in 0 .. i |-> IF k = i THEN insert_block_mapping(g[i - 1], ls[i], bs[i])
                                     ELSE g[k]]
  <2>7. ASSUME NEW k \in 0 .. i
        PROVE  g2[k] = IF k = 0 THEN es ELSE insert_block_mapping(g2[k - 1], ls[k], bs[k])
    <3>1. CASE k = i
      <4>1. k # 0 /\ i - 1 \in 0 .. i /\ i - 1 # i
        BY <2>3, <2>4, <3>1
      <4>2. g2[i - 1] = g[i - 1] /\ g2[i] = insert_block_mapping(g[i - 1], ls[i], bs[i])
        BY <2>3, <4>1
      <4>3. QED
        BY <3>1, <4>1, <4>2
    <3>2. CASE k # i
      <4>1. k \in 0 .. i - 1 /\ g2[k] = g[k] /\ (k # 0 => k - 1 \in 0 .. i /\ k - 1 # i)
        BY <2>3, <3>2
      <4>2. k # 0 => g2[k - 1] = g[k - 1]
        BY <4>1
      <4>3. g[k] = IF k = 0 THEN es ELSE insert_block_mapping(g[k - 1], ls[k], bs[k])
        BY <2>6, <4>1
      <4>4. QED
        BY <4>1, <4>2, <4>3
    <3>3. QED
      BY <3>1, <3>2
  <2>8. rec(g2, i)
    <3>1. g2 = [k \in 0 .. i |-> g2[k]]
      OBVIOUS
    <3> HIDE DEF g2
    <3>2. QED
      BY <2>7, <3>1
  <2>9. QED
    BY <2>3, <2>8
<1>4. h = step(h)
  <2>1. \E g : g = step(g)
    BY <1>3
  <2> HIDE DEF step
  <2>2. QED
    BY <2>1, Zenon
<1>5. \A i \in 0 .. n : h[i] = IF i = 0 THEN es ELSE insert_block_mapping(h[i - 1], ls[i], bs[i])
  <2> HIDE DEF h
  <2>1. QED
    BY <1>4
<1> HIDE DEF h
<1> DEFINE good(i) == list(h[i]) /\ Adds(h[i], es, ls, bs, i)
<1>6. good(0)
  <2>1. h[0] = es
    BY <1>2, <1>5
  <2>2. QED
    BY <2>1 DEF Adds
<1>7. ASSUME NEW i \in 1 .. n, good(i - 1)
      PROVE  good(i)
  <2>1. PICK fs : fs = h[i - 1] /\ list(fs) /\ Adds(fs, es, ls, bs, i - 1)
    BY <1>7
  <2>2. PICK l \in Nat, p \in Nat : l = ls[i] /\ p = bs[i] /\ map_logical_block(es, l) = NoBlock
    BY <1>2 DEF n
  <2>3. map_logical_block(fs, l) = NoBlock
    <3>1. ASSUME NEW v \in Nat, maps(fs, l, v) PROVE FALSE
      <4>1. ~maps(es, l, v)
        BY <2>2, ListMaps, ExtentsAssumption
      <4>2. PICK j \in 1 .. i - 1 : l = ls[j]
        BY <2>1, <3>1, <4>1 DEF Adds
      <4>3. j \in 1 .. n /\ i \in 1 .. n /\ j # i
        BY <1>2, <4>2
      <4>4. QED
        BY <2>2, <4>2, <4>3 DEF n
    <3>2. QED
      BY <2>1, <3>1, ListMaps
  <2>4. h[i] = insert_block_mapping(fs, l, p)
    BY <1>2, <1>5, <2>1, <2>2
  <2>5. list(h[i]) /\ extends(h[i], fs, l, p)
    BY <2>1, <2>3, <2>4, ListInsert
  <2>6. ASSUME NEW k \in Nat, NEW v \in Nat
        PROVE  maps(h[i], k, v) <=> maps(es, k, v) \/ \E j \in 1 .. i : k = ls[j] /\ v = bs[j]
    <3>1. maps(h[i], k, v) <=> maps(fs, k, v) \/ (k = ls[i] /\ v = bs[i])
      BY <2>2, <2>5 DEF extends
    <3>2. maps(fs, k, v) <=> maps(es, k, v) \/ \E j \in 1 .. i - 1 : k = ls[j] /\ v = bs[j]
      BY <2>1 DEF Adds
    <3>3. \A j : j \in 1 .. i <=> j \in 1 .. i - 1 \/ j = i
      BY <1>2
    <3>4. QED
      BY <3>1, <3>2, <3>3, Zenon
  <2>7. QED
    BY <2>5, <2>6 DEF Adds
<1>8. good(n)
  <2> DEFINE bad == {i \in 0 .. n : ~good(i)}
  <2> HIDE DEF good
  <2>1. SUFFICES ASSUME bad # {} PROVE FALSE
    BY <1>2
  <2>2. PICK i \in bad : \A j \in bad : i <= j
    <3>1. bad \in SUBSET Nat
      BY <1>2
    <3> HIDE DEF bad
    <3>2. QED
      BY <2>1, <3>1, LeastOf
  <2>3. i \in 0 .. n /\ ~good(i) /\ i # 0
    BY <1>6
  <2>4. i - 1 \in 0 .. n /\ i - 1 \notin bad /\ i \in 1 .. n
    BY <1>2, <2>2, <2>3
  <2>5. good(i - 1)
    BY <2>4
  <2>6. QED
    BY <1>7, <2>3, <2>4, <2>5
<1>9. QED
  BY <1>1, <1>8 DEF n

-------------------------------------------------------------------------------
\* A node that comes later does not end earlier.
LEMMA CutMono ==
  ASSUME NEW n \in Nat, NEW i \in Nat, NEW j \in Nat, i <= j
  PROVE  cut(n, i) \in 0 .. n /\ cut(n, j) \in 0 .. n /\ cut(n, i) <= cut(n, j)
<1>1. PICK P \in Nat \ {0} : P = PerNode
  BY FileAssumption
<1>2. PICK x \in Nat, y \in Nat : x = i * P /\ y = j * P /\ x <= y
  BY Times
<1>3. cut(n, i) = (IF x < n THEN x ELSE n) /\ cut(n, j) = (IF y < n THEN y ELSE n)
  BY <1>1, <1>2 DEF cut
<1>4. QED
  BY <1>2, <1>3

\* Node i of a level with s below it.
LEMMA Chunk ==
  ASSUME NEW A, NEW s \in Seq(A), NEW i \in 1 .. nodes_for(Len(s))
  PROVE  /\ chunk(s, i) = SubSeq(s, cut(Len(s), i - 1) + 1, cut(Len(s), i))
         /\ Len(chunk(s, i)) \in 1 .. PerNode
         /\ Len(chunk(s, i)) = cut(Len(s), i) - (i - 1) * PerNode
         /\ \A m \in 1 .. Len(chunk(s, i)) :
              /\ chunk(s, i)[m] = s[(i - 1) * PerNode + m]
              /\ (i - 1) * PerNode + m \in 1 .. Len(s)
<1>1. PICK n \in Nat : n = Len(s)
  OBVIOUS
<1>2. PICK x \in Nat, y \in Nat :
        /\ x = (i - 1) * PerNode /\ y = cut(n, i) /\ cut(n, i - 1) = x
        /\ y - x \in 1 .. PerNode /\ y \in 1 .. n
  <2>1. i \in 1 .. nodes_for(n)
    BY <1>1
  <2>2. QED
    BY <2>1, NodeCut
<1>3. PICK c : c = chunk(s, i)
  OBVIOUS
<1>4. c = SubSeq(s, x + 1, y)
  BY <1>1, <1>2, <1>3, Zenon DEF chunk, cut
<1>5. Len(c) = y - x /\ \A m \in 1 .. y - x : c[m] = s[x + m]
  <2>1. PerNode \in Nat
    BY FileAssumption
  <2>2. x + 1 \in 1 .. Len(s) + 1 /\ y \in x .. Len(s)
    BY <1>1, <1>2, <2>1
  <2>3. QED
    BY <1>1, <1>4, <2>2
<1>6. \A m \in 1 .. y - x : x + m \in 1 .. n
  BY <1>2
<1>7. QED
  BY <1>1, <1>2, <1>3, <1>4, <1>5, <1>6, Zenon

\* How many leaves and index blocks a tree has, by its depth.
LEMMA Levels ==
  ASSUME NEW n \in Nat
  PROVE  /\ tree_depth(n) \in 0 .. 2
         /\ need_leaf(n) \in Nat /\ need_index(n) \in Nat
         /\ tree_depth(n) = 0 => need_leaf(n) = 0 /\ need_index(n) = 0 /\ n <= InInode
         /\ tree_depth(n) = 1 => /\ need_leaf(n) = nodes_for(n) /\ need_index(n) = 0
                                 /\ nodes_for(n) \in 1 .. InInode
         /\ tree_depth(n) = 2 => /\ need_leaf(n) = nodes_for(n) /\ nodes_for(n) \in Nat \ {0}
                                 /\ need_index(n) = nodes_for(nodes_for(n))
                                 /\ nodes_for(nodes_for(n)) \in Nat \ {0}
<1>1. InInode \in Nat /\ InInode # 0
  BY FileAssumption
<1>2. PICK q \in Nat : q = nodes_for(n) /\ (n > 0 => q - 1 \in Nat)
  BY NodesFor
<1>3. PICK r \in Nat : r = nodes_for(q) /\ (q > 0 => r - 1 \in Nat)
  BY NodesFor
<1>4. tree_depth(n) = IF n <= InInode THEN 0 ELSE IF q <= InInode THEN 1 ELSE 2
  BY <1>2 DEF tree_depth
<1>5. ~(n <= InInode) => n > 0 /\ q > 0 /\ r > 0
  BY <1>1, <1>2, <1>3
<1>6. need_leaf(n) = (IF tree_depth(n) = 0 THEN 0 ELSE q)
      /\ need_index(n) = (IF tree_depth(n) < 2 THEN 0 ELSE r)
  BY <1>2, <1>3 DEF need_leaf, need_index
<1>7. QED
  BY <1>1, <1>2, <1>3, <1>4, <1>5, <1>6

-------------------------------------------------------------------------------
\* What the tree of a file is: its list es, its leaves lb and index blocks ib.
\* All blocks are different blocks of the device.
elems(s) == {s[i] : i \in 1 .. Len(s)}
distinct(s) == \A i, j \in 1 .. Len(s) : s[i] = s[j] => i = j
nodes(t) == elems(t.lb) \cup elems(t.ib)
blocks_of(t) == extent_blocks(t.es) \cup nodes(t)
leaf_entries(t) == index_entries(t.lb, t.es, PerNode)

tree(t) ==
    /\ list(t.es) /\ OneToOne(t.es) /\ supported(Len(t.es))
    /\ t.lb \in Seq(PBlock) /\ Len(t.lb) = need_leaf(Len(t.es)) /\ distinct(t.lb)
    /\ t.ib \in Seq(PBlock) /\ Len(t.ib) = need_index(Len(t.es)) /\ distinct(t.ib)
    /\ extent_blocks(t.es) \subseteq PBlock /\ extent_blocks(t.es) \cap nodes(t) = {}
    /\ elems(t.lb) \cap elems(t.ib) = {}

\* The nodes of t are on device st.
written(t, st) ==
    /\ \A i \in 1 .. Len(t.lb) : st[t.lb[i]] = leaf_block(chunk(t.es, i))
    /\ \A i \in 1 .. Len(t.ib) : st[t.ib[i]] = index_block(chunk(leaf_entries(t), i), 1)

\* Inode ino has the root of t.
rooted(t, ino) ==
    ino = [size |-> ino.size, blocks |-> extents_blocks_count(t.es),
           depth |-> tree_depth(Len(t.es)), entries |-> root_entries(t.es, t.lb, t.ib)]

\* Leaf k of a tree is where it belongs.
LEMMA LeafAt ==
  ASSUME NEW t, tree(t), written(t, store), NEW k \in 1 .. Len(t.lb)
  PROVE  /\ Len(t.es) \in Nat /\ k \in 1 .. nodes_for(Len(t.es))
         /\ t.lb[k] \in PBlock
         /\ store[t.lb[k]].kind = "leaf" /\ store[t.lb[k]].depth = 0
         /\ store[t.lb[k]].entries = chunk(t.es, k)
         /\ leaf_extents(t.lb[k]) = chunk(t.es, k)
         /\ tree_depth(Len(t.es)) # 0
<1>1. list(t.es) /\ Len(t.lb) = need_leaf(Len(t.es)) /\ t.lb \in Seq(PBlock)
  BY DEF tree
<1>2. PICK n \in Nat : n = Len(t.es)
  BY <1>1, ListFacts
<1>3. need_leaf(n) # 0
  BY <1>1, <1>2
<1>4. tree_depth(n) # 0 /\ need_leaf(n) = nodes_for(n)
  BY <1>2, <1>3, Levels DEF need_leaf
<1>5. store[t.lb[k]] = leaf_block(chunk(t.es, k))
  BY DEF written
<1>6. leaf_extents(t.lb[k]) = chunk(t.es, k)
  BY <1>5 DEF leaf_extents, is_node, leaf_block
<1>7. QED
  BY <1>1, <1>2, <1>4, <1>5, <1>6 DEF leaf_block

\* The index entries of the leaves.
LEMMA LeafEntries ==
  ASSUME NEW t, tree(t)
  PROVE  /\ Len(t.lb) \in Nat
         /\ leaf_entries(t) \in Seq({leaf_entries(t)[i] : i \in 1 .. Len(t.lb)})
         /\ Len(leaf_entries(t)) = Len(t.lb)
         /\ \A i \in 1 .. Len(t.lb) :
              leaf_entries(t)[i] = [block |-> t.es[(i - 1) * PerNode + 1].block, child |-> t.lb[i]]
<1>1. PICK n \in Nat : n = Len(t.lb)
  BY DEF tree
<1>2. PICK e : e = leaf_entries(t)
  OBVIOUS
<1>3. e = [i \in 1 .. n |-> [block |-> t.es[(i - 1) * PerNode + 1].block, child |-> t.lb[i]]]
  BY <1>1, <1>2, Zenon DEF leaf_entries, index_entries
<1>4. \A i \in 1 .. n : e[i] = [block |-> t.es[(i - 1) * PerNode + 1].block, child |-> t.lb[i]]
  BY <1>3
<1>5. e \in [1 .. n -> {e[i] : i \in 1 .. n}]
  BY <1>3
<1>6. e \in Seq({e[i] : i \in 1 .. n}) /\ Len(e) = n
  BY ONLY n \in Nat, <1>5
<1>7. QED
  BY <1>1, <1>2, <1>4, <1>6, Zenon

\* Index block j of a tree is where it belongs: it has the leaves of its part.
LEMMA IndexAt ==
  ASSUME NEW t, tree(t), written(t, store), NEW j \in 1 .. Len(t.ib)
  PROVE  /\ tree_depth(Len(t.es)) = 2 /\ t.ib[j] \in PBlock
         /\ j \in 1 .. nodes_for(Len(t.lb))
         /\ store[t.ib[j]].kind = "index" /\ store[t.ib[j]].depth = 1
         /\ store[t.ib[j]].entries = chunk(leaf_entries(t), j)
         /\ Len(store[t.ib[j]].entries) = cut(Len(t.lb), j) - (j - 1) * PerNode
         /\ Len(store[t.ib[j]].entries) \in 1 .. PerNode
         /\ \A m \in 1 .. Len(store[t.ib[j]].entries) :
              /\ (j - 1) * PerNode + m \in 1 .. Len(t.lb)
              /\ store[t.ib[j]].entries[m] = leaf_entries(t)[(j - 1) * PerNode + m]
<1>1. list(t.es) /\ Len(t.ib) = need_index(Len(t.es)) /\ t.ib \in Seq(PBlock)
      /\ Len(t.lb) = need_leaf(Len(t.es))
  BY DEF tree
<1>2. PICK n \in Nat : n = Len(t.es)
  BY <1>1, ListFacts
<1>3. tree_depth(n) = 2
  <2>1. need_index(n) # 0
    BY <1>1, <1>2
  <2>2. QED
    BY <2>1, Levels
<1>4. Len(t.lb) = nodes_for(n) /\ Len(t.ib) = nodes_for(nodes_for(n))
  BY <1>1, <1>2, <1>3, Levels
<1>5. j \in 1 .. nodes_for(Len(t.lb))
  BY <1>4
<1>6. store[t.ib[j]] = index_block(chunk(leaf_entries(t), j), 1)
  BY DEF written
<1>7. PICK A : leaf_entries(t) \in Seq(A) /\ Len(leaf_entries(t)) = Len(t.lb)
  BY LeafEntries
<1>8. PICK s : s = leaf_entries(t)
  OBVIOUS
<1>9. j \in 1 .. nodes_for(Len(s)) /\ s \in Seq(A) /\ Len(s) = Len(t.lb)
  BY <1>5, <1>7, <1>8
<1>10. /\ Len(chunk(s, j)) \in 1 .. PerNode
       /\ Len(chunk(s, j)) = cut(Len(s), j) - (j - 1) * PerNode
       /\ \A m \in 1 .. Len(chunk(s, j)) :
            /\ chunk(s, j)[m] = s[(j - 1) * PerNode + m]
            /\ (j - 1) * PerNode + m \in 1 .. Len(s)
  BY <1>9, Chunk
<1>11. t.ib[j] \in PBlock
  BY <1>1
<1>12. store[t.ib[j]].kind = "index" /\ store[t.ib[j]].depth = 1
       /\ store[t.ib[j]].entries = chunk(s, j)
  BY <1>6, <1>8 DEF index_block
<1>13. QED
  BY <1>2, <1>3, <1>5, <1>8, <1>9, <1>10, <1>11, <1>12, Zenon

\* What parse_extent_tree_recursive finds below an index block: the extents of
\* its leaves, which are a part of the list.
LEMMA IndexRead ==
  ASSUME NEW t, tree(t), written(t, store), NEW j \in 1 .. Len(t.ib)
  PROVE  index_extents(t.ib[j]) =
           SubSeq(t.es, cut(Len(t.es), cut(Len(t.lb), j - 1)) + 1, cut(Len(t.es), cut(Len(t.lb), j)))
<1>1. PICK n \in Nat, L \in Nat, es \in Seq(Extent) : n = Len(t.es) /\ L = Len(t.lb) /\ es = t.es
  BY ListFacts, LeafEntries DEF tree
<1>2. PICK e : e = store[t.ib[j]].entries
  OBVIOUS
<1>3. PICK x \in Nat, y \in Nat :
         x = (j - 1) * PerNode /\ y = cut(L, j) /\ x = cut(L, j - 1) /\ y - x \in Nat \ {0}
  <2>1. j \in 1 .. nodes_for(L)
    BY <1>1, IndexAt
  <2>2. PerNode \in Nat
    BY FileAssumption
  <2>3. QED
    BY <2>1, <2>2, NodeCut
<1>4. PICK k \in Nat \ {0} : k = y - x /\ Len(e) = k
  BY <1>1, <1>2, <1>3, IndexAt
<1>5. \A m \in 1 .. k : x + m \in 1 .. L /\ e[m] = leaf_entries(t)[x + m]
  <2>1. \A m \in 1 .. Len(store[t.ib[j]].entries) :
          /\ (j - 1) * PerNode + m \in 1 .. Len(t.lb)
          /\ store[t.ib[j]].entries[m] = leaf_entries(t)[(j - 1) * PerNode + m]
    BY IndexAt, Zenon
  <2>2. QED
    BY <1>1, <1>2, <1>3, <1>4, <2>1, Zenon
<1> DEFINE c == [m \in 0 .. k |-> cut(n, x + m)]
           ss == [m \in 1 .. k |-> leaf_extents(e[m].child)]
<1>6. ASSUME NEW m \in 1 .. k
      PROVE  ss[m] = SubSeq(es, c[m - 1] + 1, c[m])
  <2>1. PICK q \in Nat : q = x + m /\ q \in 1 .. L /\ e[m].child = t.lb[q]
    <3>1. x + m \in 1 .. L /\ e[m] = leaf_entries(t)[x + m]
      BY <1>5
    <3>2. PICK q \in Nat : q = x + m /\ q \in 1 .. Len(t.lb)
      BY <1>1, <3>1
    <3>3. leaf_entries(t)[q] = [block |-> t.es[(q - 1) * PerNode + 1].block, child |-> t.lb[q]]
      BY <3>2, LeafEntries, Zenon
    <3>4. leaf_entries(t)[q].child = t.lb[q]
      BY <3>3
    <3>5. QED
      BY <1>1, <3>1, <3>2, <3>4
  <2>2. leaf_extents(e[m].child) = chunk(es, q) /\ q \in 1 .. nodes_for(n)
    BY <1>1, <2>1, LeafAt
  <2>3. chunk(es, q) = SubSeq(es, cut(n, q - 1) + 1, cut(n, q))
    BY <1>1, <2>2, Chunk
  <2>4. c[m - 1] = cut(n, q - 1) /\ c[m] = cut(n, q)
    <3>1. m - 1 \in 0 .. k /\ m \in 0 .. k /\ x + (m - 1) = q - 1
      BY <2>1
    <3>2. QED
      BY <2>1, <3>1
  <2>5. QED
    BY <2>2, <2>3, <2>4
<1>7. ASSUME NEW m \in 0 .. k PROVE c[m] \in 0 .. Len(es)
  <2>1. PICK q \in Nat : q = x + m
    OBVIOUS
  <2>2. cut(n, q) \in 0 .. n
    BY Cuts
  <2>3. c[m] = cut(n, q)
    BY <2>1
  <2>4. QED
    BY <1>1, <2>2, <2>3
<1>8. ASSUME NEW m \in 1 .. k PROVE c[m - 1] <= c[m]
  <2>1. PICK a \in Nat : a = m - 1
    OBVIOUS
  <2>2. x + m = (x + a) + 1 /\ x + a \in Nat
    BY <2>1
  <2>3. cut(n, x + a) <= cut(n, (x + a) + 1)
    BY <2>2, Cuts
  <2>4. c[m - 1] = cut(n, x + a) /\ c[m] = cut(n, (x + a) + 1)
    BY <2>1, <2>2
  <2>5. QED
    BY <2>3, <2>4
<1>9. Len(ss) = k
  OBVIOUS
<1>10. c[0] = cut(n, x) /\ c[k] = cut(n, y)
  BY <1>3, <1>4
<1>11. index_extents(t.ib[j]) = FlattenSeq(ss)
  <2>1. is_node(t.ib[j], 1)
    BY IndexAt DEF is_node
  <2>2. QED
    BY <1>2, <1>4, <2>1 DEF index_extents
<1> HIDE DEF c, ss
<1>12. FlattenSeq(ss) = SubSeq(es, c[0] + 1, c[k])
  BY <1>6, <1>7, <1>8, <1>9, FlattenParts
<1>13. QED
  BY <1>1, <1>3, <1>10, <1>11, <1>12, Zenon

\* parse_extent_tree gives back the list the tree was written for.
LEMMA TreeRead ==
  ASSUME NEW t, tree(t), written(t, store), NEW ino, rooted(t, ino)
  PROVE  parse_extent_tree(ino) = t.es
<1>1. PICK n \in Nat, L \in Nat, es \in Seq(Extent) : n = Len(t.es) /\ L = Len(t.lb) /\ es = t.es
  BY ListFacts, LeafEntries DEF tree
<1>2. ino.depth = tree_depth(n) /\ ino.entries = root_entries(t.es, t.lb, t.ib)
  BY <1>1 DEF rooted
<1>3. L = need_leaf(n) /\ Len(t.ib) = need_index(n)
  BY <1>1 DEF tree
<1>4. SubSeq(es, 0 + 1, n) = es
  BY <1>1
<1>5. CASE tree_depth(n) = 0
  BY <1>1, <1>2, <1>5 DEF root_entries, parse_extent_tree
<1>6. CASE tree_depth(n) = 1
  <2>1. L = nodes_for(n) /\ L \in Nat \ {0}
    BY <1>3, <1>6, Levels, FileAssumption
  <2>2. ino.entries = leaf_entries(t)
    BY <1>1, <1>2, <1>6 DEF root_entries, leaf_entries
  <2> DEFINE ss == [i \in 1 .. L |-> leaf_extents(ino.entries[i].child)]
             c == [i \in 0 .. L |-> cut(n, i)]
  <2>3. parse_extent_tree(ino) = FlattenSeq(ss)
    <3>1. Len(ino.entries) = L
      BY <1>1, <2>2, LeafEntries
    <3>2. ino.depth = 1
      BY <1>2, <1>6
    <3>3. QED
      BY <3>1, <3>2 DEF parse_extent_tree
  <2>4. ASSUME NEW i \in 1 .. L PROVE ss[i] = SubSeq(es, c[i - 1] + 1, c[i])
    <3>0. leaf_entries(t)[i] = [block |-> t.es[(i - 1) * PerNode + 1].block, child |-> t.lb[i]]
      BY <1>1, LeafEntries, Zenon
    <3>1. ino.entries[i].child = t.lb[i]
      BY <2>2, <3>0
    <3>2. ss[i] = chunk(es, i)
      BY <1>1, <3>1, LeafAt
    <3>3. chunk(es, i) = SubSeq(es, cut(n, i - 1) + 1, cut(n, i))
      BY <1>1, <2>1, Chunk
    <3>4. i - 1 \in 0 .. L /\ i \in 0 .. L
      OBVIOUS
    <3>5. QED
      BY <3>2, <3>3, <3>4
  <2>5. ASSUME NEW i \in 0 .. L PROVE c[i] \in 0 .. Len(es)
    <3>1. i \in Nat /\ c[i] = cut(n, i)
      OBVIOUS
    <3>2. cut(n, i) \in 0 .. n
      BY <3>1, Cuts
    <3>3. QED
      BY <1>1, <3>1, <3>2
  <2>6. ASSUME NEW i \in 1 .. L PROVE c[i - 1] <= c[i]
    <3>1. i - 1 \in Nat /\ i \in Nat /\ i - 1 <= i /\ i - 1 \in 0 .. L /\ i \in 0 .. L
      OBVIOUS
    <3>2. cut(n, i - 1) <= cut(n, i)
      BY <3>1, CutMono
    <3>3. QED
      BY <3>1, <3>2
  <2>7. c[0] = 0 /\ c[L] = n
    BY <2>1, Cuts
  <2>8. Len(ss) = L
    OBVIOUS
  <2> HIDE DEF c, ss
  <2>9. FlattenSeq(ss) = SubSeq(es, c[0] + 1, c[L])
    BY ONLY es \in Seq(Extent), <2>1, <2>4, <2>5, <2>6, <2>8, FlattenParts, ZenonT(40)
  <2>10. QED
    BY <1>1, <1>4, <2>3, <2>7, <2>9
<1>7. CASE tree_depth(n) = 2
  <2>1. L = nodes_for(n)
    BY <1>3, <1>7, Levels
  <2>2. PICK M \in Nat \ {0} : M = Len(t.ib) /\ M = nodes_for(L)
    BY <1>3, <1>7, Levels
  <2>3. ino.entries = index_entries(t.ib, t.es, PerNode * PerNode)
    BY <1>1, <1>2, <1>7 DEF root_entries
  <2>4. Len(ino.entries) = M /\ \A j \in 1 .. M : ino.entries[j].child = t.ib[j]
    <3>1. ino.entries = [j \in 1 .. M |-> [block |-> t.es[(j - 1) * (PerNode * PerNode) + 1].block,
                                            child |-> t.ib[j]]]
      BY <2>2, <2>3, Zenon DEF index_entries
    <3>2. QED
      BY <3>1
  <2> DEFINE ss == [j \in 1 .. M |-> index_extents(ino.entries[j].child)]
             c == [j \in 0 .. M |-> cut(n, cut(L, j))]
  <2>5. parse_extent_tree(ino) = FlattenSeq(ss)
    <3>1. ino.depth = 2
      BY <1>2, <1>7
    <3>2. QED
      BY <2>4, <3>1 DEF parse_extent_tree
  <2>6. ASSUME NEW j \in 1 .. M PROVE ss[j] = SubSeq(es, c[j - 1] + 1, c[j])
    <3>1. ss[j] = index_extents(t.ib[j])
      BY <2>4
    <3>2. index_extents(t.ib[j]) =
            SubSeq(es, cut(n, cut(L, j - 1)) + 1, cut(n, cut(L, j)))
      BY <1>1, <2>2, IndexRead
    <3>3. j - 1 \in 0 .. M /\ j \in 0 .. M
      OBVIOUS
    <3>4. QED
      BY <3>1, <3>2, <3>3
  <2>7. ASSUME NEW j \in 0 .. M PROVE c[j] \in 0 .. Len(es)
    <3>1. j \in Nat /\ c[j] = cut(n, cut(L, j))
      OBVIOUS
    <3>2. cut(L, j) \in 0 .. L
      BY <3>1, Cuts
    <3>3. PICK a \in Nat : a = cut(L, j)
      BY <3>2
    <3>4. cut(n, a) \in 0 .. n
      BY Cuts
    <3>5. QED
      BY <1>1, <3>1, <3>3, <3>4
  <2>8. ASSUME NEW j \in 1 .. M PROVE c[j - 1] <= c[j]
    <3>1. j - 1 \in Nat /\ j \in Nat /\ j - 1 <= j /\ j - 1 \in 0 .. M /\ j \in 0 .. M
      OBVIOUS
    <3>2. PICK a \in Nat, b \in Nat : a = cut(L, j - 1) /\ b = cut(L, j) /\ a <= b
      <4>1. cut(L, j - 1) \in 0 .. L /\ cut(L, j) \in 0 .. L /\ cut(L, j - 1) <= cut(L, j)
        BY <3>1, CutMono
      <4>2. QED
        BY <4>1
    <3>3. cut(n, a) <= cut(n, b)
      BY <3>2, CutMono
    <3>4. QED
      BY <3>1, <3>2, <3>3
  <2>9. c[0] = 0 /\ c[M] = n
    <3>1. cut(L, 0) = 0 /\ cut(L, M) = L
      BY <2>2, Cuts
    <3>2. cut(n, 0) = 0 /\ cut(n, L) = n
      BY <2>1, Cuts
    <3>3. QED
      BY <3>1, <3>2
  <2>10. Len(ss) = M
    OBVIOUS
  <2> HIDE DEF c, ss
  <2>11. FlattenSeq(ss) = SubSeq(es, c[0] + 1, c[M])
    BY <2>6, <2>7, <2>8, <2>10, FlattenParts
  <2>12. QED
    BY <1>1, <1>4, <2>5, <2>9, <2>11
<1>8. QED
  BY <1>5, <1>6, <1>7, Levels

\* The index entries of the root, by the depth of the tree.
LEMMA RootAt ==
  ASSUME NEW t, tree(t), NEW ino, rooted(t, ino)
  PROVE  /\ ino.depth = tree_depth(Len(t.es)) /\ ino.depth \in 0 .. 2
         /\ ino.blocks = extents_blocks_count(t.es)
         /\ ino.depth = 0 => ino.entries = t.es /\ Len(t.lb) = 0 /\ Len(t.ib) = 0
         /\ ino.depth = 1 => ino.entries = leaf_entries(t) /\ Len(t.ib) = 0
         /\ ino.depth = 2 => /\ Len(ino.entries) = Len(t.ib)
                             /\ Len(t.ib) = nodes_for(Len(t.lb))
                             /\ \A j \in 1 .. Len(t.ib) : ino.entries[j] =
                                  [block |-> t.es[(j - 1) * (PerNode * PerNode) + 1].block,
                                   child |-> t.ib[j]]
         /\ Len(ino.entries) <= InInode
<1>1. PICK n \in Nat : n = Len(t.es)
  BY ListFacts DEF tree
<1>2. ino.depth = tree_depth(n) /\ ino.entries = root_entries(t.es, t.lb, t.ib)
      /\ ino.blocks = extents_blocks_count(t.es)
  BY <1>1 DEF rooted
<1>3. Len(t.lb) = need_leaf(n) /\ Len(t.ib) = need_index(n) /\ supported(n)
  BY <1>1 DEF tree
<1>4. tree_depth(n) \in 0 .. 2
  BY Levels
<1>5. CASE tree_depth(n) = 0
  <2>1. ino.entries = t.es
    BY <1>1, <1>2, <1>5 DEF root_entries
  <2>2. n <= InInode /\ Len(t.lb) = 0 /\ Len(t.ib) = 0
    BY <1>3, <1>5, Levels
  <2>3. QED
    BY <1>1, <1>2, <1>5, <2>1, <2>2
<1>6. CASE tree_depth(n) = 1
  <2>1. ino.entries = leaf_entries(t)
    BY <1>1, <1>2, <1>6 DEF root_entries, leaf_entries
  <2>2. Len(t.ib) = 0 /\ Len(t.lb) \in 1 .. InInode
    BY <1>3, <1>6, Levels
  <2>3. Len(ino.entries) <= InInode
    <3>1. Len(leaf_entries(t)) = Len(t.lb)
      BY LeafEntries
    <3>2. QED
      BY <2>1, <2>2, <3>1
  <2>4. QED
    BY <1>1, <1>2, <1>6, <2>1, <2>2, <2>3
<1>7. CASE tree_depth(n) = 2
  <2>1. PICK M \in Nat : M = Len(t.ib) /\ M = nodes_for(Len(t.lb))
    BY <1>3, <1>7, Levels
  <2>2. ino.entries = [j \in 1 .. M |-> [block |-> t.es[(j - 1) * (PerNode * PerNode) + 1].block,
                                          child |-> t.ib[j]]]
    <3>1. ino.entries = index_entries(t.ib, t.es, PerNode * PerNode)
      BY <1>1, <1>2, <1>7 DEF root_entries
    <3>2. QED
      BY <2>1, <3>1, Zenon DEF index_entries
  <2>3. Len(ino.entries) = M
    BY <2>2
  <2>4. \A j \in 1 .. M : ino.entries[j] =
           [block |-> t.es[(j - 1) * (PerNode * PerNode) + 1].block, child |-> t.ib[j]]
    BY <2>2
  <2>5. M <= InInode
    BY <1>3, <1>7, <2>1, Levels DEF supported
  <2>6. ino.depth = 2 /\ ino.depth # 0 /\ ino.depth # 1 /\ ino.depth \in 0 .. 2
    BY <1>2, <1>7
  <2>7. QED
    BY <1>1, <1>2, <2>1, <2>3, <2>4, <2>5, <2>6, Zenon
<1>8. QED
  BY <1>4, <1>5, <1>6, <1>7

\* The children of the entries of the leaves are the leaves.
LEMMA LeafChildren ==
  ASSUME NEW t, tree(t)
  PROVE  /\ children(leaf_entries(t)) = elems(t.lb)
         /\ \A k \in 1 .. Len(t.lb) : leaf_entries(t)[k].child = t.lb[k]
<1>1. ASSUME NEW k \in 1 .. Len(t.lb) PROVE leaf_entries(t)[k].child = t.lb[k]
  <2>1. leaf_entries(t)[k] = [block |-> t.es[(k - 1) * PerNode + 1].block, child |-> t.lb[k]]
    BY LeafEntries, Zenon
  <2>2. QED
    BY <2>1
<1>2. Len(leaf_entries(t)) = Len(t.lb)
  BY LeafEntries
<1>3. QED
  BY <1>1, <1>2 DEF children, elems

\* extent_tree_blocks gives the nodes of the tree, all of them.
LEMMA TreeNodes ==
  ASSUME NEW t, tree(t), written(t, store), NEW ino, rooted(t, ino)
  PROVE  extent_tree_blocks(ino) = nodes(t)
<1>1. ino.depth \in 0 .. 2
  BY RootAt
<1>2. CASE ino.depth = 0
  <2>1. elems(t.lb) = {} /\ elems(t.ib) = {}
    BY <1>2, RootAt DEF elems
  <2>2. QED
    BY <1>2, <2>1 DEF extent_tree_blocks, nodes
<1>3. CASE ino.depth = 1
  <2>1. elems(t.ib) = {} /\ ino.entries = leaf_entries(t)
    BY <1>3, RootAt DEF elems
  <2>2. QED
    BY <1>3, <2>1, LeafChildren DEF extent_tree_blocks, nodes
<1>4. CASE ino.depth = 2
  <2>1. PICK M : M = Len(t.ib) /\ M = nodes_for(Len(t.lb)) /\ Len(ino.entries) = M
    BY <1>4, RootAt
  <2>2. ASSUME NEW j \in 1 .. M PROVE ino.entries[j].child = t.ib[j]
    <3>1. \A i \in 1 .. Len(t.ib) : ino.entries[i] =
             [block |-> t.es[(i - 1) * (PerNode * PerNode) + 1].block, child |-> t.ib[i]]
      BY <1>4, RootAt, ZenonT(30)
    <3>2. ino.entries[j] = [block |-> t.es[(j - 1) * (PerNode * PerNode) + 1].block,
                            child |-> t.ib[j]]
      BY <2>1, <3>1, Zenon
    <3>3. QED
      BY <3>2
  <2>3. children(ino.entries) = elems(t.ib)
    BY <2>1, <2>2 DEF children, elems
  <2>4. ASSUME NEW j \in 1 .. M
        PROVE  children(store[t.ib[j]].entries) \subseteq elems(t.lb)
    <3>1. ASSUME NEW m \in 1 .. Len(store[t.ib[j]].entries)
          PROVE  store[t.ib[j]].entries[m].child \in elems(t.lb)
      <4>1. PICK k : k = (j - 1) * PerNode + m
        OBVIOUS
      <4>2. k \in 1 .. Len(t.lb) /\ store[t.ib[j]].entries[m] = leaf_entries(t)[k]
        <5>0. j \in 1 .. Len(t.ib)
          BY <2>1
        <5>1. \A i \in 1 .. Len(store[t.ib[j]].entries) :
                /\ (j - 1) * PerNode + i \in 1 .. Len(t.lb)
                /\ store[t.ib[j]].entries[i] = leaf_entries(t)[(j - 1) * PerNode + i]
          BY <5>0, IndexAt, Zenon
        <5>2. QED
          BY <4>1, <5>1, Zenon
      <4>3. leaf_entries(t)[k].child = t.lb[k]
        BY <4>2, LeafChildren
      <4>4. QED
        BY <4>2, <4>3 DEF elems
    <3>2. QED
      BY <3>1 DEF children
  <2>5. ASSUME NEW k \in 1 .. Len(t.lb)
        PROVE  \E j \in 1 .. M : t.lb[k] \in children(store[t.ib[j]].entries)
    <3>1. Len(t.lb) \in Nat
      BY LeafEntries
    <3>2. PICK j \in 1 .. M : \E m \in 1 .. cut(Len(t.lb), j) - (j - 1) * PerNode :
                                  k = (j - 1) * PerNode + m
      <4>1. \E j \in 1 .. nodes_for(Len(t.lb)) :
               \E m \in 1 .. cut(Len(t.lb), j) - (j - 1) * PerNode : k = (j - 1) * PerNode + m
        BY <3>1, InNode, Zenon
      <4>2. QED
        BY <2>1, <4>1, Zenon
    <3>3. PICK m \in 1 .. cut(Len(t.lb), j) - (j - 1) * PerNode : k = (j - 1) * PerNode + m
      BY <3>2
    <3>4. Len(store[t.ib[j]].entries) = cut(Len(t.lb), j) - (j - 1) * PerNode
      BY <2>1, IndexAt
    <3>5. m \in 1 .. Len(store[t.ib[j]].entries)
      BY <3>3, <3>4
    <3>6. store[t.ib[j]].entries[m] = leaf_entries(t)[k]
      <4>0. j \in 1 .. Len(t.ib)
        BY <2>1
      <4>1. \A i \in 1 .. Len(store[t.ib[j]].entries) :
                store[t.ib[j]].entries[i] = leaf_entries(t)[(j - 1) * PerNode + i]
        BY <4>0, IndexAt, Zenon
      <4>2. QED
        BY <3>3, <3>5, <4>1, Zenon
    <3>7. store[t.ib[j]].entries[m].child = t.lb[k]
      BY <3>6, LeafChildren
    <3>8. QED
      BY <3>5, <3>7 DEF children
  <2>6. extent_tree_blocks(ino) =
          elems(t.ib) \cup UNION {children(store[b].entries) : b \in elems(t.ib)}
    BY <1>4, <2>3 DEF extent_tree_blocks
  <2>7. UNION {children(store[b].entries) : b \in elems(t.ib)} = elems(t.lb)
    <3>1. \A x \in elems(t.ib) : children(store[x].entries) \subseteq elems(t.lb)
      BY <2>1, <2>4 DEF elems
    <3>2. \A x \in elems(t.lb) : \E b \in elems(t.ib) : x \in children(store[b].entries)
      BY <2>1, <2>5 DEF elems
    <3>3. QED
      BY <3>1, <3>2
  <2>8. QED
    BY <2>6, <2>7 DEF nodes
<1>5. QED
  BY <1>1, <1>2, <1>3, <1>4

\* The first logical block below a leaf, and below an index block.
LEMMA FirstBelow ==
  ASSUME NEW t, tree(t), written(t, store)
  PROVE  /\ \A k \in 1 .. Len(t.lb) :
              leaf_entries(t)[k].block = first_block(leaf_entries(t)[k].child)
         /\ \A j \in 1 .. Len(t.ib) :
              first_block(t.ib[j]) = t.es[(j - 1) * (PerNode * PerNode) + 1].block
<1>1. PICK P \in Nat \ {0} : P = PerNode
  BY FileAssumption
<1>2. PICK es \in Seq(Extent) : es = t.es
  BY ListFacts DEF tree
<1>3. ASSUME NEW k \in 1 .. Len(t.lb)
      PROVE  /\ leaf_entries(t)[k].block = es[(k - 1) * P + 1].block
             /\ leaf_entries(t)[k].child = t.lb[k]
  <2>1. leaf_entries(t)[k] = [block |-> t.es[(k - 1) * PerNode + 1].block, child |-> t.lb[k]]
    BY LeafEntries, Zenon
  <2>2. QED
    BY <1>1, <1>2, <2>1
<1>4. ASSUME NEW k \in 1 .. Len(t.lb)
      PROVE  first_block(t.lb[k]) = es[(k - 1) * P + 1].block
  <2>1. /\ k \in 1 .. nodes_for(Len(es))
        /\ store[t.lb[k]].kind = "leaf" /\ store[t.lb[k]].entries = chunk(es, k)
    BY <1>2, LeafAt
  <2>2. 1 \in 1 .. Len(chunk(es, k))
    <3>1. Len(chunk(es, k)) \in 1 .. PerNode
      BY <2>1, Chunk
    <3>2. QED
      BY <1>1, <3>1
  <2>3. chunk(es, k)[1] = es[(k - 1) * PerNode + 1]
    <3>1. \A m \in 1 .. Len(chunk(es, k)) : chunk(es, k)[m] = es[(k - 1) * PerNode + m]
      BY <2>1, Chunk, Zenon
    <3>2. QED
      BY <2>2, <3>1, Zenon
  <2>4. first_block(t.lb[k]) = chunk(es, k)[1].block
    BY <2>1 DEF first_block
  <2>5. QED
    BY <1>1, <2>3, <2>4
<1>5. ASSUME NEW j \in 1 .. Len(t.ib)
      PROVE  first_block(t.ib[j]) = es[(j - 1) * (P * P) + 1].block
  <2>1. PICK e : e = store[t.ib[j]].entries
    OBVIOUS
  <2>2. store[t.ib[j]].kind = "index" /\ Len(e) \in 1 .. P
    BY <1>1, <2>1, IndexAt
  <2>3. \A m \in 1 .. Len(store[t.ib[j]].entries) :
          /\ (j - 1) * PerNode + m \in 1 .. Len(t.lb)
          /\ store[t.ib[j]].entries[m] = leaf_entries(t)[(j - 1) * PerNode + m]
    BY IndexAt, Zenon
  <2>4. 1 \in 1 .. Len(e)
    BY <2>2
  <2>5. PICK k : k = (j - 1) * P + 1
    OBVIOUS
  <2>6. k \in 1 .. Len(t.lb) /\ e[1] = leaf_entries(t)[k]
    BY <1>1, <2>1, <2>3, <2>4, <2>5, Zenon
  <2>7. e[1].block = es[(k - 1) * P + 1].block
    BY <1>3, <2>6
  <2>8. (k - 1) * P = (j - 1) * (P * P)
    <3>1. PICK a \in Nat : a = j - 1
      BY DEF tree
    <3>2. k - 1 = a * P
      BY <2>5, <3>1
    <3>3. (a * P) * P = a * (P * P)
      BY ONLY a \in Nat, P \in Nat
    <3>4. QED
      BY <3>1, <3>2, <3>3
  <2>9. first_block(t.ib[j]) = e[1].block
    BY <2>1, <2>2 DEF first_block
  <2>10. QED
    BY <2>7, <2>8, <2>9
<1>6. \A j \in 1 .. Len(t.ib) :
        first_block(t.ib[j]) = t.es[(j - 1) * (PerNode * PerNode) + 1].block
  BY <1>1, <1>2, <1>5, Zenon
<1>7. QED
  BY <1>3, <1>4, <1>6

\* A tree as it is written is a tree another ext4 can read.
LEMMA TreeIsSound ==
  ASSUME NEW t, tree(t), written(t, store), NEW ino, rooted(t, ino)
  PROVE  /\ sorted(parse_extent_tree(ino))
         /\ \A b \in extent_tree_blocks(ino) : Len(store[b].entries) \in 1 .. PerNode
         /\ ino.depth > 0 => \A i \in 1 .. Len(ino.entries) :
              ino.entries[i].block = first_block(ino.entries[i].child)
         /\ \A b \in extent_tree_blocks(ino) : store[b].kind = "index" =>
              \A i \in 1 .. Len(store[b].entries) :
                 store[b].entries[i].block = first_block(store[b].entries[i].child)
<1>1. sorted(parse_extent_tree(ino))
  <2>1. sorted(t.es)
    BY SameLists DEF tree
  <2>2. QED
    BY <2>1, TreeRead
<1>2. ASSUME NEW k \in 1 .. Len(t.lb)
      PROVE  Len(store[t.lb[k]].entries) \in 1 .. PerNode /\ store[t.lb[k]].kind = "leaf"
  <2>1. PICK es \in Seq(Extent) : es = t.es
    BY ListFacts DEF tree
  <2>2. /\ k \in 1 .. nodes_for(Len(es)) /\ store[t.lb[k]].kind = "leaf"
        /\ store[t.lb[k]].entries = chunk(es, k)
    BY <2>1, LeafAt
  <2>3. Len(chunk(es, k)) \in 1 .. PerNode
    BY <2>2, Chunk
  <2>4. QED
    BY <2>2, <2>3
<1>3. ASSUME NEW j \in 1 .. Len(t.ib)
      PROVE  /\ Len(store[t.ib[j]].entries) \in 1 .. PerNode
             /\ \A m \in 1 .. Len(store[t.ib[j]].entries) :
                  store[t.ib[j]].entries[m].block = first_block(store[t.ib[j]].entries[m].child)
  <2>1. Len(store[t.ib[j]].entries) \in 1 .. PerNode
    BY IndexAt
  <2>2. \A m \in 1 .. Len(store[t.ib[j]].entries) :
          /\ (j - 1) * PerNode + m \in 1 .. Len(t.lb)
          /\ store[t.ib[j]].entries[m] = leaf_entries(t)[(j - 1) * PerNode + m]
    BY IndexAt, Zenon
  <2>3. \A k \in 1 .. Len(t.lb) :
          leaf_entries(t)[k].block = first_block(leaf_entries(t)[k].child)
    BY FirstBelow, Zenon
  <2>4. QED
    BY <2>1, <2>2, <2>3, Zenon
<1>4. extent_tree_blocks(ino) = nodes(t)
  BY TreeNodes
<1>5. \A b \in nodes(t) :
         (\E k \in 1 .. Len(t.lb) : b = t.lb[k]) \/ (\E j \in 1 .. Len(t.ib) : b = t.ib[j])
  BY DEF nodes, elems
<1>6. ASSUME ino.depth > 0, NEW i \in 1 .. Len(ino.entries)
      PROVE  ino.entries[i].block = first_block(ino.entries[i].child)
  <2>1. ino.depth = 1 \/ ino.depth = 2
    BY <1>6, RootAt
  <2>2. CASE ino.depth = 1
    <3>1. ino.entries = leaf_entries(t) /\ Len(leaf_entries(t)) = Len(t.lb)
      BY <2>2, RootAt, LeafEntries
    <3>2. \A k \in 1 .. Len(t.lb) :
            leaf_entries(t)[k].block = first_block(leaf_entries(t)[k].child)
      BY FirstBelow, Zenon
    <3>3. QED
      BY <3>1, <3>2
  <2>3. CASE ino.depth = 2
    <3>1. Len(ino.entries) = Len(t.ib) /\ \A j \in 1 .. Len(t.ib) : ino.entries[j] =
             [block |-> t.es[(j - 1) * (PerNode * PerNode) + 1].block, child |-> t.ib[j]]
      BY <2>3, RootAt, ZenonT(30)
    <3>2. \A j \in 1 .. Len(t.ib) :
              first_block(t.ib[j]) = t.es[(j - 1) * (PerNode * PerNode) + 1].block
      BY FirstBelow, Zenon
    <3>3. PICK x : x = t.es[(i - 1) * (PerNode * PerNode) + 1].block
      OBVIOUS
    <3>4. ino.entries[i] = [block |-> x, child |-> t.ib[i]] /\ first_block(t.ib[i]) = x
      BY <3>1, <3>2, <3>3, Zenon
    <3>5. QED
      BY <3>4
  <2>4. QED
    BY <2>1, <2>2, <2>3
<1>7. ASSUME NEW b \in extent_tree_blocks(ino)
      PROVE  /\ Len(store[b].entries) \in 1 .. PerNode
             /\ store[b].kind = "index" => \A i \in 1 .. Len(store[b].entries) :
                   store[b].entries[i].block = first_block(store[b].entries[i].child)
  BY <1>2, <1>3, <1>4, <1>5
<1>8. QED
  BY <1>1, <1>6, <1>7

-------------------------------------------------------------------------------
\* x is the part of s behind place a, up to b.
Part(x, s, a, b, A) ==
    /\ x \in Seq(A) /\ Len(x) = b - a /\ distinct(x)
    /\ \A i \in 1 .. b - a : x[i] = s[a + i]
    /\ elems(x) = {s[i] : i \in a + 1 .. b}
    /\ ToSet(x) = {s[i] : i \in a + 1 .. b}

\* A part of a sequence.
LEMMA Slice ==
  ASSUME NEW A, NEW s \in Seq(A), distinct(s), NEW a \in 0 .. Len(s), NEW b \in 0 .. Len(s), a <= b,
         NEW x, x = SubSeq(s, a + 1, b)
  PROVE  Part(x, s, a, b, A)
<1>1. x = SubSeq(s, a + 1, b)
  OBVIOUS
<1>2. Len(s) \in Nat
  OBVIOUS
<1>3. /\ x \in Seq(A) /\ Len(x) = b - a /\ \A i \in 1 .. b - a : x[i] = s[a + i]
  <2>1. a + 1 \in 1 .. Len(s) + 1 /\ b \in a .. Len(s)
    BY <1>2
  <2>2. QED
    BY <1>1, <2>1
<1>4. \A i \in 1 .. b - a : a + i \in 1 .. Len(s) /\ a + i \in a + 1 .. b
  BY <1>2
<1>5. ASSUME NEW i \in 1 .. b - a, NEW j \in 1 .. b - a, x[i] = x[j]
      PROVE  i = j
  <2>1. s[a + i] = s[a + j]
    BY <1>3, <1>5
  <2>2. a + i = a + j
    BY <1>4, <2>1 DEF distinct
  <2>3. QED
    BY <2>2
<1>6. \A k \in a + 1 .. b : k - a \in 1 .. b - a /\ a + (k - a) = k
  BY <1>2
<1>7. elems(x) = {s[i] : i \in a + 1 .. b}
  <2>1. elems(x) = {x[i] : i \in 1 .. b - a}
    BY <1>3 DEF elems
  <2>2. \A i \in 1 .. b - a : \E k \in a + 1 .. b : x[i] = s[k]
    BY <1>3, <1>4, Zenon
  <2>3. \A k \in a + 1 .. b : \E i \in 1 .. b - a : x[i] = s[k]
    BY <1>3, <1>6, Zenon
  <2>4. ASSUME NEW y \in elems(x) PROVE y \in {s[i] : i \in a + 1 .. b}
    <3>1. PICK i \in 1 .. b - a : y = x[i]
      BY <2>1
    <3>2. QED
      BY <2>2, <3>1
  <2>5. ASSUME NEW k \in a + 1 .. b PROVE s[k] \in elems(x)
    <3>1. PICK i \in 1 .. b - a : s[k] = x[i]
      BY <2>3
    <3>2. QED
      BY <2>1, <3>1
  <2>6. QED
    BY <2>4, <2>5
<1>8. ToSet(x) = elems(x)
  <2>1. DOMAIN x = 1 .. Len(x)
    BY <1>3
  <2>2. QED
    BY <2>1 DEF ToSet, elems
<1>9. distinct(x)
  BY <1>3, <1>5 DEF distinct
<1>10. QED
  BY <1>3, <1>7, <1>8, <1>9, Zenon DEF Part

\* The nodes of a tree are written where they belong, and nothing else is.
LEMMA WithTree ==
  ASSUME NEW t, t.lb \in Seq(PBlock), distinct(t.lb), t.ib \in Seq(PBlock), distinct(t.ib),
         elems(t.lb) \cap elems(t.ib) = {}, NEW st
  PROVE  /\ written(t, with_tree(st, t.es, t.lb, t.ib))
         /\ \A b \in PBlock : b \notin nodes(t) => with_tree(st, t.es, t.lb, t.ib)[b] = st[b]
<1> DEFINE at(s, b) == CHOOSE i \in 1 .. Len(s) : s[i] = b
           content(b) ==
              IF \E i \in 1 .. Len(t.lb) : t.lb[i] = b THEN leaf_block(chunk(t.es, at(t.lb, b)))
              ELSE IF \E i \in 1 .. Len(t.ib) : t.ib[i] = b
              THEN index_block(chunk(leaf_entries(t), at(t.ib, b)), 1)
              ELSE st[b]
<1>1. PICK w : w = with_tree(st, t.es, t.lb, t.ib)
  OBVIOUS
<1>2. w = [b \in PBlock |-> content(b)]
  BY <1>1, Zenon DEF with_tree, leaf_entries
<1>3. \A i \in 1 .. Len(t.lb) : at(t.lb, t.lb[i]) = i
  BY DEF distinct
<1>4. \A i \in 1 .. Len(t.ib) : at(t.ib, t.ib[i]) = i
  BY DEF distinct
<1>5. (\A i \in 1 .. Len(t.lb) : t.lb[i] \in PBlock) /\ (\A i \in 1 .. Len(t.ib) : t.ib[i] \in PBlock)
  OBVIOUS
<1>6. \A i \in 1 .. Len(t.lb), j \in 1 .. Len(t.ib) : t.lb[i] # t.ib[j]
  BY DEF elems
<1> HIDE DEF at
<1>7. ASSUME NEW i \in 1 .. Len(t.lb) PROVE w[t.lb[i]] = leaf_block(chunk(t.es, i))
  <2>1. w[t.lb[i]] = content(t.lb[i])
    BY <1>2, <1>5
  <2>2. content(t.lb[i]) = leaf_block(chunk(t.es, at(t.lb, t.lb[i])))
    BY Zenon
  <2>3. QED
    BY <1>3, <2>1, <2>2, Zenon
<1>8. ASSUME NEW i \in 1 .. Len(t.ib) PROVE w[t.ib[i]] = index_block(chunk(leaf_entries(t), i), 1)
  <2>1. w[t.ib[i]] = content(t.ib[i])
    BY <1>2, <1>5
  <2>2. content(t.ib[i]) = index_block(chunk(leaf_entries(t), at(t.ib, t.ib[i])), 1)
    BY <1>6, Zenon
  <2>3. QED
    BY <1>4, <2>1, <2>2, Zenon
<1>9. ASSUME NEW b \in PBlock, b \notin nodes(t) PROVE w[b] = st[b]
  <2>1. w[b] = content(b)
    BY <1>2
  <2>2. (~\E i \in 1 .. Len(t.lb) : t.lb[i] = b) /\ (~\E i \in 1 .. Len(t.ib) : t.ib[i] = b)
    BY <1>9 DEF nodes, elems
  <2>3. content(b) = st[b]
    BY <2>2, Zenon
  <2>4. QED
    BY <2>1, <2>3
<1>10. QED
  BY <1>1, <1>7, <1>8, <1>9, Zenon DEF written

\* Blocks bs of F, all different, for blocks ls of a file.
Pairs(ls, bs, n, F) ==
    /\ \A i \in 1 .. n : ls[i] \in Nat /\ bs[i] \in Nat /\ bs[i] \in F
    /\ \A i, j \in 1 .. n : bs[i] = bs[j] => i = j

\* List fs is one to one, and on the blocks of es and bs.
Grown(fs, es, bs, n) ==
    /\ OneToOne(fs)
    /\ extent_blocks(fs) = extent_blocks(es) \cup {bs[i] : i \in 1 .. n}

\* The list of a file that grew: the new blocks are behind the old ones.
LEMMA GrownList ==
  ASSUME NEW es, list(es), OneToOne(es), NEW U, extent_blocks(es) \cap U = {}, NEW n \in Nat,
         NEW ls, NEW bs, Pairs(ls, bs, n, U), NEW fs, list(fs), Adds(fs, es, ls, bs, n)
  PROVE  Grown(fs, es, bs, n)
<1> USE DEF Pairs
<1>1. \A l \in Nat, v \in Nat :
         maps(fs, l, v) <=> maps(es, l, v) \/ \E j \in 1 .. n : l = ls[j] /\ v = bs[j]
  BY DEF Adds
<1>2. /\ \A v : v \in extent_blocks(es) => v \in Nat /\ \E l \in Nat : maps(es, l, v)
      /\ \A l \in Nat : \A v : maps(es, l, v) => v \in extent_blocks(es)
  BY Targets
<1>3. /\ \A v : v \in extent_blocks(fs) => v \in Nat /\ \E l \in Nat : maps(fs, l, v)
      /\ \A l \in Nat : \A v : maps(fs, l, v) => v \in extent_blocks(fs)
  BY Targets
<1>4. ASSUME NEW l \in Nat, NEW m \in Nat, NEW v \in Nat, maps(fs, l, v), maps(fs, m, v)
      PROVE  l = m
  <2>1. CASE maps(es, l, v) /\ maps(es, m, v)
    BY <2>1 DEF OneToOne
  <2>2. CASE maps(es, l, v) /\ ~maps(es, m, v)
    <3>1. PICK j \in 1 .. n : v = bs[j]
      BY <1>1, <1>4, <2>2
    <3>2. v \in extent_blocks(es) /\ v \in U
      BY <1>2, <2>2, <3>1
    <3>3. QED
      BY <3>2
  <2>3. CASE ~maps(es, l, v) /\ maps(es, m, v)
    <3>1. PICK j \in 1 .. n : v = bs[j]
      BY <1>1, <1>4, <2>3
    <3>2. v \in extent_blocks(es) /\ v \in U
      BY <1>2, <2>3, <3>1
    <3>3. QED
      BY <3>2
  <2>4. CASE ~maps(es, l, v) /\ ~maps(es, m, v)
    <3>1. PICK i \in 1 .. n : l = ls[i] /\ v = bs[i]
      BY <1>1, <1>4, <2>4
    <3>2. PICK j \in 1 .. n : m = ls[j] /\ v = bs[j]
      BY <1>1, <1>4, <2>4
    <3>3. i = j
      BY <3>1, <3>2
    <3>4. QED
      BY <3>1, <3>2, <3>3
  <2>5. QED
    BY <2>1, <2>2, <2>3, <2>4
<1>5. ASSUME NEW v, v \in extent_blocks(fs)
      PROVE  v \in extent_blocks(es) \cup {bs[i] : i \in 1 .. n}
  <2>1. PICK l \in Nat : v \in Nat /\ maps(fs, l, v)
    BY <1>3, <1>5
  <2>2. maps(es, l, v) \/ \E j \in 1 .. n : l = ls[j] /\ v = bs[j]
    BY <1>1, <2>1
  <2>3. QED
    BY <1>2, <2>2
<1>6. ASSUME NEW v, v \in extent_blocks(es)
      PROVE  v \in extent_blocks(fs)
  <2>1. PICK l \in Nat : v \in Nat /\ maps(es, l, v)
    BY <1>2, <1>6
  <2>2. maps(fs, l, v)
    BY <1>1, <2>1
  <2>3. QED
    BY <1>3, <2>2
<1>7. ASSUME NEW i \in 1 .. n
      PROVE  bs[i] \in extent_blocks(fs)
  <2>1. PICK l \in Nat, v \in Nat : l = ls[i] /\ v = bs[i]
    OBVIOUS
  <2>2. maps(fs, l, v)
    BY <1>1, <2>1
  <2>3. QED
    BY <1>3, <2>1, <2>2
<1>8. OneToOne(fs)
  BY <1>4 DEF OneToOne
<1>9. QED
  BY <1>5, <1>6, <1>7, <1>8 DEF Grown

-------------------------------------------------------------------------------
\* EXTENTS_CACHE has no list but those of the trees T.
Fresh(c, T) ==
    /\ c = [f \in File |-> c[f]]
    /\ \A f \in File : c[f] # NotCached => c[f] = T[f].es

\* It stays so when the list of a file is put, with or without eviction.
LEMMA PutFresh ==
  ASSUME NEW T, NEW c, Fresh(c, T), NEW f \in File
  PROVE  Fresh(extents_cache_put(c, f, T[f].es), T)
<1>1. PICK p : p = extents_cache_put(c, f, T[f].es)
  OBVIOUS
<1>2. \/ p = [g \in File |-> IF g = f THEN T[f].es ELSE NotCached]
      \/ p = [c EXCEPT ![f] = T[f].es]
  BY <1>1, Zenon DEF extents_cache_put
<1>3. p = [g \in File |-> p[g]]
  BY <1>2 DEF Fresh
<1>4. ASSUME NEW g \in File, p[g] # NotCached PROVE p[g] = T[g].es
  BY <1>2, <1>4 DEF Fresh
<1>5. QED
  BY <1>1, <1>3, <1>4 DEF Fresh

\* What the scan of a directory leaves in the cache.
LEMMA ScanFresh ==
  ASSUME NEW T, Fresh(ecache, T), NEW d \in File, NEW c \in scanned(d, T[d].es)
  PROVE  Fresh(c, T)
<1>1. PICK l : l = IF ecache[d] # NotCached THEN ecache ELSE extents_cache_put(ecache, d, T[d].es)
  OBVIOUS
<1>2. Fresh(l, T)
  BY <1>1, PutFresh
<1>3. c \in {extents_cache_put(e, d, T[d].es) : e \in {ecache, l}}
  BY <1>1, Zenon DEF scanned
<1>4. c = extents_cache_put(ecache, d, T[d].es) \/ c = extents_cache_put(l, d, T[d].es)
  BY <1>3
<1>5. QED
  BY <1>2, <1>4, PutFresh

\* A file that has a new tree loses its entry.
LEMMA DropFresh ==
  ASSUME NEW T, NEW c, Fresh(c, T), NEW f \in File, NEW U,
         \A g \in File : g # f => U[g] = T[g]
  PROVE  Fresh(extents_cache_invalidate(c, f), U)
<1>1. PICK p : p = extents_cache_invalidate(c, f)
  OBVIOUS
<1>2. p = [c EXCEPT ![f] = NotCached]
  BY <1>1 DEF extents_cache_invalidate
<1>3. p = [g \in File |-> p[g]]
  BY <1>2 DEF Fresh
<1>4. ASSUME NEW g \in File, p[g] # NotCached PROVE p[g] = U[g].es
  BY <1>2, <1>4 DEF Fresh
<1>5. QED
  BY <1>1, <1>3, <1>4 DEF Fresh

\* The inductive invariant, for the trees T of the files: they are on the
\* device, the bitmap has their blocks, no two have a block in common, and
\* the cache has no other lists.
Results == {"written", "truncated", "read", "NoSpace", "Unsupported"}
Forest(T) ==
    /\ used \subseteq PBlock /\ cursor \in Nat /\ ret \in Results
    /\ store = [b \in PBlock |-> store[b]] /\ inode = [f \in File |-> inode[f]]
    /\ \A f \in File : tree(T[f]) /\ written(T[f], store) /\ rooted(T[f], inode[f])
    /\ \A f \in File : blocks_of(T[f]) \subseteq used
    /\ \A f, g \in File : f # g => blocks_of(T[f]) \cap blocks_of(T[g]) = {}
    /\ Fresh(ecache, T)

\* Every block of a directory is mapped.
Filled(T) ==
    \A d \in Dir : /\ inode[d].size \in Nat
                  /\ \A l \in 0 .. inode[d].size - 1 : map_logical_block(T[d].es, l) # NoBlock

Inv == \E T : Forest(T) /\ Filled(T)

\* The blocks in use that no tree has.
lost(T) == used \ UNION {blocks_of(T[f]) : f \in File}

\* The trees are what the code finds: by the tree, and by the cache.
LEMMA ForestRead ==
  \A T : Forest(T) =>
    /\ \A f \in File : /\ parse_extent_tree(inode[f]) = T[f].es
                       /\ extent_tree_blocks(inode[f]) = nodes(T[f])
                       /\ current_extents(f) = T[f].es
                       /\ owned(f) = blocks_of(T[f])
    /\ leaked = lost(T)
<1> SUFFICES ASSUME NEW T, Forest(T)
             PROVE  /\ \A f \in File : /\ parse_extent_tree(inode[f]) = T[f].es
                                       /\ extent_tree_blocks(inode[f]) = nodes(T[f])
                                       /\ current_extents(f) = T[f].es
                                       /\ owned(f) = blocks_of(T[f])
                    /\ leaked = lost(T)
  BY Zenon
<1>1. ASSUME NEW f \in File
      PROVE  /\ parse_extent_tree(inode[f]) = T[f].es
             /\ extent_tree_blocks(inode[f]) = nodes(T[f])
             /\ current_extents(f) = T[f].es
             /\ owned(f) = blocks_of(T[f])
  <2>1. tree(T[f]) /\ written(T[f], store) /\ rooted(T[f], inode[f])
    BY DEF Forest
  <2>2. parse_extent_tree(inode[f]) = T[f].es
    BY <2>1, TreeRead
  <2>3. extent_tree_blocks(inode[f]) = nodes(T[f])
    BY <2>1, TreeNodes
  <2>4. current_extents(f) = T[f].es
    BY <2>2 DEF current_extents, Forest, Fresh
  <2>5. QED
    BY <2>2, <2>3, <2>4 DEF owned, data_blocks, blocks_of
<1>2. leaked = lost(T)
  BY <1>1 DEF leaked, lost
<1>3. QED
  BY <1>1, <1>2

\* The size is not part of the tree.
LEMMA Resized ==
  ASSUME NEW t, NEW ino, rooted(t, ino), NEW s
  PROVE  rooted(t, [ino EXCEPT !.size = s])
<1>1. PICK a, b, c, d : /\ ino = [size |-> a, blocks |-> b, depth |-> c, entries |-> d]
                        /\ b = extents_blocks_count(t.es) /\ c = tree_depth(Len(t.es))
                        /\ d = root_entries(t.es, t.lb, t.ib)
  BY Zenon DEF rooted
<1>2. [ino EXCEPT !.size = s] = [size |-> s, blocks |-> b, depth |-> c, entries |-> d]
  BY <1>1
<1>3. [ino EXCEPT !.size = s].size = s
  BY <1>2
<1>4. QED
  BY <1>1, <1>2, <1>3, Zenon DEF rooted

\* A call that leaves the trees alone.
LEMMA Kept ==
  ASSUME NEW T, Forest(T), used' \subseteq PBlock, cursor' \in Nat, ret' \in Results,
         store' = [b \in PBlock |-> store'[b]],
         \A f \in File : \A b \in nodes(T[f]) : store'[b] = store[b],
         inode' = inode \/ \E f \in File : \E s : inode' = [inode EXCEPT ![f].size = s],
         \A f \in File : blocks_of(T[f]) \subseteq used',
         Fresh(ecache', T)
  PROVE  Forest(T)'
<1>1. inode' = [f \in File |-> inode'[f]]
  <2>1. inode = [f \in File |-> inode[f]]
    BY DEF Forest
  <2>2. QED
    BY <2>1
<1>2. ASSUME NEW f \in File
      PROVE  tree(T[f]) /\ written(T[f], store') /\ rooted(T[f], inode'[f])
  <2>1. tree(T[f]) /\ written(T[f], store) /\ rooted(T[f], inode[f])
    BY DEF Forest
  <2>2. written(T[f], store')
    <3>1. \A i \in 1 .. Len(T[f].lb) : store'[T[f].lb[i]] = store[T[f].lb[i]]
      BY DEF nodes, elems
    <3>2. \A i \in 1 .. Len(T[f].ib) : store'[T[f].ib[i]] = store[T[f].ib[i]]
      BY DEF nodes, elems
    <3>3. QED
      BY <2>1, <3>1, <3>2, Zenon DEF written
  <2>3. rooted(T[f], inode'[f])
    <3>1. CASE inode' = inode
      BY <2>1, <3>1
    <3>2. CASE \E g \in File : \E s : inode' = [inode EXCEPT ![g].size = s]
      <4>1. PICK g \in File : \E s : inode' = [inode EXCEPT ![g].size = s]
        BY <3>2
      <4>2. PICK s : inode' = [inode EXCEPT ![g].size = s]
        BY <4>1
      <4>3. inode = [x \in File |-> inode[x]]
        BY DEF Forest
      <4>4. inode'[f] = IF f = g THEN [inode[f] EXCEPT !.size = s] ELSE inode[f]
        BY <4>2, <4>3
      <4>5. QED
        BY <2>1, <4>4, Resized
    <3>3. QED
      BY <3>1, <3>2
  <2>4. QED
    BY <2>1, <2>2, <2>3
<1>3. \A f, g \in File : f # g => blocks_of(T[f]) \cap blocks_of(T[g]) = {}
  BY DEF Forest
<1>4. QED
  BY <1>1, <1>2, <1>3 DEF Forest

\* A call that gives file f tree t.
LEMMA Replaced ==
  ASSUME NEW T, Forest(T), NEW f \in File, NEW t, tree(t),
         NEW U, U = [g \in File |-> IF g = f THEN t ELSE T[g]],
         used' \subseteq PBlock, cursor' \in Nat, ret' \in Results,
         store' = [b \in PBlock |-> store'[b]],
         \A g \in File : g # f => \A b \in nodes(T[g]) : store'[b] = store[b],
         NEW ino, inode' = [inode EXCEPT ![f] = ino],
         written(t, store'), rooted(t, ino),
         \A g \in File : g # f => blocks_of(T[g]) \subseteq used',
         \A g \in File : g # f => blocks_of(t) \cap blocks_of(T[g]) = {},
         blocks_of(t) \subseteq used',
         Fresh(ecache', U)
  PROVE  Forest(U)'
<1>1. inode' = [g \in File |-> inode'[g]] /\ inode'[f] = ino
      /\ \A g \in File : g # f => inode'[g] = inode[g]
  BY DEF Forest
<1>2. U[f] = t /\ \A g \in File : g # f => U[g] = T[g]
  OBVIOUS
<1>3. ASSUME NEW g \in File
      PROVE  tree(U[g]) /\ written(U[g], store') /\ rooted(U[g], inode'[g])
             /\ blocks_of(U[g]) \subseteq used'
  <2>1. CASE g = f
    BY <1>1, <1>2, <2>1
  <2>2. CASE g # f
    <3>1. tree(T[g]) /\ written(T[g], store) /\ rooted(T[g], inode[g])
      BY DEF Forest
    <3>2. \A i \in 1 .. Len(T[g].lb) : store'[T[g].lb[i]] = store[T[g].lb[i]]
      BY <2>2 DEF nodes, elems
    <3>3. \A i \in 1 .. Len(T[g].ib) : store'[T[g].ib[i]] = store[T[g].ib[i]]
      BY <2>2 DEF nodes, elems
    <3>4. written(T[g], store')
      BY <3>1, <3>2, <3>3, Zenon DEF written
    <3>5. QED
      BY <1>1, <1>2, <2>2, <3>1, <3>4
  <2>3. QED
    BY <2>1, <2>2
<1>4. ASSUME NEW g \in File, NEW h \in File, g # h
      PROVE  blocks_of(U[g]) \cap blocks_of(U[h]) = {}
  <2>1. \A x, y \in File : x # y => blocks_of(T[x]) \cap blocks_of(T[y]) = {}
    BY DEF Forest
  <2>2. CASE g = f
    BY <1>2, <1>4, <2>2
  <2>3. CASE h = f
    BY <1>2, <1>4, <2>3
  <2>4. CASE g # f /\ h # f
    BY <1>2, <1>4, <2>1, <2>4
  <2>5. QED
    BY <2>2, <2>3, <2>4
<1>5. QED
  BY <1>1, <1>3, <1>4 DEF Forest

-------------------------------------------------------------------------------
\* The tree of a list that fits into the inode, with no block twice.
LEMMA SmallTree ==
  ASSUME NEW es, list(es), OneToOne(es), Len(es) <= InInode, extent_blocks(es) \subseteq PBlock,
         NEW t, t = [es |-> es, lb |-> <<>>, ib |-> <<>>], NEW st, NEW s
  PROVE  /\ tree(t) /\ written(t, st) /\ nodes(t) = {} /\ blocks_of(t) = extent_blocks(es)
         /\ rooted(t, [size |-> s, blocks |-> Cardinality(extent_blocks(es)), depth |-> 0, entries |-> es])
<1>1. t.es = es /\ t.lb = <<>> /\ t.ib = <<>>
  OBVIOUS
<1>2. PICK n \in Nat : n = Len(es)
  BY ListFacts
<1>3. tree_depth(n) = 0
  BY <1>2 DEF tree_depth
<1>4. need_leaf(n) = 0 /\ need_index(n) = 0 /\ supported(n)
  BY <1>3, Levels DEF supported
<1>5. elems(<<>>) = {} /\ distinct(<<>>) /\ Len(<<>>) = 0 /\ <<>> \in Seq(PBlock)
  BY DEF elems, distinct
<1>6. nodes(t) = {} /\ blocks_of(t) = extent_blocks(es)
  BY <1>1, <1>5 DEF nodes, blocks_of
<1>7. tree(t)
  <2>1. list(t.es) /\ OneToOne(t.es) /\ supported(Len(t.es)) /\ extent_blocks(t.es) \subseteq PBlock
    BY <1>1, <1>2, <1>4
  <2>2. t.lb \in Seq(PBlock) /\ Len(t.lb) = need_leaf(Len(t.es)) /\ distinct(t.lb)
    BY <1>1, <1>2, <1>4, <1>5
  <2>3. t.ib \in Seq(PBlock) /\ Len(t.ib) = need_index(Len(t.es)) /\ distinct(t.ib)
    BY <1>1, <1>2, <1>4, <1>5
  <2>4. elems(t.lb) \cap elems(t.ib) = {} /\ extent_blocks(t.es) \cap nodes(t) = {}
    BY <1>1, <1>5, <1>6
  <2>5. QED
    BY <2>1, <2>2, <2>3, <2>4 DEF tree
<1>8. written(t, st)
  BY <1>1, <1>5 DEF written
<1>9. rooted(t, [size |-> s, blocks |-> Cardinality(extent_blocks(es)), depth |-> 0, entries |-> es])
  <2>1. extents_blocks_count(t.es) = Cardinality(extent_blocks(es))
    BY <1>1, Counted
  <2>2. tree_depth(Len(t.es)) = 0 /\ root_entries(t.es, t.lb, t.ib) = es
    BY <1>1, <1>2, <1>3 DEF root_entries
  <2>3. QED
    BY <2>1, <2>2 DEF rooted
<1>10. QED
  BY <1>6, <1>7, <1>8, <1>9

\* The tree of an empty file.
LEMMA EmptyTree ==
  ASSUME NEW t, t = [es |-> <<>>, lb |-> <<>>, ib |-> <<>>], NEW st
  PROVE  tree(t) /\ written(t, st) /\ blocks_of(t) = {} /\ nodes(t) = {} /\ rooted(t, empty_inode)
<1>1. PICK es : es = <<>>
  OBVIOUS
<1>2. es \in Seq(Extent) /\ Len(es) = 0 /\ extent_blocks(es) = {}
  BY <1>1 DEF extent_blocks
<1>3. list(es)
  <2>1. sorted(es)
    BY <1>2 DEF sorted
  <2>2. QED
    BY <1>2, <2>1, SameLists
<1>4. OneToOne(es)
  <2>1. \A l, v \in Nat : ~maps(es, l, v)
    BY <1>2, SameLists
  <2>2. QED
    BY <2>1 DEF OneToOne
<1>5. Len(es) <= InInode
  BY <1>2, FileAssumption
<1>6. Cardinality(extent_blocks(es)) = 0
  BY <1>2, FS_EmptySet
<1>7. /\ tree(t) /\ written(t, st) /\ nodes(t) = {} /\ blocks_of(t) = extent_blocks(es)
      /\ rooted(t, [size |-> 0, blocks |-> Cardinality(extent_blocks(es)), depth |-> 0, entries |-> es])
  BY <1>1, <1>2, <1>3, <1>4, <1>5, SmallTree
<1>8. QED
  BY <1>1, <1>2, <1>6, <1>7 DEF empty_inode

\* The tree of a new directory.
LEMMA HomeTree ==
  ASSUME NEW b \in PBlock, NEW t, t = [es |-> <<new_extent(0, b)>>, lb |-> <<>>, ib |-> <<>>], NEW st
  PROVE  /\ tree(t) /\ written(t, st) /\ blocks_of(t) = {b} /\ nodes(t) = {}
         /\ rooted(t, new_dir(b))
<1>1. PICK e : e = new_extent(0, b)
  OBVIOUS
<1>2. PICK es : es = <<e>>
  OBVIOUS
<1>3. b \in Nat /\ e \in Extent /\ e.block = 0 /\ e.len = 1 /\ e.start = b
  BY <1>1, ExtentsAssumption DEF new_extent, Extent
<1>4. es \in Seq(Extent) /\ Len(es) = 1 /\ es[1] = e
  BY <1>2, <1>3
<1>5. extent_blocks(es) = {b}
  <2>1. b .. b + 1 - 1 = {b}
    BY <1>3
  <2>2. extent_blocks(es) = e.start .. e.start + e.len - 1
    <3>1. 1 .. Len(es) = {1}
      BY <1>4
    <3>2. extent_blocks(es) = UNION {es[i].start .. es[i].start + es[i].len - 1 : i \in {1}}
      BY <3>1, Zenon DEF extent_blocks
    <3>3. UNION {es[i].start .. es[i].start + es[i].len - 1 : i \in {1}}
            = es[1].start .. es[1].start + es[1].len - 1
      OBVIOUS
    <3>4. QED
      BY <1>4, <3>2, <3>3
  <2>3. QED
    BY <1>3, <2>1, <2>2
<1>6. list(es)
  <2>1. sorted(es)
    BY <1>4 DEF sorted
  <2>2. QED
    BY <1>4, <2>1, SameLists
<1>7. OneToOne(es)
  <2>1. ASSUME NEW l \in Nat, NEW v \in Nat, maps(es, l, v) PROVE l = 0
    <3>1. PICK i \in 1 .. Len(es) : covers(es[i], l)
      BY <2>1, SameLists
    <3>2. covers(e, l)
      BY <1>4, <3>1
    <3>3. QED
      BY <1>3, <3>2 DEF covers
  <2>2. QED
    BY <2>1 DEF OneToOne
<1>8. Len(es) <= InInode
  BY <1>4, FileAssumption
<1>9. Cardinality(extent_blocks(es)) = 1
  BY <1>5, FS_Singleton
<1>10. /\ tree(t) /\ written(t, st) /\ nodes(t) = {} /\ blocks_of(t) = extent_blocks(es)
       /\ rooted(t, [size |-> 1, blocks |-> Cardinality(extent_blocks(es)), depth |-> 0, entries |-> es])
  BY <1>1, <1>2, <1>5, <1>6, <1>7, <1>8, SmallTree
<1>11. QED
  BY <1>1, <1>2, <1>5, <1>9, <1>10 DEF new_dir

\* The list of a new directory.
LEMMA HomeList ==
  ASSUME NEW b \in PBlock, NEW es, es = <<new_extent(0, b)>>
  PROVE  map_logical_block(es, 0) = b /\ \A l \in Nat : l # 0 => map_logical_block(es, l) = NoBlock
<1>1. b \in Nat /\ list(es)
  <2>1. PICK t : t = [es |-> <<new_extent(0, b)>>, lb |-> <<>>, ib |-> <<>>]
    OBVIOUS
  <2>2. tree(t)
    BY <2>1, HomeTree
  <2>3. QED
    BY <2>1, <2>2, ExtentsAssumption DEF tree
<1>2. PICK e : e = new_extent(0, b) /\ e.block = 0 /\ e.len = 1 /\ e.start = b
  BY DEF new_extent
<1>3. Len(es) = 1 /\ es[1] = e
  BY <1>2
<1>4. maps(es, 0, b)
  <2>1. covers(es[1], 0) /\ b = es[1].start + (0 - es[1].block) /\ 1 \in 1 .. Len(es)
    BY <1>1, <1>2, <1>3 DEF covers
  <2>2. QED
    BY <2>1, SameLists
<1>5. ASSUME NEW l \in Nat, l # 0 PROVE map_logical_block(es, l) = NoBlock
  <2>1. SUFFICES ASSUME NEW v \in Nat, maps(es, l, v) PROVE FALSE
    BY <1>1, ListMaps
  <2>2. PICK i \in 1 .. Len(es) : covers(es[i], l)
    BY <2>1, SameLists
  <2>3. covers(e, l)
    BY <1>3, <2>2
  <2>4. QED
    BY <1>2, <1>5, <2>3 DEF covers
<1>6. QED
  BY <1>1, <1>4, <1>5, ListMaps

\* The trees of the files at the start.
LEMMA InitInv == Init => Inv
<1> SUFFICES ASSUME Init PROVE Inv
  OBVIOUS
<1>1. PICK home \in [Dir -> PBlock] :
        /\ IsInjective(home) /\ used = Range(home)
        /\ inode = [f \in File |-> IF f \in Dir THEN new_dir(home[f]) ELSE empty_inode]
  BY DEF Init
<1> DEFINE T == [f \in File |-> IF f \in Dir
                                THEN [es |-> <<new_extent(0, home[f])>>, lb |-> <<>>, ib |-> <<>>]
                                ELSE [es |-> <<>>, lb |-> <<>>, ib |-> <<>>]]
<1>2. /\ \A f \in Dir : f \in File /\ home[f] \in PBlock
                        /\ T[f] = [es |-> <<new_extent(0, home[f])>>, lb |-> <<>>, ib |-> <<>>]
      /\ \A f \in File : f \notin Dir => T[f] = [es |-> <<>>, lb |-> <<>>, ib |-> <<>>]
  BY DEF File
<1> HIDE DEF T
<1>3. ASSUME NEW f \in File
      PROVE  /\ tree(T[f]) /\ written(T[f], store) /\ rooted(T[f], inode[f])
             /\ blocks_of(T[f]) = IF f \in Dir THEN {home[f]} ELSE {}
  <2>1. CASE f \in Dir
    <3>1. inode[f] = new_dir(home[f])
      BY <1>1, <2>1
    <3>2. QED
      <4>0. PICK t : t = T[f]
        OBVIOUS
      <4>1. PICK b \in PBlock : b = home[f]
        BY <1>2, <2>1
      <4>2. t = [es |-> <<new_extent(0, b)>>, lb |-> <<>>, ib |-> <<>>] /\ inode[f] = new_dir(b)
        BY <1>2, <2>1, <3>1, <4>0, <4>1
      <4>3. /\ tree(t) /\ written(t, store) /\ blocks_of(t) = {b}
            /\ rooted(t, new_dir(b))
        BY <4>2, HomeTree
      <4>4. QED
        BY <2>1, <4>0, <4>1, <4>2, <4>3
  <2>2. CASE f \notin Dir
    <3>1. inode[f] = empty_inode
      BY <1>1, <2>2
    <3>2. QED
      BY <1>2, <2>2, <3>1, EmptyTree
  <2>3. QED
    BY <2>1, <2>2
<1>4. used \subseteq PBlock /\ \A f \in Dir : home[f] \in used
  BY <1>1 DEF Range
<1>5. \A f, g \in Dir : f # g => home[f] # home[g]
  BY <1>1 DEF IsInjective
<1>6. cursor \in Nat /\ ret \in Results
  BY DEF Init, Results
<1>7. store = [b \in PBlock |-> store[b]]
  <2>1. PICK v \in Value : store = [b \in PBlock |-> data_block(v)]
    BY DEF Init
  <2>2. QED
    BY <2>1
<1>8. inode = [f \in File |-> inode[f]]
  BY <1>1
<1>9. Fresh(ecache, T)
  BY DEF Init, Fresh
<1>10. \A f \in File : blocks_of(T[f]) \subseteq used
  BY <1>3, <1>4
<1>11. \A f, g \in File : f # g => blocks_of(T[f]) \cap blocks_of(T[g]) = {}
  BY <1>3, <1>5
<1>12. Forest(T)
  BY <1>3, <1>4, <1>6, <1>7, <1>8, <1>9, <1>10, <1>11 DEF Forest
<1>13. ASSUME NEW d \in Dir
       PROVE  /\ inode[d].size \in Nat
              /\ \A l \in 0 .. inode[d].size - 1 : map_logical_block(T[d].es, l) # NoBlock
  <2>0. PICK b \in PBlock : b = home[d]
    BY <1>2
  <2>1. PICK es : es = T[d].es /\ es = <<new_extent(0, b)>>
    <3>1. T[d] = [es |-> <<new_extent(0, b)>>, lb |-> <<>>, ib |-> <<>>]
      BY <1>2, <2>0
    <3>2. QED
      BY <3>1
  <2>2. inode[d].size = 1
    BY <1>1, <1>2 DEF new_dir
  <2>3. map_logical_block(es, 0) # NoBlock
    BY <2>1, HomeList, ExtentsAssumption
  <2>4. QED
    BY <2>1, <2>2, <2>3
<1>14. Filled(T)
  BY <1>13 DEF Filled
<1>15. QED
  BY <1>12, <1>14 DEF Inv

-------------------------------------------------------------------------------
\* What a reader of block l gets through list es from device st.
shown(es, st, l) ==
    LET b == map_logical_block(es, l)
    IN  IF b = NoBlock THEN Zero ELSE IF st[b].kind = "data" THEN st[b].v ELSE NotData

\* The files of G are as before: trees T before the step, U after it.
SameSize(G) == \A g \in G : inode'[g].size = inode[g].size
Same(T, U, G) ==
    \A g \in G : \A l \in LBlock : shown(U[g].es, store', l) = shown(T[g].es, store, l)

\* What the readers of the files see of a step: nothing, an empty file, or a
\* value in blocks s .. e - 1.
Unseen(T, U) ==
    /\ ret' = ret \/ ret' \in {"read", "NoSpace", "Unsupported"}
    /\ SameSize(File) /\ Same(T, U, File)
Emptied(T, U, f) ==
    /\ ret' = "truncated" /\ inode'[f].size = 0
    /\ \A l \in LBlock : shown(U[f].es, store', l) = Zero
    /\ SameSize(File \ {f}) /\ Same(T, U, File \ {f})
Stored(T, U, f, s, e, v) ==
    /\ ret' = "written"
    /\ inode'[f].size = IF e > inode[f].size THEN e ELSE inode[f].size
    /\ \A l \in LBlock :
         shown(U[f].es, store', l) = IF l \in s .. e - 1 THEN v ELSE shown(T[f].es, store, l)
    /\ SameSize(File \ {f}) /\ Same(T, U, File \ {f})

Ends == LBlock \cup {l + 1 : l \in LBlock}
Effect(T, U) ==
    \/ Unseen(T, U)
    \/ \E f \in File : Emptied(T, U, f)
    \/ \E f \in File, s, e \in Ends, v \in Value : s < e /\ Stored(T, U, f, s, e, v)

\* What a step does to the trees T: there are trees after it, a call that
\* succeeds loses no block, and the files change as the call says.
Moves(T) ==
    \E U : /\ Forest(U)'
           /\ ret' \notin {"NoSpace", "Unsupported"} => lost(U)' \subseteq lost(T)
           /\ Filled(T) => Filled(U)' /\ Effect(T, U)

\* What write_at and clear do when they succeed: the files change as the
\* arguments of the call say.
Wrote(T, f, s, e, v) == \E U : Forest(U)' /\ (Filled(T) => Stored(T, U, f, s, e, v))
Cleared(T, f) == \E U : Forest(U)' /\ Emptied(T, U, f)

\* A call that leaves the trees and the bitmap alone.
LEMMA KeptMoves ==
  ASSUME NEW T, Forest(T)', used' = used \/ ret' \in {"NoSpace", "Unsupported"},
         Filled(T) => Filled(T)' /\ Effect(T, T)
  PROVE  Moves(T)
<1>1. ret' \notin {"NoSpace", "Unsupported"} => lost(T)' \subseteq lost(T)
  BY DEF lost
<1>2. QED
  BY <1>1 DEF Moves

\* The blocks a list takes blocks L of the file to.
targets(es, L) == {map_logical_block(es, l) : l \in L}

\* map_logical_block gives a block of the list.
LEMMA Mapped ==
  ASSUME NEW es, list(es), NEW l \in Nat
  PROVE  map_logical_block(es, l) \in extent_blocks(es) \cup {NoBlock}
<1>1. CASE map_logical_block(es, l) = NoBlock
  BY <1>1
<1>2. CASE map_logical_block(es, l) # NoBlock
  <2>1. PICK v \in Nat : v = map_logical_block(es, l)
    BY <1>2, ListMaps
  <2>2. maps(es, l, v)
    BY <2>1, ListMaps
  <2>3. v \in extent_blocks(es)
    BY <2>2, Targets
  <2>4. QED
    BY <2>1, <2>3
<1>3. QED
  BY <1>1, <1>2

\* What is read through a list depends on its blocks only.
LEMMA SameShown ==
  ASSUME NEW es, list(es), NEW st, NEW w, \A b \in extent_blocks(es) : w[b] = st[b]
  PROVE  \A l \in LBlock : shown(es, w, l) = shown(es, st, l)
<1> SUFFICES ASSUME NEW l \in LBlock PROVE shown(es, w, l) = shown(es, st, l)
  OBVIOUS
<1>1. PICK b : b = map_logical_block(es, l)
  OBVIOUS
<1>2. b \in extent_blocks(es) \cup {NoBlock}
  BY <1>1, Mapped, ExtentsAssumption
<1>3. b = NoBlock \/ w[b] = st[b]
  BY <1>2
<1>4. QED
  BY <1>1, <1>3 DEF shown

\* What is read when v was written to blocks L of the file.
LEMMA WrittenShown ==
  ASSUME NEW es, list(es), OneToOne(es), extent_blocks(es) \subseteq PBlock,
         NEW L \in SUBSET Nat, \A l \in L : map_logical_block(es, l) # NoBlock,
         NEW v, NEW st, NEW w,
         \A b \in PBlock : b \in targets(es, L) => w[b] = data_block(v),
         \A b \in extent_blocks(es) : b \notin targets(es, L) => w[b] = st[b]
  PROVE  \A l \in LBlock : shown(es, w, l) = IF l \in L THEN v ELSE shown(es, st, l)
<1> SUFFICES ASSUME NEW l \in LBlock
             PROVE  shown(es, w, l) = IF l \in L THEN v ELSE shown(es, st, l)
  OBVIOUS
<1>1. l \in Nat
  BY ExtentsAssumption
<1>2. PICK b : b = map_logical_block(es, l)
  OBVIOUS
<1>3. b \in extent_blocks(es) \cup {NoBlock}
  BY <1>1, <1>2, Mapped
<1>4. CASE l \in L
  <2>1. b \in PBlock /\ b \in targets(es, L) /\ b # NoBlock
    BY <1>2, <1>3, <1>4 DEF targets
  <2>2. w[b] = data_block(v)
    BY <2>1
  <2>3. w[b].kind = "data" /\ w[b].v = v
    BY <2>2 DEF data_block
  <2>4. QED
    BY <1>2, <1>4, <2>1, <2>3 DEF shown
<1>5. CASE l \notin L
  <2>1. CASE b = NoBlock
    BY <1>2, <1>5, <2>1 DEF shown
  <2>2. CASE b # NoBlock
    <3>1. b \in Nat /\ b \in extent_blocks(es)
      BY <1>3, <2>2, ExtentsAssumption
    <3>2. ASSUME NEW k \in L, b = map_logical_block(es, k) PROVE FALSE
      <4>1. maps(es, l, b) /\ maps(es, k, b)
        BY <1>1, <1>2, <3>1, <3>2, ListMaps
      <4>2. k = l
        BY <1>1, <3>1, <4>1 DEF OneToOne
      <4>3. QED
        BY <1>5, <4>2
    <3>3. b \notin targets(es, L)
      BY <3>2 DEF targets
    <3>4. w[b] = st[b]
      BY <3>1, <3>3
    <3>5. QED
      BY <1>2, <1>5, <3>4 DEF shown
  <2>3. QED
    BY <2>1, <2>2
<1>6. QED
  BY <1>4, <1>5

\* A step that leaves the contents of the blocks in use and the inodes alone.
LEMMA NothingSeen ==
  ASSUME NEW T, Forest(T), inode' = inode, \A b \in used : store'[b] = store[b],
         ret' = ret \/ ret' \in {"read", "NoSpace", "Unsupported"}
  PROVE  Filled(T) => Filled(T)' /\ Effect(T, T)
<1>1. ASSUME NEW g \in File
      PROVE  \A l \in LBlock : shown(T[g].es, store', l) = shown(T[g].es, store, l)
  <2>1. list(T[g].es) /\ extent_blocks(T[g].es) \subseteq used
    BY DEF Forest, tree, blocks_of
  <2>2. PICK w : w = store'
    OBVIOUS
  <2>3. \A b \in extent_blocks(T[g].es) : w[b] = store[b]
    BY <2>1, <2>2
  <2>4. \A l \in LBlock : shown(T[g].es, w, l) = shown(T[g].es, store, l)
    BY <2>1, <2>3, SameShown
  <2>5. QED
    BY <2>2, <2>4
<1>2. Same(T, T, File) /\ SameSize(File)
  BY <1>1 DEF Same, SameSize
<1>3. Filled(T) => Filled(T)'
  BY DEF Filled
<1>4. QED
  BY <1>2, <1>3 DEF Effect, Unseen

\* The blocks of the nodes.
LEMMA NodeBlocks ==
  ASSUME NEW T, Forest(T), NEW g \in File, NEW b \in nodes(T[g])
  PROVE  b \in PBlock /\ b \in used /\ b # NoBlock /\ \A f \in File : b \notin extent_blocks(T[f].es)
<1>1. b \in blocks_of(T[g]) /\ b \in used /\ b \in PBlock
  BY DEF Forest, blocks_of
<1>2. b # NoBlock
  BY <1>1, ExtentsAssumption
<1>3. ASSUME NEW f \in File PROVE b \notin extent_blocks(T[f].es)
  <2>1. CASE f = g
    <3>1. extent_blocks(T[g].es) \cap nodes(T[g]) = {}
      BY DEF Forest, tree
    <3>2. QED
      BY <2>1, <3>1
  <2>2. CASE f # g
    <3>1. blocks_of(T[f]) \cap blocks_of(T[g]) = {}
      BY <2>2 DEF Forest
    <3>2. QED
      BY <1>1, <3>1 DEF blocks_of
  <2>3. QED
    BY <2>1, <2>2
<1>4. QED
  BY <1>1, <1>2, <1>3

\* A write to blocks of data, or to free blocks, writes to no node.
LEMMA NodesKept ==
  ASSUME NEW T, Forest(T), NEW B, NEW v, NEW st, st = [b \in PBlock |-> st[b]],
         \/ \E f \in File : B \subseteq extent_blocks(T[f].es) \cup {NoBlock}
         \/ B \cap used = {}
  PROVE  /\ with_data(st, B, v) = [b \in PBlock |-> with_data(st, B, v)[b]]
         /\ \A g \in File : \A b \in nodes(T[g]) : with_data(st, B, v)[b] = st[b]
<1>1. PICK w : w = with_data(st, B, v)
  OBVIOUS
<1>2. w = [b \in PBlock |-> IF b \in B THEN data_block(v) ELSE st[b]]
  BY <1>1 DEF with_data
<1>3. w = [b \in PBlock |-> w[b]]
  BY <1>2
<1>4. ASSUME NEW g \in File, NEW b \in nodes(T[g]) PROVE w[b] = st[b]
  <2>1. b \in PBlock /\ b \in used /\ b # NoBlock /\ \A f \in File : b \notin extent_blocks(T[f].es)
    BY NodeBlocks
  <2>2. b \notin B
    BY <2>1
  <2>3. QED
    BY <1>2, <2>1, <2>2
<1>5. QED
  BY <1>1, <1>3, <1>4

\* write_at with every block mapped, dir_add_entry with room in a block, and
\* dir_remove_entry.
LEMMA InPlace ==
  ASSUME NEW T, Forest(T), NEW f \in File, NEW s \in Ends, NEW e \in Ends, s < e, NEW v \in Value,
         NEW L \in SUBSET Nat, L = s .. e - 1,
         store' = with_data(store, {map_logical_block(T[f].es, l) : l \in L}, v),
         used' = used, cursor' = cursor, ret' = "written",
         inode' = inode \/ \E g \in File : \E n : inode' = [inode EXCEPT ![g].size = n],
         Fresh(ecache', T),
         Filled(T) => \A l \in L : map_logical_block(T[f].es, l) # NoBlock,
         Filled(T) => /\ Filled(T)' /\ SameSize(File \ {f})
                      /\ inode'[f].size = IF e > inode[f].size THEN e ELSE inode[f].size
  PROVE  Moves(T) /\ Wrote(T, f, s, e, v)
<1> DEFINE B == {map_logical_block(T[f].es, l) : l \in L}
<1>1. list(T[f].es) /\ store = [b \in PBlock |-> store[b]]
  BY DEF Forest, tree
<1>2. B \subseteq extent_blocks(T[f].es) \cup {NoBlock}
  BY <1>1, Mapped
<1>3. store' = with_data(store, B, v)
  OBVIOUS
<1> HIDE DEF B
<1>4. /\ with_data(store, B, v) = [b \in PBlock |-> with_data(store, B, v)[b]]
      /\ \A g \in File : \A b \in nodes(T[g]) : with_data(store, B, v)[b] = store[b]
  BY <1>1, <1>2, NodesKept
<1>5. /\ store' = [b \in PBlock |-> store'[b]]
      /\ \A g \in File : \A b \in nodes(T[g]) : store'[b] = store[b]
  BY <1>3, <1>4, Zenon
<1>6. used' \subseteq PBlock /\ cursor' \in Nat /\ ret' \in Results
      /\ \A g \in File : blocks_of(T[g]) \subseteq used'
  BY DEF Forest, Results
<1>7. Forest(T)'
  BY <1>5, <1>6, Kept
<1>8. ASSUME NEW g \in File, g # f
      PROVE  \A l \in LBlock : shown(T[g].es, store', l) = shown(T[g].es, store, l)
  <2>1. /\ list(T[g].es) /\ extent_blocks(T[g].es) \subseteq PBlock
        /\ extent_blocks(T[g].es) \cap extent_blocks(T[f].es) = {}
    BY <1>8 DEF Forest, tree, blocks_of
  <2>2. PICK w : w = store' /\ w = [b \in PBlock |-> IF b \in B THEN data_block(v) ELSE store[b]]
    BY <1>3 DEF with_data
  <2>3. \A b \in extent_blocks(T[g].es) : w[b] = store[b]
    BY <1>2, <2>1, <2>2, ExtentsAssumption
  <2>4. \A l \in LBlock : shown(T[g].es, w, l) = shown(T[g].es, store, l)
    BY <2>1, <2>3, SameShown
  <2>5. QED
    BY <2>2, <2>4
<1>9. ASSUME Filled(T)
      PROVE  \A l \in LBlock : shown(T[f].es, store', l)
                                = IF l \in s .. e - 1 THEN v ELSE shown(T[f].es, store, l)
  <2>1. PICK es : es = T[f].es /\ list(es) /\ OneToOne(es) /\ extent_blocks(es) \subseteq PBlock
    BY DEF Forest, tree
  <2>2. B = targets(es, L)
    BY <2>1, Zenon DEF targets, B
  <2>3. PICK w : w = store' /\ w = [b \in PBlock |-> IF b \in B THEN data_block(v) ELSE store[b]]
    BY <1>3 DEF with_data
  <2>4. /\ \A b \in PBlock : b \in targets(es, L) => w[b] = data_block(v)
        /\ \A b \in extent_blocks(es) : b \notin targets(es, L) => w[b] = store[b]
    BY <2>1, <2>2, <2>3
  <2>5. \A l \in L : map_logical_block(es, l) # NoBlock
    BY <1>9, <2>1
  <2>6. \A l \in LBlock : shown(es, w, l) = IF l \in L THEN v ELSE shown(es, store, l)
    BY ONLY <2>1, <2>4, <2>5, WrittenShown, L \in SUBSET Nat
  <2>7. QED
    BY <2>1, <2>3, <2>6
<1>10. ASSUME Filled(T) PROVE Stored(T, T, f, s, e, v)
  BY <1>8, <1>9, <1>10 DEF Stored, Same
<1>11. Filled(T) => Filled(T)' /\ Effect(T, T)
  BY <1>10 DEF Effect
<1>12. Moves(T)
  BY <1>7, <1>11, KeptMoves
<1>13. QED
  BY <1>7, <1>10, <1>12 DEF Wrote

\* read_at
LEMMA ReadMoves ==
  ASSUME NEW T, Forest(T), NEW f \in File, read_at(f)
  PROVE  Moves(T)
<1>1. parse_extent_tree(inode[f]) = T[f].es
  BY ForestRead
<1>2. Fresh(ecache', T)
  <2>1. Fresh(ecache, T)
    BY DEF Forest
  <2>2. ecache' = ecache \/ ecache' = extents_cache_put(ecache, f, T[f].es)
    BY <1>1 DEF read_at
  <2>3. QED
    BY <2>1, <2>2, PutFresh
<1>3. used' = used /\ cursor' = cursor /\ store' = store /\ inode' = inode /\ ret' = "read"
  BY DEF read_at
<1>4. used' \subseteq PBlock /\ cursor' \in Nat /\ ret' \in Results
      /\ store' = [b \in PBlock |-> store'[b]]
      /\ \A g \in File : blocks_of(T[g]) \subseteq used'
  BY <1>3 DEF Forest, Results
<1>5. Forest(T)'
  BY <1>2, <1>3, <1>4, Kept
<1>6. Filled(T) => Filled(T)' /\ Effect(T, T)
  BY <1>3, NothingSeen
<1>7. QED
  BY <1>3, <1>5, <1>6, KeptMoves

\* clear
LEMMA ClearMoves ==
  ASSUME NEW T, Forest(T), NEW f \in File, f \notin Dir, clear(f)
  PROVE  Moves(T) /\ Cleared(T, f)
<1>1. PICK t : t = [es |-> <<>>, lb |-> <<>>, ib |-> <<>>]
  OBVIOUS
<1>2. PICK U : U = [g \in File |-> IF g = f THEN t ELSE T[g]]
  OBVIOUS
<1>3. tree(t) /\ written(t, store') /\ blocks_of(t) = {} /\ rooted(t, empty_inode)
  BY <1>1, EmptyTree
<1>4. /\ used' = used \ blocks_of(T[f]) /\ inode' = [inode EXCEPT ![f] = empty_inode]
      /\ ecache' = extents_cache_invalidate(ecache, f) /\ ret' = "truncated"
      /\ cursor' = cursor /\ store' = store
  BY ForestRead DEF clear, blocks_of
<1>5. U[f] = t /\ \A g \in File : g # f => U[g] = T[g]
  BY <1>2
<1>6. Fresh(ecache', U)
  BY <1>4, <1>5, DropFresh DEF Forest
<1>7. ASSUME NEW g \in File, g # f PROVE blocks_of(T[g]) \subseteq used'
  <2>1. blocks_of(T[g]) \subseteq used /\ blocks_of(T[g]) \cap blocks_of(T[f]) = {}
    BY <1>7 DEF Forest
  <2>2. QED
    BY <1>4, <2>1
<1>8. used' \subseteq PBlock /\ cursor' \in Nat /\ ret' \in Results
      /\ store' = [b \in PBlock |-> store'[b]]
  BY <1>4 DEF Forest, Results
<1>9. \A g \in File : g # f => \A b \in nodes(T[g]) : store'[b] = store[b]
  BY <1>4
<1>10. Forest(U)'
  <2>1. /\ \A g \in File : g # f => blocks_of(T[g]) \subseteq used'
        /\ \A g \in File : g # f => blocks_of(t) \cap blocks_of(T[g]) = {}
        /\ blocks_of(t) \subseteq used'
    BY <1>3, <1>7
  <2>2. tree(t) /\ written(t, store') /\ rooted(t, empty_inode)
    BY <1>3
  <2>3. inode' = [inode EXCEPT ![f] = empty_inode]
    BY <1>4
  <2>4. QED
    BY <1>2, <1>6, <1>8, <1>9, <2>1, <2>2, <2>3, Replaced
<1>11. lost(U)' \subseteq lost(T)
  <2>1. UNION {blocks_of(T[g]) : g \in File} \subseteq
           blocks_of(T[f]) \cup UNION {blocks_of(U[g]) : g \in File}
    BY <1>5
  <2>2. QED
    BY <1>4, <2>1 DEF lost
<1>12. SameSize(File \ {f}) /\ inode'[f].size = 0
  <2>1. inode = [g \in File |-> inode[g]]
    BY DEF Forest
  <2>2. inode'[f] = empty_inode /\ \A g \in File : g # f => inode'[g] = inode[g]
    BY <1>4, <2>1
  <2>3. QED
    BY <2>2 DEF SameSize, empty_inode
<1>13. Same(T, U, File \ {f})
  BY <1>4, <1>5 DEF Same
<1>14. ASSUME NEW l \in LBlock PROVE shown(U[f].es, store', l) = Zero
  <2>1. PICK es : es = t.es /\ es = <<>>
    BY <1>1
  <2>2. PICK b : b = map_logical_block(es, l)
    OBVIOUS
  <2>3. l \in Nat /\ list(es) /\ extent_blocks(es) = {}
    BY <1>3, <2>1, ExtentsAssumption DEF tree, blocks_of
  <2>4. b = NoBlock
    BY <2>2, <2>3, Mapped
  <2>5. QED
    BY <1>5, <2>1, <2>2, <2>4 DEF shown
<1>15. Filled(T) => Filled(U)'
  <2>1. \A d \in Dir : d \in File /\ d # f
    BY DEF File
  <2>2. \A d \in Dir : inode'[d].size = inode[d].size /\ U[d] = T[d]
    BY <1>5, <1>12, <2>1 DEF SameSize
  <2>3. QED
    BY <2>2 DEF Filled
<1>16. Emptied(T, U, f)
  BY <1>4, <1>12, <1>13, <1>14 DEF Emptied
<1>17. Effect(T, U)
  BY <1>16 DEF Effect
<1>18. QED
  BY <1>10, <1>11, <1>15, <1>16, <1>17 DEF Moves, Cleared

-------------------------------------------------------------------------------
\* The blocks a call was handed out, cut into those for data, leaves and index
\* blocks: free blocks, all of them different.
Cut(all, bs, lb, ib, n, nl, ni) ==
    /\ all \in Seq(PBlock) /\ lb \in Seq(PBlock) /\ ib \in Seq(PBlock)
    /\ Len(lb) = nl /\ Len(ib) = ni /\ distinct(lb) /\ distinct(ib)
    /\ ToSet(all) = ToSet(bs) \cup elems(lb) \cup elems(ib)
    /\ ToSet(bs) = {free_order[i] : i \in 1 .. n}
    /\ ToSet(bs) \cap elems(lb) = {} /\ ToSet(bs) \cap elems(ib) = {}
    /\ elems(lb) \cap elems(ib) = {}
    /\ ToSet(all) \subseteq PBlock /\ ToSet(all) \cap used = {}

\* Two parts of a sequence that do not meet.
LEMMA Apart ==
  ASSUME NEW A, NEW s, distinct(s), Len(s) \in Nat, NEW a \in Nat, NEW b \in Nat, NEW c \in Nat,
         NEW d \in Nat, b <= c, d <= Len(s), NEW x, Part(x, s, a, b, A), NEW y, Part(y, s, c, d, A)
  PROVE  elems(x) \cap elems(y) = {} /\ ToSet(x) \cap elems(y) = {}
<1>1. /\ elems(x) = {s[i] : i \in a + 1 .. b} /\ ToSet(x) = {s[i] : i \in a + 1 .. b}
      /\ elems(y) = {s[i] : i \in c + 1 .. d}
  BY Zenon DEF Part
<1>2. ASSUME NEW z, z \in {s[i] : i \in a + 1 .. b}, z \in {s[i] : i \in c + 1 .. d}
      PROVE  FALSE
  <2>1. PICK i \in a + 1 .. b : z = s[i]
    BY <1>2
  <2>2. PICK j \in c + 1 .. d : z = s[j]
    BY <1>2
  <2>3. i \in 1 .. Len(s) /\ j \in 1 .. Len(s) /\ i # j
    BY <2>1, <2>2
  <2>4. QED
    BY <2>1, <2>2, <2>3 DEF distinct
<1>3. QED
  BY <1>1, <1>2

\* What alloc_block hands out in one call.
LEMMA Handed ==
  ASSUME cursor \in Nat, NEW n \in Nat, NEW nl \in Nat, NEW ni \in Nat,
         n + nl + ni <= free_count,
         NEW all, all = SubSeq(free_order, 1, n + nl + ni),
         NEW bs, bs = SubSeq(all, 1, n), NEW lb, lb = SubSeq(all, n + 1, n + nl),
         NEW ib, ib = SubSeq(all, n + nl + 1, n + nl + ni)
  PROVE  Cut(all, bs, lb, ib, n, nl, ni)
<1>1. PICK s \in Seq(PBlock) : s = free_order /\ distinct(s) /\ Len(s) = free_count
                               /\ \A i \in 1 .. Len(s) : s[i] \in PBlock /\ s[i] \notin used
  <2>1. Enumerates(free_order, PBlock \ used) /\ Len(free_order) = free_count
    BY FreeOrder
  <2>2. free_order \in Seq(PBlock)
    BY <2>1 DEF Enumerates
  <2>3. QED
    BY <2>1, <2>2 DEF Enumerates, distinct
<1>2. PICK p \in Nat, q \in Nat, K \in Nat : p = n + nl /\ K = n + nl + ni /\ q = Len(s)
  <2>1. n + nl \in Nat /\ n + nl + ni \in Nat /\ Len(s) \in Nat
    OBVIOUS
  <2>2. QED
    BY <2>1
<1>3. n <= p /\ p <= K /\ K <= q /\ p - n = nl /\ K - p = ni
  BY <1>1, <1>2
<1>4. /\ all = SubSeq(s, 0 + 1, K) /\ bs = SubSeq(all, 0 + 1, n)
      /\ lb = SubSeq(all, n + 1, p) /\ ib = SubSeq(all, p + 1, K)
  BY <1>1, <1>2
<1>5. 0 \in 0 .. Len(s) /\ K \in 0 .. Len(s) /\ 0 <= K
  BY <1>2, <1>3
<1>6. /\ all \in Seq(PBlock) /\ Len(all) = K - 0 /\ distinct(all)
      /\ \A i \in 1 .. K - 0 : all[i] = s[0 + i]
      /\ ToSet(all) = {s[i] : i \in 0 + 1 .. K}
  <2>1. Part(all, s, 0, K, PBlock)
    BY <1>1, <1>4, <1>5, Slice
  <2>2. QED
    BY <2>1, Zenon DEF Part
<1>7. /\ Len(all) = K /\ \A i \in 1 .. K : all[i] = s[i]
      /\ ToSet(all) = {s[i] : i \in 1 .. K}
  <2>1. K - 0 = K /\ 0 + 1 = 1 /\ \A i \in 1 .. K : 0 + i = i
    OBVIOUS
  <2>2. QED
    BY <1>6, <2>1
<1>8. /\ 0 \in 0 .. Len(all) /\ n \in 0 .. Len(all) /\ p \in 0 .. Len(all) /\ K \in 0 .. Len(all)
      /\ 0 <= n
  BY ONLY <1>3, <1>7, n \in Nat, p \in Nat, K \in Nat
<1>9a. Part(bs, all, 0, n, PBlock)
  BY <1>4, <1>6, <1>8, Slice
<1>9. ToSet(bs) = {all[i] : i \in 0 + 1 .. n}
  BY <1>9a, Zenon DEF Part
<1>10a. Part(lb, all, n, p, PBlock)
  BY <1>3, <1>4, <1>6, <1>8, Slice
<1>10. /\ lb \in Seq(PBlock) /\ Len(lb) = p - n /\ distinct(lb)
       /\ elems(lb) = {all[i] : i \in n + 1 .. p}
  BY <1>10a, Zenon DEF Part
<1>11a. Part(ib, all, p, K, PBlock)
  BY <1>3, <1>4, <1>6, <1>8, Slice
<1>11. /\ ib \in Seq(PBlock) /\ Len(ib) = K - p /\ distinct(ib)
       /\ elems(ib) = {all[i] : i \in p + 1 .. K}
  BY <1>11a, Zenon DEF Part
<1>12. /\ ToSet(bs) \cap elems(lb) = {} /\ ToSet(bs) \cap elems(ib) = {}
       /\ elems(lb) \cap elems(ib) = {}
  <2>1. /\ n <= n /\ n <= p /\ p <= p /\ p <= Len(all) /\ K <= Len(all) /\ Len(all) \in Nat
        /\ distinct(all) /\ 0 \in Nat
    BY <1>3, <1>6, <1>7
  <2>2. ToSet(bs) \cap elems(lb) = {}
    BY ONLY <1>9a, <1>10a, <2>1, Apart, n \in Nat, p \in Nat
  <2>3. ToSet(bs) \cap elems(ib) = {}
    BY ONLY <1>9a, <1>11a, <2>1, Apart, n \in Nat, p \in Nat, K \in Nat
  <2>4. elems(lb) \cap elems(ib) = {}
    BY ONLY <1>10a, <1>11a, <2>1, Apart, n \in Nat, p \in Nat, K \in Nat
  <2>5. QED
    BY <2>2, <2>3, <2>4
<1>13. ToSet(all) = ToSet(bs) \cup elems(lb) \cup elems(ib)
  <2>1. \A i : i \in 1 .. K <=> i \in 0 + 1 .. n \/ i \in n + 1 .. p \/ i \in p + 1 .. K
    BY <1>3
  <2>2. ToSet(all) = {all[i] : i \in 1 .. K}
    BY <1>7
  <2>3. QED
    BY <1>9, <1>10, <1>11, <2>1, <2>2
<1>14. ToSet(bs) = {free_order[i] : i \in 1 .. n}
  <2>1. 0 + 1 = 1 /\ \A i \in 1 .. n : i \in 1 .. K
    BY <1>3
  <2>2. \A i \in 1 .. n : all[i] = s[i]
    BY <1>7, <2>1
  <2>3. QED
    BY <1>1, <1>9, <2>1, <2>2
<1>15. ToSet(all) \subseteq PBlock /\ ToSet(all) \cap used = {}
  <2>1. \A i \in 1 .. K : i \in 1 .. Len(s)
    BY <1>3, <1>2
  <2>2. QED
    BY <1>1, <1>7, <2>1
<1>16. QED
  BY <1>3, <1>6, <1>10, <1>11, <1>12, <1>13, <1>14, <1>15 DEF Cut

\* The cursor stays a number.
LEMMA AfterNat ==
  ASSUME cursor \in Nat, NEW s \in Seq(PBlock)
  PROVE  after(s) \in Nat
<1>1. CASE s = <<>>
  BY <1>1 DEF after
<1>2. CASE s # <<>>
  <2>1. s[Len(s)] \in PBlock
    BY <1>2
  <2>2. PICK b \in Nat : b = s[Len(s)]
    BY <2>1, ExtentsAssumption
  <2>3. after(s) = b + 1
    BY <1>2, <2>2 DEF after
  <2>4. QED
    BY <2>3
<1>3. QED
  BY <1>1, <1>2

\* What the free blocks are.
LEMMA FreeBlocks ==
  ASSUME cursor \in Nat
  PROVE  /\ free_order \in Seq(PBlock) /\ distinct(free_order) /\ Len(free_order) = free_count
         /\ free_count \in Nat
         /\ \A i \in 1 .. free_count : free_order[i] \in PBlock \ used
<1>1. Enumerates(free_order, PBlock \ used) /\ Len(free_order) = free_count /\ free_count \in Nat
  BY FreeOrder
<1>2. free_order \in Seq(PBlock)
  BY <1>1 DEF Enumerates
<1>3. QED
  BY <1>1, <1>2 DEF Enumerates, distinct

\* The allocation loop that runs out of blocks.
LEMMA NoDataMoves ==
  ASSUME NEW T, Forest(T), NEW n, NEW c, Fresh(c, T), grow_no_data(n, c)
  PROVE  Moves(T)
<1> DEFINE B == PBlock \ used
<1>1. cursor \in Nat /\ store = [b \in PBlock |-> store[b]] /\ B \cap used = {}
  BY DEF Forest
<1>2. /\ used' = PBlock /\ cursor' = after(free_order) /\ store' = with_data(store, B, Zero)
      /\ ecache' = c /\ ret' = "NoSpace" /\ inode' = inode
  BY DEF grow_no_data
<1> HIDE DEF B
<1>3. /\ with_data(store, B, Zero) = [b \in PBlock |-> with_data(store, B, Zero)[b]]
      /\ \A g \in File : \A b \in nodes(T[g]) : with_data(store, B, Zero)[b] = store[b]
  BY <1>1, NodesKept
<1>4. /\ store' = [b \in PBlock |-> store'[b]]
      /\ \A g \in File : \A b \in nodes(T[g]) : store'[b] = store[b]
  BY <1>2, <1>3, Zenon
<1>5. cursor' \in Nat
  BY <1>1, <1>2, AfterNat, FreeBlocks
<1>6. used' \subseteq PBlock /\ ret' \in Results /\ Fresh(ecache', T)
      /\ \A g \in File : blocks_of(T[g]) \subseteq used'
  BY <1>2 DEF Forest, Results
<1>7. Forest(T)'
  BY <1>2, <1>4, <1>5, <1>6, Kept
<1>8. \A b \in used : store'[b] = store[b]
  BY <1>1, <1>2 DEF with_data, Forest
<1>9. Filled(T) => Filled(T)' /\ Effect(T, T)
  BY <1>2, <1>8, NothingSeen
<1>10. QED
  BY <1>2, <1>7, <1>9, KeptMoves

\* write_extents_to_inode that fails: the data blocks stay allocated.
LEMMA NoTreeMoves ==
  ASSUME NEW T, Forest(T), NEW n \in Nat, NEW es, Len(es) \in Nat, NEW c, Fresh(c, T),
         grow_no_tree(n, es, c)
  PROVE  Moves(T)
<1>1. PICK nl \in Nat : nl = need_leaf(Len(es))
  BY Levels
<1>2. PICK fo : fo = free_order
  OBVIOUS
<1>3. PICK bs, lb, zeroed : /\ bs = SubSeq(fo, 1, n) /\ lb = SubSeq(fo, n + 1, n + nl)
                            /\ zeroed = with_data(store, ToSet(bs), Zero)
  OBVIOUS
<1>4. /\ free_count >= n /\ used' = used \cup ToSet(bs)
      /\ cursor' = after(fo) \/ cursor' = after(bs)
      /\ \/ store' = zeroed
         \/ free_count >= n + nl /\ store' = with_tree(zeroed, es, lb, <<>>)
      /\ ecache' = c /\ ret' \in {"NoSpace", "Unsupported"} /\ inode' = inode
  BY <1>1, <1>2, <1>3, Zenon DEF grow_no_tree
<1>5. cursor \in Nat /\ store = [b \in PBlock |-> store[b]]
  BY DEF Forest
<1>6. /\ fo \in Seq(PBlock) /\ distinct(fo) /\ Len(fo) = free_count /\ free_count \in Nat
      /\ \A i \in 1 .. free_count : fo[i] \in PBlock \ used
  BY <1>2, <1>5, FreeBlocks
<1>7. Part(bs, fo, 0, n, PBlock)
  <2>1. 0 \in 0 .. Len(fo) /\ n \in 0 .. Len(fo) /\ 0 <= n
    BY <1>4, <1>6
  <2>2. bs = SubSeq(fo, 0 + 1, n)
    BY <1>3
  <2>3. QED
    BY <1>6, <2>1, <2>2, Slice
<1>8. bs \in Seq(PBlock) /\ ToSet(bs) = {fo[i] : i \in 0 + 1 .. n}
  BY <1>7, Zenon DEF Part
<1>9. ToSet(bs) \subseteq PBlock /\ ToSet(bs) \cap used = {}
  <2>1. \A i \in 0 + 1 .. n : i \in 1 .. free_count
    BY <1>4, <1>6
  <2>2. \A i \in 0 + 1 .. n : fo[i] \in PBlock /\ fo[i] \notin used
    BY <1>6, <2>1
  <2>3. QED
    BY <1>8, <2>2
<1>10. /\ zeroed = [b \in PBlock |-> zeroed[b]]
       /\ \A g \in File : \A b \in nodes(T[g]) : zeroed[b] = store[b]
  <2>1. PICK B : B = ToSet(bs)
    OBVIOUS
  <2>2. B \cap used = {} /\ zeroed = with_data(store, B, Zero)
    BY <1>3, <1>9, <2>1
  <2>3. /\ with_data(store, B, Zero) = [b \in PBlock |-> with_data(store, B, Zero)[b]]
        /\ \A g \in File : \A b \in nodes(T[g]) : with_data(store, B, Zero)[b] = store[b]
    BY <1>5, <2>2, NodesKept
  <2>4. QED
    BY <2>2, <2>3, Zenon
<1>10a. \A b \in used : b \in PBlock /\ zeroed[b] = store[b]
  BY <1>3, <1>9 DEF with_data, Forest
<1>11. /\ store' = [b \in PBlock |-> store'[b]]
       /\ \A g \in File : \A b \in nodes(T[g]) : store'[b] = store[b]
       /\ \A b \in used : store'[b] = store[b]
  <2>1. CASE store' = zeroed
    BY <1>10, <1>10a, <2>1, Zenon
  <2>2. CASE free_count >= n + nl /\ store' = with_tree(zeroed, es, lb, <<>>)
    <3>1. Part(lb, fo, n, n + nl, PBlock)
      <4>1. PICK m \in Nat : m = n + nl
        OBVIOUS
      <4>2. n \in 0 .. Len(fo) /\ m \in 0 .. Len(fo) /\ n <= m /\ lb = SubSeq(fo, n + 1, m)
        BY <1>3, <1>4, <1>6, <2>2, <4>1
      <4>3. Part(lb, fo, n, m, PBlock)
        BY <1>6, <4>2, Slice
      <4>4. QED
        BY <4>1, <4>3
    <3>2. lb \in Seq(PBlock) /\ distinct(lb) /\ elems(lb) = {fo[i] : i \in n + 1 .. n + nl}
      BY <3>1, Zenon DEF Part
    <3>3. elems(lb) \cap used = {}
      <4>1. \A i \in n + 1 .. n + nl : i \in 1 .. free_count
        BY <1>6, <2>2
      <4>2. \A i \in n + 1 .. n + nl : fo[i] \notin used
        BY <1>6, <4>1
      <4>3. QED
        BY <3>2, <4>2
    <3>4. PICK t : t = [es |-> es, lb |-> lb, ib |-> <<>>]
      OBVIOUS
    <3>5. t.es = es /\ t.lb = lb /\ t.ib = <<>>
      BY <3>4
    <3>6. t.ib \in Seq(PBlock) /\ distinct(t.ib) /\ elems(t.ib) = {}
      BY <3>5 DEF distinct, elems
    <3>7. \A b \in PBlock : b \notin nodes(t) => with_tree(zeroed, t.es, t.lb, t.ib)[b] = zeroed[b]
      <4>1. t.lb \in Seq(PBlock) /\ distinct(t.lb) /\ elems(t.lb) \cap elems(t.ib) = {}
        BY <3>2, <3>5, <3>6
      <4>2. QED
        BY ONLY <3>6, <4>1, WithTree
    <3>8. nodes(t) = elems(lb)
      BY <3>5, <3>6 DEF nodes
    <3>9. \A b \in PBlock : b \notin elems(lb) => store'[b] = zeroed[b]
      BY <2>2, <3>5, <3>7, <3>8
    <3>10. ASSUME NEW g \in File, NEW b \in nodes(T[g]) PROVE store'[b] = store[b]
      <4>1. b \in PBlock /\ b \in used
        BY NodeBlocks
      <4>2. QED
        BY <1>10, <3>3, <3>9, <4>1
    <3>11. store' = [b \in PBlock |-> store'[b]]
      BY <2>2 DEF with_tree
    <3>12. \A b \in used : store'[b] = store[b]
      BY <1>10a, <3>3, <3>9
    <3>13. QED
      BY <3>10, <3>11, <3>12
  <2>3. QED
    BY <1>4, <2>1, <2>2
<1>12. cursor' \in Nat
  BY <1>4, <1>5, <1>6, <1>8, AfterNat
<1>13. used' \subseteq PBlock /\ ret' \in Results /\ Fresh(ecache', T)
       /\ \A g \in File : blocks_of(T[g]) \subseteq used'
  BY <1>4, <1>9 DEF Forest, Results
<1>14. Forest(T)'
  BY <1>4, <1>11, <1>12, <1>13, Kept
<1>15. Filled(T) => Filled(T)' /\ Effect(T, T)
  BY <1>4, <1>11, NothingSeen
<1>16. QED
  BY <1>4, <1>14, <1>15, KeptMoves

\* On device w, tree t is written and v is in blocks B; beyond these only D
\* has changed.
OnDevice(w, t, D, B, v) ==
    /\ w = [b \in PBlock |-> w[b]]
    /\ written(t, w)
    /\ \A b \in PBlock : b \in B => w[b] = data_block(v)
    /\ \A b \in PBlock : b \notin nodes(t) /\ b \notin D /\ b \notin B => w[b] = store[b]
    /\ \A b \in PBlock : b \notin blocks_of(t) \cup D => w[b] = store[b]

\* Placing the data and the tree of a file on the device.
LEMMA Placed ==
  ASSUME NEW t, tree(t), NEW D, D \cap nodes(t) = {}, NEW L \in SUBSET Nat, NEW v,
         NEW tr, tr = with_tree(with_data(store, D, Zero), t.es, t.lb, t.ib),
         NEW w, w = with_data(tr, targets(t.es, L), v)
  PROVE  OnDevice(w, t, D, targets(t.es, L), v)
<1>1. PICK B : /\ B = {map_logical_block(t.es, l) : l \in L} /\ w = with_data(tr, B, v)
               /\ B = targets(t.es, L)
  BY DEF targets
<1>2. PICK z : z = with_data(store, D, Zero)
  OBVIOUS
<1>3. /\ list(t.es) /\ t.lb \in Seq(PBlock) /\ distinct(t.lb) /\ t.ib \in Seq(PBlock) /\ distinct(t.ib)
      /\ elems(t.lb) \cap elems(t.ib) = {} /\ extent_blocks(t.es) \cap nodes(t) = {}
  BY DEF tree
<1>4. B \subseteq extent_blocks(t.es) \cup {NoBlock}
  BY <1>1, <1>3, Mapped
<1>5. /\ written(t, tr)
      /\ \A b \in PBlock : b \notin nodes(t) => tr[b] = z[b]
  <2>1. tr = with_tree(z, t.es, t.lb, t.ib)
    BY <1>2
  <2>2. /\ written(t, with_tree(z, t.es, t.lb, t.ib))
        /\ \A b \in PBlock : b \notin nodes(t) => with_tree(z, t.es, t.lb, t.ib)[b] = z[b]
    BY <1>3, WithTree
  <2>3. QED
    BY <2>1, <2>2, Zenon
<1>6. w = [b \in PBlock |-> IF b \in B THEN data_block(v) ELSE tr[b]]
  BY <1>1 DEF with_data
<1>7. z = [b \in PBlock |-> IF b \in D THEN data_block(Zero) ELSE store[b]]
  BY <1>2 DEF with_data
<1>8. w = [b \in PBlock |-> w[b]]
  BY <1>6
<1>9. ASSUME NEW b \in nodes(t) PROVE w[b] = tr[b]
  <2>1. b \in PBlock
    BY <1>3 DEF nodes, elems
  <2>2. b # NoBlock
    BY <2>1, ExtentsAssumption
  <2>3. b \notin B
    BY <1>3, <1>4, <2>2
  <2>4. QED
    BY <1>6, <2>1, <2>3
<1>10. written(t, w)
  <2>1. \A i \in 1 .. Len(t.lb) : w[t.lb[i]] = tr[t.lb[i]]
    BY <1>9 DEF nodes, elems
  <2>2. \A i \in 1 .. Len(t.ib) : w[t.ib[i]] = tr[t.ib[i]]
    BY <1>9 DEF nodes, elems
  <2>3. QED
    BY <1>5, <2>1, <2>2, Zenon DEF written
<1>11. ASSUME NEW b \in PBlock, b \notin blocks_of(t) \cup D PROVE w[b] = store[b]
  <2>1. b # NoBlock
    BY ExtentsAssumption
  <2>2. b \notin extent_blocks(t.es) /\ b \notin nodes(t) /\ b \notin D
    BY <1>11 DEF blocks_of
  <2>3. b \notin B
    BY <1>4, <2>1, <2>2
  <2>4. w[b] = tr[b] /\ tr[b] = z[b] /\ z[b] = store[b]
    BY <1>5, <1>6, <1>7, <2>2, <2>3
  <2>5. QED
    BY <2>4
<1>12. ASSUME NEW b \in PBlock, b \notin nodes(t), b \notin D, b \notin B PROVE w[b] = store[b]
  BY <1>5, <1>6, <1>7, <1>12
<1>13. \A b \in PBlock : b \in B => w[b] = data_block(v)
  BY <1>6
<1>14. OnDevice(w, t, D, B, v)
  BY <1>8, <1>10, <1>11, <1>12, <1>13 DEF OnDevice
<1>15. QED
  BY <1>1, <1>14, Zenon

\* A call that has all its blocks: the file gets its new tree.
LEMMA GrowMoves ==
  ASSUME NEW T, Forest(T), NEW f \in File, NEW n \in Nat, NEW ls, \A i \in 1 .. n : ls[i] \in Nat,
         n <= free_count,
         NEW es, list(es), Adds(es, T[f].es, ls, free_order, n),
         NEW c, Fresh(c, T), NEW sz, NEW s \in Ends, NEW e \in Ends, s < e, NEW v \in Value,
         NEW ws \in SUBSET Nat, ws = s .. e - 1, \A i \in 1 .. n : ls[i] \in ws,
         \A l \in ws : map_logical_block(es, l) # NoBlock,
         sz = IF e > inode[f].size THEN e ELSE inode[f].size,
         f \in Dir /\ Filled(T) =>
           sz \in Nat /\ \A l \in 0 .. sz - 1 : map_logical_block(es, l) # NoBlock,
         grow(f, n, es, c, sz, ws, v)
  PROVE  Moves(T) /\ Wrote(T, f, s, e, v)
<1>1. cursor \in Nat /\ store = [b \in PBlock |-> store[b]] /\ used \subseteq PBlock
  BY DEF Forest
<1>2. PICK len \in Nat, nl \in Nat, ni \in Nat :
         len = Len(es) /\ nl = need_leaf(len) /\ ni = need_index(len)
  BY ListFacts, Levels
<1>3. PICK all, bs, lb, ib :
        /\ all = SubSeq(free_order, 1, n + nl + ni) /\ bs = SubSeq(all, 1, n)
        /\ lb = SubSeq(all, n + 1, n + nl) /\ ib = SubSeq(all, n + nl + 1, n + nl + ni)
  OBVIOUS
<1>4. PICK t : t = [es |-> es, lb |-> lb, ib |-> ib]
  OBVIOUS
<1>5. t.es = es /\ t.lb = lb /\ t.ib = ib
  BY <1>4
<1>6. PICK ino : ino = [size |-> sz, blocks |-> extents_blocks_count(es),
                        depth |-> tree_depth(Len(es)), entries |-> root_entries(es, lb, ib)]
  OBVIOUS
<1>7. PICK tr : tr = with_tree(with_data(store, ToSet(bs), Zero), es, lb, ib)
  OBVIOUS
<1>8. /\ supported(Len(es)) /\ free_count >= n + nl + ni
      /\ used' = (used \cup ToSet(all)) \ extent_tree_blocks(inode[f])
      /\ cursor' = after(all)
      /\ store' = with_data(tr, {map_logical_block(es, l) : l \in ws}, v)
      /\ inode' = [inode EXCEPT ![f] = ino]
      /\ ecache' = extents_cache_put(extents_cache_invalidate(c, f), f, es)
      /\ ret' = "written"
  BY <1>2, <1>3, <1>6, <1>7, Zenon DEF grow
<1>9. Cut(all, bs, lb, ib, n, nl, ni)
  <2>1. n + nl + ni <= free_count
    <3>1. free_count \in Nat
      BY <1>1, FreeBlocks
    <3>2. QED
      BY <1>8, <3>1
  <2>2. QED
    BY <1>1, <1>3, <2>1, Handed
<1>10. /\ lb \in Seq(PBlock) /\ ib \in Seq(PBlock) /\ Len(lb) = nl /\ Len(ib) = ni
       /\ distinct(lb) /\ distinct(ib) /\ all \in Seq(PBlock)
  BY <1>9 DEF Cut
<1>11. /\ ToSet(all) = ToSet(bs) \cup elems(lb) \cup elems(ib)
       /\ ToSet(bs) = {free_order[i] : i \in 1 .. n}
       /\ ToSet(bs) \cap elems(lb) = {} /\ ToSet(bs) \cap elems(ib) = {}
       /\ elems(lb) \cap elems(ib) = {}
       /\ ToSet(all) \subseteq PBlock /\ ToSet(all) \cap used = {}
  BY <1>9, Zenon DEF Cut
<1>12. tree(T[f]) /\ blocks_of(T[f]) \subseteq used /\ extent_tree_blocks(inode[f]) = nodes(T[f])
  BY ForestRead DEF Forest
<1>13. /\ OneToOne(es)
       /\ extent_blocks(es) = extent_blocks(T[f].es) \cup ToSet(bs)
  <2>1. PICK es0, bl : es0 = T[f].es /\ bl = free_order
    OBVIOUS
  <2>2. list(es0) /\ OneToOne(es0) /\ extent_blocks(es0) \subseteq used
    BY <1>12, <2>1 DEF tree, blocks_of
  <2>3. extent_blocks(es0) \cap (PBlock \ used) = {}
    BY <2>2
  <2>4. \A i \in 1 .. n : bl[i] \in Nat /\ bl[i] \in PBlock \ used
    <3>1. \A i \in 1 .. n : i \in 1 .. free_count
      BY <1>1, FreeBlocks
    <3>2. \A i \in 1 .. free_count : bl[i] \in PBlock \ used
      BY <1>1, <2>1, FreeBlocks
    <3>3. QED
      BY <3>1, <3>2, ExtentsAssumption
  <2>5. \A i, j \in 1 .. n : bl[i] = bl[j] => i = j
    <3>1. \A i \in 1 .. n : i \in 1 .. Len(bl)
      BY <1>1, <2>1, FreeBlocks
    <3>2. distinct(bl)
      BY <1>1, <2>1, FreeBlocks
    <3>3. QED
      BY <3>1, <3>2 DEF distinct
  <2>6. Adds(es, es0, ls, bl, n)
    BY <2>1
  <2>7. OneToOne(es) /\ extent_blocks(es) = extent_blocks(es0) \cup {bl[i] : i \in 1 .. n}
    <3>1. PICK F : F = PBlock \ used
      OBVIOUS
    <3>2. extent_blocks(es0) \cap F = {} /\ Pairs(ls, bl, n, F)
      BY <2>3, <2>4, <2>5, <3>1 DEF Pairs
    <3>3. Grown(es, es0, bl, n)
      BY <2>2, <2>6, <3>2, GrownList
    <3>4. QED
      BY <3>3 DEF Grown
  <2>8. QED
    BY <1>11, <2>1, <2>7
<1>14. /\ nodes(t) = elems(lb) \cup elems(ib)
       /\ blocks_of(t) = extent_blocks(T[f].es) \cup ToSet(all)
       /\ nodes(t) \subseteq ToSet(all) /\ ToSet(bs) \subseteq ToSet(all)
       /\ nodes(t) \cap ToSet(bs) = {}
  BY <1>5, <1>11, <1>13 DEF nodes, blocks_of
<1>15. extent_blocks(T[f].es) \subseteq used /\ extent_blocks(T[f].es) \cap nodes(T[f]) = {}
       /\ nodes(T[f]) \subseteq used
  BY <1>12 DEF tree, blocks_of
<1>16. tree(t)
  <2>1. list(t.es) /\ OneToOne(t.es) /\ supported(Len(t.es))
    BY <1>5, <1>8, <1>13
  <2>2. t.lb \in Seq(PBlock) /\ Len(t.lb) = need_leaf(Len(t.es)) /\ distinct(t.lb)
    BY <1>2, <1>5, <1>10
  <2>3. t.ib \in Seq(PBlock) /\ Len(t.ib) = need_index(Len(t.es)) /\ distinct(t.ib)
    BY <1>2, <1>5, <1>10
  <2>4. extent_blocks(t.es) \subseteq PBlock /\ extent_blocks(t.es) \cap nodes(t) = {}
    BY <1>1, <1>5, <1>11, <1>13, <1>14, <1>15
  <2>5. elems(t.lb) \cap elems(t.ib) = {}
    BY <1>5, <1>11
  <2>6. QED
    BY <2>1, <2>2, <2>3, <2>4, <2>5 DEF tree
<1>17. rooted(t, ino)
  BY <1>5, <1>6 DEF rooted
<1>18. /\ store' = [b \in PBlock |-> store'[b]] /\ written(t, store')
       /\ \A b \in PBlock : b \notin blocks_of(t) \cup ToSet(bs) => store'[b] = store[b]
       /\ \A b \in PBlock : b \in targets(es, ws) => store'[b] = data_block(v)
       /\ \A b \in PBlock : b \notin nodes(t) /\ b \notin ToSet(bs) /\ b \notin targets(es, ws)
            => store'[b] = store[b]
  <2>1. PICK D : D = ToSet(bs)
    OBVIOUS
  <2>2. PICK w : w = store'
    OBVIOUS
  <2>3. D \cap nodes(t) = {}
    BY <1>14, <2>1
  <2>4. tr = with_tree(with_data(store, D, Zero), t.es, t.lb, t.ib)
    BY <1>5, <1>7, <2>1
  <2>5. w = with_data(tr, targets(t.es, ws), v)
    BY <1>5, <1>8, <2>2, Zenon DEF targets
  <2>6. /\ w = [b \in PBlock |-> w[b]] /\ written(t, w)
        /\ \A b \in PBlock : b \notin blocks_of(t) \cup D => w[b] = store[b]
        /\ \A b \in PBlock : b \in targets(t.es, ws) => w[b] = data_block(v)
        /\ \A b \in PBlock : b \notin nodes(t) /\ b \notin D /\ b \notin targets(t.es, ws)
             => w[b] = store[b]
    <3>1. OnDevice(w, t, D, targets(t.es, ws), v)
      BY <1>16, <2>3, <2>4, <2>5, Placed
    <3>2. QED
      BY <3>1, Zenon DEF OnDevice
  <2>7. QED
    BY <1>5, <2>1, <2>2, <2>6, Zenon
<1>19. PICK U : U = [g \in File |-> IF g = f THEN t ELSE T[g]]
  OBVIOUS
<1>20. U[f] = t /\ U[f].es = es /\ \A g \in File : g # f => U[g] = T[g]
  BY <1>5, <1>19
<1>21. used' = (used \cup ToSet(all)) \ nodes(T[f])
  BY <1>8, <1>12
<1>22. used' \subseteq PBlock /\ cursor' \in Nat /\ ret' \in Results
  <2>1. cursor' \in Nat
    BY <1>1, <1>8, <1>10, AfterNat
  <2>2. QED
    BY <1>1, <1>8, <1>11, <1>21, <2>1 DEF Results
<1>23. ASSUME NEW g \in File, g # f
       PROVE  /\ blocks_of(T[g]) \subseteq used /\ blocks_of(T[g]) \cap blocks_of(T[f]) = {}
              /\ blocks_of(T[g]) \subseteq used'
              /\ blocks_of(t) \cap blocks_of(T[g]) = {}
  <2>1. blocks_of(T[g]) \subseteq used /\ blocks_of(T[g]) \cap blocks_of(T[f]) = {}
    BY <1>23 DEF Forest
  <2>2. nodes(T[f]) \subseteq blocks_of(T[f]) /\ extent_blocks(T[f].es) \subseteq blocks_of(T[f])
    BY DEF blocks_of
  <2>3. blocks_of(T[g]) \subseteq used'
    BY <1>21, <2>1, <2>2
  <2>4. blocks_of(t) \cap blocks_of(T[g]) = {}
    BY <1>11, <1>14, <2>1, <2>2
  <2>5. QED
    BY <2>1, <2>3, <2>4
<1>24. ASSUME NEW g \in File, g # f, NEW b \in nodes(T[g])
       PROVE  store'[b] = store[b]
  <2>1. b \in blocks_of(T[g]) /\ b \in PBlock /\ b \in used
    BY NodeBlocks DEF blocks_of
  <2>2. b \notin blocks_of(t) /\ b \notin ToSet(bs)
    BY <1>11, <1>14, <1>23, <1>24, <2>1
  <2>3. QED
    BY <1>18, <2>1, <2>2
<1>25. blocks_of(t) \subseteq used'
  BY <1>11, <1>14, <1>15, <1>21
<1>26. Fresh(ecache', U)
  <2>1. Fresh(extents_cache_invalidate(c, f), U)
    BY <1>20, DropFresh
  <2>2. PICK d : d = extents_cache_invalidate(c, f)
    OBVIOUS
  <2>3. Fresh(extents_cache_put(d, f, U[f].es), U)
    BY <2>1, <2>2, PutFresh
  <2>4. QED
    BY <1>8, <1>20, <2>2, <2>3
<1>27. Forest(U)'
  <2>1. /\ \A g \in File : g # f => blocks_of(T[g]) \subseteq used'
        /\ \A g \in File : g # f => blocks_of(t) \cap blocks_of(T[g]) = {}
        /\ \A g \in File : g # f => \A b \in nodes(T[g]) : store'[b] = store[b]
    BY <1>23, <1>24
  <2>2. store' = [b \in PBlock |-> store'[b]] /\ written(t, store')
    BY <1>18
  <2>3. inode' = [inode EXCEPT ![f] = ino]
    BY <1>8
  <2>4. QED
    BY <1>16, <1>17, <1>19, <1>22, <1>25, <1>26, <2>1, <2>2, <2>3, Replaced
<1>28. lost(U)' \subseteq lost(T)
  <2>1. SUFFICES ASSUME NEW x, x \in used', \A g \in File : x \notin blocks_of(U[g])
                 PROVE  x \in used /\ \A g \in File : x \notin blocks_of(T[g])
    BY DEF lost
  <2>2. x \notin blocks_of(t)
    BY <1>20, <2>1
  <2>3. x \in used /\ x \notin nodes(T[f]) /\ x \notin extent_blocks(T[f].es)
    BY <1>14, <1>21, <2>1, <2>2
  <2>4. QED
    BY <1>20, <2>1, <2>3 DEF blocks_of
<1>29. SameSize(File \ {f}) /\ inode'[f].size = sz
  <2>1. inode = [g \in File |-> inode[g]]
    BY DEF Forest
  <2>2. inode'[f] = ino /\ \A g \in File : g # f => inode'[g] = inode[g]
    BY <1>8, <2>1
  <2>3. QED
    BY <1>6, <2>2 DEF SameSize
<1>30. ASSUME NEW g \in File, g # f
       PROVE  \A l \in LBlock : shown(U[g].es, store', l) = shown(T[g].es, store, l)
  <2>1. /\ list(T[g].es) /\ extent_blocks(T[g].es) \subseteq PBlock
        /\ extent_blocks(T[g].es) \subseteq blocks_of(T[g])
    BY DEF Forest, tree, blocks_of
  <2>2. PICK w : w = store'
    OBVIOUS
  <2>3. ASSUME NEW b \in extent_blocks(T[g].es) PROVE w[b] = store[b]
    <3>1. b \in PBlock /\ b \notin blocks_of(t) /\ b \notin ToSet(bs)
      BY <1>11, <1>14, <1>23, <1>30, <2>1
    <3>2. QED
      BY <1>18, <2>2, <3>1
  <2>4. \A l \in LBlock : shown(T[g].es, w, l) = shown(T[g].es, store, l)
    BY <2>1, <2>3, SameShown
  <2>5. QED
    BY <1>20, <1>30, <2>2, <2>4
<1>31. \A l \in LBlock : shown(es, store', l) = IF l \in ws THEN v ELSE shown(es, store, l)
  <2>1. PICK w : w = store'
    OBVIOUS
  <2>2. extent_blocks(es) \subseteq PBlock
    BY <1>5, <1>16 DEF tree
  <2>3. ToSet(bs) \subseteq targets(es, ws)
    <3>1. ASSUME NEW i \in 1 .. n PROVE free_order[i] \in targets(es, ws)
      <4>1. free_order[i] \in Nat /\ ls[i] \in Nat /\ ls[i] \in ws
        BY <1>11, ExtentsAssumption
      <4>2. maps(es, ls[i], free_order[i])
        BY <4>1 DEF Adds
      <4>3. map_logical_block(es, ls[i]) = free_order[i]
        BY <4>1, <4>2, ListMaps
      <4>4. QED
        BY <4>1, <4>3 DEF targets
    <3>2. QED
      BY <1>11, <3>1
  <2>4. ASSUME NEW b \in extent_blocks(es), b \notin targets(es, ws) PROVE w[b] = store[b]
    <3>1. b \in PBlock /\ b \notin ToSet(bs) /\ b \notin nodes(t)
      BY <1>5, <1>16, <2>2, <2>3, <2>4 DEF tree
    <3>2. QED
      BY <1>18, <2>1, <2>4, <3>1
  <2>5. \A b \in PBlock : b \in targets(es, ws) => w[b] = data_block(v)
    BY <1>18, <2>1
  <2>6. list(es) /\ OneToOne(es) /\ \A l \in ws : map_logical_block(es, l) # NoBlock
    BY <1>13
  <2>7. \A l \in LBlock : shown(es, w, l) = IF l \in ws THEN v ELSE shown(es, store, l)
    BY ONLY <2>2, <2>4, <2>5, <2>6, WrittenShown, ws \in SUBSET Nat
  <2>8. QED
    BY <2>1, <2>7
<1>32. ASSUME NEW l \in LBlock, l \notin ws PROVE shown(es, store, l) = shown(T[f].es, store, l)
  <2>1. PICK es0 : es0 = T[f].es /\ list(es0)
    BY <1>12 DEF tree
  <2>2. l \in Nat
    BY ExtentsAssumption
  <2>3. \A x \in Nat : maps(es, l, x) <=> maps(es0, l, x)
    BY <1>32, <2>1, <2>2 DEF Adds
  <2>4. PICK a, b : a = map_logical_block(es, l) /\ b = map_logical_block(es0, l)
    OBVIOUS
  <2>5. /\ a \in Nat \cup {NoBlock} /\ b \in Nat \cup {NoBlock}
        /\ \A x \in Nat : (maps(es, l, x) <=> a = x) /\ (maps(es0, l, x) <=> b = x)
    BY <2>1, <2>2, <2>4, ListMaps
  <2>6. a = b
    BY <2>3, <2>5, ExtentsAssumption
  <2>7. QED
    BY <2>1, <2>4, <2>6 DEF shown
<1>33. Stored(T, U, f, s, e, v)
  <2>1. \A l \in LBlock : shown(U[f].es, store', l)
                           = IF l \in s .. e - 1 THEN v ELSE shown(T[f].es, store, l)
    BY <1>20, <1>31, <1>32
  <2>2. Same(T, U, File \ {f})
    BY <1>30 DEF Same
  <2>3. QED
    BY <1>8, <1>29, <2>1, <2>2 DEF Stored
<1>34. Filled(T) => Filled(U)'
  <2> SUFFICES ASSUME Filled(T), NEW d \in Dir
               PROVE  /\ inode'[d].size \in Nat
                      /\ \A l \in 0 .. inode'[d].size - 1 : map_logical_block(U[d].es, l) # NoBlock
    BY DEF Filled
  <2>1. CASE d = f
    BY <1>20, <1>29, <2>1
  <2>2. CASE d # f
    <3>1. U[d] = T[d] /\ inode'[d].size = inode[d].size
      BY <1>20, <1>29, <2>2 DEF File, SameSize
    <3>2. QED
      BY <3>1 DEF Filled
  <2>3. QED
    BY <2>1, <2>2
<1>35. Effect(T, U)
  BY <1>33 DEF Effect
<1>36. Moves(T)
  BY <1>27, <1>28, <1>34, <1>35 DEF Moves
<1>37. QED
  BY <1>27, <1>33, <1>36 DEF Wrote

-------------------------------------------------------------------------------
\* The numbers a call takes for the blocks it writes.
LEMMA EndsNat == Ends \subseteq Nat
<1>1. \A l \in LBlock : l \in Nat /\ l + 1 \in Nat
  BY ExtentsAssumption
<1>2. QED
  BY <1>1, Zenon DEF Ends

\* A list that has got more pairs maps every block it did.
LEMMA StillMapped ==
  ASSUME NEW es, list(es), NEW fs, list(fs), NEW ls, NEW bs, NEW n, Adds(fs, es, ls, bs, n),
         NEW l \in Nat, map_logical_block(es, l) # NoBlock
  PROVE  map_logical_block(fs, l) # NoBlock
<1>1. PICK b \in Nat : b = map_logical_block(es, l)
  BY ListMaps
<1>2. maps(es, l, b)
  BY <1>1, ListMaps
<1>3. maps(fs, l, b)
  BY <1>2 DEF Adds
<1>4. QED
  BY <1>1, <1>3, ListMaps, ExtentsAssumption

\* And the new ones.
LEMMA NewMapped ==
  ASSUME NEW es, NEW fs, list(fs), NEW ls, NEW bs, NEW n, Adds(fs, es, ls, bs, n),
         NEW j \in 1 .. n, ls[j] \in Nat, bs[j] \in Nat
  PROVE  map_logical_block(fs, ls[j]) # NoBlock
<1>1. maps(fs, ls[j], bs[j])
  BY DEF Adds
<1>2. QED
  BY <1>1, ListMaps, ExtentsAssumption

\* write_at
LEMMA WriteMoves ==
  ASSUME NEW T, Forest(T), NEW f \in File, f \notin Dir, NEW lo \in Ends, NEW hi \in Ends, lo < hi,
         NEW v \in Value, write_at(f, lo, hi, v)
  PROVE  Moves(T) /\ (ret' = "written" => Wrote(T, f, lo, hi, v))
<1>1. PICK es, ls, es2, sz :
         /\ es = current_extents(f) /\ ls = unmapped(es, lo, hi)
         /\ es2 = add_all(es, ls, free_order)
         /\ sz = IF hi > inode[f].size THEN hi ELSE inode[f].size
  OBVIOUS
<1>2. \/ /\ ls = <<>>
         /\ ecache' = extents_cache_put(ecache, f, es)
         /\ store' = with_data(store, {map_logical_block(es, l) : l \in lo .. hi - 1}, v)
         /\ inode' = [inode EXCEPT ![f].size = sz]
         /\ ret' = "written" /\ used' = used /\ cursor' = cursor
      \/ grow_no_data(Len(ls), ecache)
      \/ free_count >= Len(ls) /\ grow_no_tree(Len(ls), es2, ecache)
      \/ free_count >= Len(ls) /\ grow(f, Len(ls), es2, ecache, sz, lo .. hi - 1, v)
  BY <1>1, Zenon DEF write_at
<1>3. es = T[f].es /\ list(es) /\ Fresh(ecache, T) /\ cursor \in Nat
  BY <1>1, ForestRead DEF Forest, tree
<1>4. lo \in Nat /\ hi \in Nat /\ lo .. hi - 1 \in SUBSET Nat
  BY EndsNat
<1>4a. Enumerates(ls, {l \in lo .. hi - 1 : map_logical_block(es, l) = NoBlock})
  BY <1>1, <1>4, Unmapped
<1>5. CASE /\ ls = <<>>
           /\ ecache' = extents_cache_put(ecache, f, es)
           /\ store' = with_data(store, {map_logical_block(es, l) : l \in lo .. hi - 1}, v)
           /\ inode' = [inode EXCEPT ![f].size = sz]
           /\ ret' = "written" /\ used' = used /\ cursor' = cursor
  <2>1. Fresh(ecache', T)
    BY <1>3, <1>5, PutFresh
  <2>2. store' = with_data(store, {map_logical_block(T[f].es, l) : l \in lo .. hi - 1}, v)
    BY <1>3, <1>5, Zenon
  <2>3. \E g \in File : \E s : inode' = [inode EXCEPT ![g].size = s]
    BY <1>5
  <2>4. \A l \in lo .. hi - 1 : map_logical_block(T[f].es, l) # NoBlock
    BY <1>3, <1>4a, <1>5 DEF Enumerates
  <2>5. SameSize(File \ {f}) /\ inode'[f].size = sz
    <3>1. inode = [g \in File |-> inode[g]] /\ rooted(T[f], inode[f])
      BY DEF Forest
    <3>2. inode'[f] = [inode[f] EXCEPT !.size = sz] /\ \A g \in File : g # f => inode'[g] = inode[g]
      BY <1>5, <3>1
    <3>3. inode'[f].size = sz
      BY <3>1, <3>2 DEF rooted
    <3>4. QED
      BY <3>2, <3>3 DEF SameSize
  <2>6. Filled(T) => Filled(T)'
    <3>1. \A d \in Dir : d \in File \ {f}
      BY DEF File
    <3>2. \A d \in Dir : inode'[d].size = inode[d].size
      BY <2>5, <3>1 DEF SameSize
    <3>3. QED
      BY <3>2 DEF Filled
  <2>7. PICK L \in SUBSET Nat : L = lo .. hi - 1
    BY <1>4
  <2>8. /\ store' = with_data(store, {map_logical_block(T[f].es, l) : l \in L}, v)
        /\ \A l \in L : map_logical_block(T[f].es, l) # NoBlock
    BY <2>2, <2>4, <2>7
  <2>9. inode'[f].size = IF hi > inode[f].size THEN hi ELSE inode[f].size
    BY <1>1, <2>5
  <2>10. QED
    BY <1>5, <2>1, <2>3, <2>5, <2>6, <2>7, <2>8, <2>9, InPlace
<1>6. CASE grow_no_data(Len(ls), ecache)
  <2>1. ret' = "NoSpace"
    BY <1>6 DEF grow_no_data
  <2>2. QED
    BY <1>3, <1>6, <2>1, NoDataMoves
<1>7. ASSUME free_count >= Len(ls)
      PROVE  /\ Len(ls) \in Nat /\ Len(ls) <= free_count
             /\ \A i \in 1 .. Len(ls) : ls[i] \in Nat
             /\ \A i \in 1 .. Len(ls) : free_order[i] \in Nat /\ ls[i] \in lo .. hi - 1
             /\ list(es2) /\ Adds(es2, es, ls, free_order, Len(ls))
  <2>1. Enumerates(ls, {l \in lo .. hi - 1 : map_logical_block(es, l) = NoBlock})
    BY <1>4a
  <2>2. Len(ls) \in Nat /\ distinct(ls)
        /\ \A i \in 1 .. Len(ls) : ls[i] \in lo .. hi - 1 /\ map_logical_block(es, ls[i]) = NoBlock
    BY <2>1 DEF Enumerates, distinct
  <2>3. ls \in Seq(Nat)
    <3>1. ls = [i \in 1 .. Len(ls) |-> ls[i]]
      BY <2>1 DEF Enumerates
    <3>2. \A i \in 1 .. Len(ls) : ls[i] \in Nat
      BY <1>4, <2>2
    <3>3. ls \in [1 .. Len(ls) -> Nat]
      BY <3>1, <3>2
    <3>4. QED
      BY <2>2, <3>3
  <2>4. free_count \in Nat /\ \A i \in 1 .. free_count : free_order[i] \in PBlock
    BY <1>3, FreeBlocks
  <2>5. Len(ls) <= free_count /\ \A i \in 1 .. Len(ls) : i \in 1 .. free_count
    BY <1>7, <2>2, <2>4
  <2>6. \A i \in 1 .. Len(ls) : free_order[i] \in Nat /\ map_logical_block(es, ls[i]) = NoBlock
    BY <2>2, <2>4, <2>5, ExtentsAssumption
  <2>7. list(es2) /\ Adds(es2, es, ls, free_order, Len(ls))
    <3>1. \A i, j \in 1 .. Len(ls) : ls[i] = ls[j] => i = j
      BY <2>2 DEF distinct
    <3>2. QED
      BY <1>1, <1>3, <2>3, <2>6, <3>1, AddAll
  <2>8. QED
    BY <2>2, <2>3, <2>5, <2>6, <2>7
<1>8. CASE free_count >= Len(ls) /\ grow_no_tree(Len(ls), es2, ecache)
  <2>1. Len(ls) \in Nat /\ Len(es2) \in Nat
    BY <1>7, <1>8, ListFacts
  <2>2. ret' \in {"NoSpace", "Unsupported"}
    BY <1>8 DEF grow_no_tree
  <2>3. QED
    BY <1>3, <1>8, <2>1, <2>2, NoTreeMoves
<1>9. CASE free_count >= Len(ls) /\ grow(f, Len(ls), es2, ecache, sz, lo .. hi - 1, v)
  <2>1. PICK n \in Nat, ws \in SUBSET Nat :
           n = Len(ls) /\ ws = lo .. hi - 1 /\ grow(f, n, es2, ecache, sz, ws, v)
    BY <1>4, <1>7, <1>9
  <2>2. /\ n <= free_count /\ list(es2) /\ Adds(es2, T[f].es, ls, free_order, n)
        /\ \A i \in 1 .. n : ls[i] \in Nat
    BY <1>3, <1>7, <1>9, <2>1
  <2>3. \A i \in 1 .. n : ls[i] \in ws /\ free_order[i] \in Nat
    BY <1>7, <1>9, <2>1
  <2>4. ASSUME NEW l \in ws PROVE map_logical_block(es2, l) # NoBlock
    <3>1. CASE map_logical_block(es, l) # NoBlock
      BY <1>3, <2>2, <3>1, StillMapped
    <3>2. CASE map_logical_block(es, l) = NoBlock
      <4>1. PICK j \in 1 .. n : ls[j] = l
        BY <1>4a, <2>1, <3>2 DEF Enumerates
      <4>2. map_logical_block(es2, ls[j]) # NoBlock
        BY <2>2, <2>3, NewMapped
      <4>3. QED
        BY <4>1, <4>2
    <3>3. QED
      BY <3>1, <3>2
  <2>5. sz = IF hi > inode[f].size THEN hi ELSE inode[f].size
    BY <1>1
  <2>6. QED
    BY ONLY <1>3, <2>1, <2>2, <2>3, <2>4, <2>5, GrowMoves, Forest(T), f \in File, f \notin Dir,
            lo \in Ends, hi \in Ends, lo < hi, v \in Value, ws \in SUBSET Nat, n \in Nat
<1>10. QED
  BY <1>2, <1>5, <1>6, <1>8, <1>9

\* dir_add_entry when the directory grows.
LEMMA AddBlockMoves ==
  ASSUME NEW T, Forest(T), NEW d \in Dir, NEW v \in Value, dir_add_block(d, v)
  PROVE  Moves(T)
<1>0. d \in File
  BY DEF File
<1>1. PICK es, n, es2 : /\ es = current_extents(d) /\ n = inode[d].size
                        /\ es2 = push_block_to_extents(es, n, free_order[1])
  OBVIOUS
<1>2. es = T[d].es /\ list(es) /\ Fresh(ecache, T) /\ cursor \in Nat
  BY <1>0, <1>1, ForestRead DEF Forest, tree
<1>3. PICK c \in scanned(d, es) :
        \/ grow_no_data(1, c)
        \/ free_count >= 1 /\ grow_no_tree(1, es2, c)
        \/ free_count >= 1 /\ grow(d, 1, es2, c, n + 1, {n}, v)
  BY <1>1, Zenon DEF dir_add_block
<1>4. n \in Nat /\ n \in LBlock /\ is_end(es, n)
  BY <1>1, ExtentsAssumption DEF dir_add_block
<1>5. Fresh(c, T)
  BY <1>0, <1>2, ScanFresh
<1>6. CASE grow_no_data(1, c)
  BY <1>5, <1>6, NoDataMoves
<1>7. ASSUME free_count >= 1
      PROVE  list(es2) /\ Adds(es2, es, <<n>>, free_order, 1) /\ 1 <= free_count
  <2>1. free_count \in Nat /\ \A i \in 1 .. free_count : free_order[i] \in PBlock
    BY <1>2, FreeBlocks
  <2>2. PICK p \in Nat : p = free_order[1]
    <3>1. 1 \in 1 .. free_count
      BY <1>7, <2>1
    <3>2. free_order[1] \in PBlock
      BY <2>1, <3>1
    <3>3. QED
      BY <3>2, ExtentsAssumption
  <2>3. list(es2) /\ extends(es2, es, n, p)
    BY <1>1, <1>2, <1>4, <2>2, ListPush
  <2>4. ASSUME NEW k \in Nat, NEW x \in Nat
        PROVE  maps(es2, k, x) <=>
                 maps(es, k, x) \/ \E j \in 1 .. 1 : k = <<n>>[j] /\ x = free_order[j]
    <3>1. maps(es2, k, x) <=> maps(es, k, x) \/ (k = n /\ x = p)
      BY <2>3 DEF extends
    <3>2. (\E j \in 1 .. 1 : k = <<n>>[j] /\ x = free_order[j]) <=> k = n /\ x = p
      <4>1. 1 .. 1 = {1} /\ <<n>>[1] = n
        OBVIOUS
      <4>2. QED
        BY <2>2, <4>1
    <3>3. QED
      BY <3>1, <3>2, Zenon
  <2>5. QED
    BY <1>7, <2>1, <2>3, <2>4 DEF Adds
<1>8. CASE free_count >= 1 /\ grow_no_tree(1, es2, c)
  <2>1. Len(es2) \in Nat
    BY <1>7, <1>8, ListFacts
  <2>2. QED
    BY <1>5, <1>8, <2>1, NoTreeMoves
<1>9. CASE free_count >= 1 /\ grow(d, 1, es2, c, n + 1, {n}, v)
  <2>0. PICK ls, sz : ls = <<n>> /\ sz = n + 1
    OBVIOUS
  <2>1. PICK m \in Nat, ws \in SUBSET Nat :
           m = 1 /\ ws = {n} /\ grow(d, m, es2, c, sz, ws, v)
    BY <1>4, <1>9, <2>0
  <2>2. /\ m <= free_count /\ list(es2) /\ Adds(es2, T[d].es, ls, free_order, m)
        /\ \A i \in 1 .. m : ls[i] \in Nat
    BY <1>2, <1>4, <1>7, <1>9, <2>0, <2>1
  <2>3. PICK e \in Ends : e = n + 1 /\ n \in Ends /\ n < e /\ ws = n .. e - 1
    BY <1>4, <2>1 DEF Ends
  <2>4. \A i \in 1 .. m : ls[i] \in ws /\ ls[i] = n
    BY <2>0, <2>1
  <2>5. map_logical_block(es2, n) # NoBlock
    <3>0. 1 \in 1 .. m /\ 1 \in 1 .. free_count
      BY <1>2, <1>9, <2>1, FreeBlocks
    <3>1. 1 \in 1 .. m /\ free_order[1] \in Nat
      <4>1. \A i \in 1 .. free_count : free_order[i] \in PBlock \ used
        BY <1>2, FreeBlocks
      <4>2. free_order[1] \in PBlock
        BY <3>0, <4>1
      <4>3. QED
        BY <3>0, <4>2, ExtentsAssumption
    <3>2. map_logical_block(es2, ls[1]) # NoBlock
      BY <2>2, <3>1, NewMapped
    <3>3. QED
      BY <2>4, <3>1, <3>2
  <2>6. sz = IF e > inode[d].size THEN e ELSE inode[d].size
    BY <1>1, <1>4, <2>0, <2>3
  <2>7. ASSUME Filled(T)
        PROVE  sz \in Nat /\ \A l \in 0 .. sz - 1 : map_logical_block(es2, l) # NoBlock
    <3>1. sz \in Nat
      BY <1>4, <2>0
    <3>2. ASSUME NEW l \in 0 .. sz - 1 PROVE map_logical_block(es2, l) # NoBlock
      <4>1. CASE l = n
        BY <2>5, <4>1
      <4>2. CASE l # n
        <5>1. l \in 0 .. n - 1 /\ l \in Nat
          BY <1>4, <2>0, <4>2
        <5>2. map_logical_block(es, l) # NoBlock
          BY <1>1, <1>2, <2>7, <5>1 DEF Filled
        <5>3. QED
          BY <1>2, <2>2, <5>1, <5>2, StillMapped
      <4>3. QED
        BY <4>1, <4>2
    <3>3. QED
      BY <3>1, <3>2
  <2>8. \A l \in ws : map_logical_block(es2, l) # NoBlock
    BY <2>1, <2>5
  <2>9. QED
    BY ONLY <1>0, <1>5, <2>1, <2>2, <2>3, <2>4, <2>6, <2>7, <2>8, GrowMoves, Forest(T),
            v \in Value, ws \in SUBSET Nat, m \in Nat
<1>10. QED
  BY <1>3, <1>6, <1>8, <1>9

\* dir_add_entry in a block with room, and dir_remove_entry.
LEMMA InBlockMoves ==
  ASSUME NEW T, Forest(T), NEW d \in Dir, NEW l \in LBlock, NEW v \in Value,
         dir_add_in_place(d, l, v) \/ dir_remove_entry(d, l, v)
  PROVE  Moves(T)
<1>0. d \in File /\ l \in Nat /\ l \in Ends /\ l + 1 \in Ends
  BY ExtentsAssumption DEF File, Ends
<1>1. /\ current_extents(d) = T[d].es /\ parse_extent_tree(inode[d]) = T[d].es
      /\ Fresh(ecache, T)
  BY <1>0, ForestRead DEF Forest
<1>2. PICK L \in SUBSET Nat, e \in Ends : L = {l} /\ e = l + 1 /\ L = l .. e - 1 /\ l < e
  BY <1>0
<1>3. /\ store' = with_data(store, {map_logical_block(T[d].es, l)}, v)
      /\ ret' = "written" /\ used' = used /\ cursor' = cursor /\ inode' = inode
      /\ l < inode[d].size
  BY <1>1 DEF dir_add_in_place, dir_remove_entry
<1>4. Fresh(ecache', T)
  <2>1. ecache' = ecache \/ ecache' \in scanned(d, T[d].es)
    BY <1>1 DEF dir_add_in_place, dir_remove_entry
  <2>2. QED
    BY <1>0, <1>1, <2>1, ScanFresh
<1>5. {map_logical_block(T[d].es, l)} = {map_logical_block(T[d].es, k) : k \in L}
  BY <1>2
<1>6. store' = with_data(store, {map_logical_block(T[d].es, k) : k \in L}, v)
  BY <1>3, <1>5, Zenon
<1>7. ASSUME Filled(T)
      PROVE  /\ \A k \in L : map_logical_block(T[d].es, k) # NoBlock
             /\ inode'[d].size = IF e > inode[d].size THEN e ELSE inode[d].size
  <2>1. PICK n \in Nat : n = inode[d].size /\ \A k \in 0 .. n - 1 : map_logical_block(T[d].es, k) # NoBlock
    BY <1>7 DEF Filled
  <2>2. l \in 0 .. n - 1 /\ ~(e > n)
    BY <1>0, <1>2, <1>3, <2>1
  <2>3. QED
    BY <1>2, <1>3, <2>1, <2>2
<1>8. SameSize(File \ {d}) /\ (Filled(T) => Filled(T)')
  BY <1>3 DEF SameSize, Filled
<1>9. QED
  BY <1>0, <1>2, <1>3, <1>4, <1>6, <1>7, <1>8, InPlace

\* Every step of the specification moves from trees to trees.
LEMMA StepMoves ==
  ASSUME NEW T, Forest(T), [Next]_vars
  PROVE  Moves(T)
<1>1. RegFile \subseteq File /\ Dir \subseteq File
  BY DEF File
<1>2. \A f \in RegFile : f \in File /\ f \notin Dir
  BY <1>1, FileAssumption
<1>3. ASSUME NEW f \in RegFile, NEW lo \in LBlock \cup {l + 1 : l \in LBlock},
             NEW hi \in LBlock \cup {l + 1 : l \in LBlock}, NEW v \in Value, lo < hi, write_at(f, lo, hi, v)
      PROVE  Moves(T)
  <2>1. lo \in Ends /\ hi \in Ends /\ f \in File /\ f \notin Dir
    BY <1>1, FileAssumption DEF Ends
  <2>2. QED
    BY <1>3, <2>1, WriteMoves
<1>4. ASSUME NEW d \in Dir, NEW v \in Value, dir_add_block(d, v)
      PROVE  Moves(T)
  BY <1>4, AddBlockMoves
<1>5. ASSUME NEW d \in Dir, NEW l \in LBlock, NEW v \in Value,
             dir_add_in_place(d, l, v) \/ dir_remove_entry(d, l, v)
      PROVE  Moves(T)
  BY <1>5, InBlockMoves
<1>6. ASSUME NEW f \in RegFile, clear(f)
      PROVE  Moves(T)
  BY <1>2, <1>6, ClearMoves
<1>7. ASSUME NEW f \in File, read_at(f)
      PROVE  Moves(T)
  BY <1>7, ReadMoves
<1>8. CASE UNCHANGED vars
  <2>1. used' = used /\ cursor' = cursor /\ store' = store /\ inode' = inode
        /\ ecache' = ecache /\ ret' = ret
    BY <1>8 DEF vars
  <2>2. Forest(T)'
    BY <2>1 DEF Forest
  <2>3. Filled(T) => Filled(T)' /\ Effect(T, T)
    BY <2>1, NothingSeen
  <2>4. QED
    BY <2>1, <2>2, <2>3, KeptMoves
<1>9. QED
  BY <1>3, <1>4, <1>5, <1>6, <1>7, <1>8, Zenon DEF Next

-------------------------------------------------------------------------------
\* The inductive invariant holds in every state.
LEMMA Invariance == Spec => []Inv
<1>1. Init => Inv
  BY InitInv
<1>2. Inv /\ [Next]_vars => Inv'
  <2> SUFFICES ASSUME Inv, [Next]_vars PROVE Inv'
    OBVIOUS
  <2>1. PICK T : Forest(T) /\ Filled(T)
    BY DEF Inv
  <2>2. Moves(T)
    BY <2>1, StepMoves
  <2>3. QED
    BY <2>1, <2>2 DEF Moves, Inv
<1>3. QED
  BY <1>1, <1>2, PTL DEF Spec

\* Every variable has its type, and the root of every tree fits into its
\* inode, whatever calls were made.
THEOREM FileTypes == Spec => []TypeOK
<1>1. Inv => TypeOK
  <2> SUFFICES ASSUME Inv PROVE TypeOK
    OBVIOUS
  <2>1. PICK T : Forest(T)
    BY DEF Inv
  <2>2. ASSUME NEW f \in File
        PROVE  inode[f].depth \in 0 .. 2 /\ Len(inode[f].entries) <= InInode
    <3>1. tree(T[f]) /\ rooted(T[f], inode[f])
      BY <2>1 DEF Forest
    <3>2. QED
      BY <3>1, RootAt
  <2>3. ecache \in [File -> Seq(Extent) \cup {NotCached}]
    <3>1. \A f \in File : T[f].es \in Seq(Extent)
      BY <2>1, ListFacts DEF Forest, tree
    <3>2. Fresh(ecache, T)
      BY <2>1 DEF Forest
    <3>3. \A f \in File : ecache[f] \in Seq(Extent) \cup {NotCached}
      BY <3>1, <3>2 DEF Fresh
    <3>4. ecache = [f \in File |-> ecache[f]]
      BY <3>2 DEF Fresh
    <3>5. QED
      BY <3>3, <3>4
  <2>4. used \subseteq PBlock /\ cursor \in Nat /\ DOMAIN store = PBlock /\ DOMAIN inode = File
    BY <2>1 DEF Forest
  <2>5. ret \in {"written", "truncated", "read", "NoSpace", "Unsupported"}
    BY <2>1 DEF Forest, Results
  <2>6. QED
    BY <2>2, <2>3, <2>4, <2>5 DEF TypeOK
<1>2. QED
  BY <1>1, Invariance, PTL

\* Every block has one owner: no block is in two files, or twice in one, or
\* both data and node, i_blocks counts the data blocks, and alloc_block never
\* hands out a block of a file.
THEOREM Owners == Spec => []OneOwner
<1>1. Inv => OneOwner
  <2> SUFFICES ASSUME Inv PROVE OneOwner
    OBVIOUS
  <2>1. PICK T : Forest(T)
    BY DEF Inv
  <2>2. ASSUME NEW f \in File
        PROVE  /\ owned(f) \subseteq used
               /\ data_blocks(f) \cap extent_tree_blocks(inode[f]) = {}
               /\ Cardinality(data_blocks(f)) = inode[f].blocks
               /\ owned(f) = blocks_of(T[f])
    <3>1. /\ tree(T[f]) /\ rooted(T[f], inode[f]) /\ blocks_of(T[f]) \subseteq used
      BY <2>1 DEF Forest
    <3>2. /\ parse_extent_tree(inode[f]) = T[f].es /\ owned(f) = blocks_of(T[f])
          /\ extent_tree_blocks(inode[f]) = nodes(T[f])
      BY <2>1, ForestRead
    <3>3. data_blocks(f) = extent_blocks(T[f].es)
      BY <3>2 DEF data_blocks
    <3>4. extent_blocks(T[f].es) \cap nodes(T[f]) = {} /\ list(T[f].es) /\ OneToOne(T[f].es)
      BY <3>1 DEF tree
    <3>5. inode[f].blocks = extents_blocks_count(T[f].es)
      BY <3>1, RootAt
    <3>6. extents_blocks_count(T[f].es) = Cardinality(extent_blocks(T[f].es))
      BY <3>4, Counted
    <3>7. QED
      BY <3>1, <3>2, <3>3, <3>4, <3>5, <3>6
  <2>3. \A f, g \in File : f # g => blocks_of(T[f]) \cap blocks_of(T[g]) = {}
    BY <2>1 DEF Forest
  <2>4. QED
    BY <2>2, <2>3 DEF OneOwner
<1>2. QED
  BY <1>1, Invariance, PTL

\* A list in EXTENTS_CACHE is the list the tree of its inode holds: every
\* call that writes a tree replaces the entry, and eviction drops no other.
THEOREM CachedLists == Spec => []CacheCoherent
<1>1. Inv => CacheCoherent
  <2> SUFFICES ASSUME Inv PROVE CacheCoherent
    OBVIOUS
  <2>1. PICK T : Forest(T)
    BY DEF Inv
  <2>2. Fresh(ecache, T) /\ \A f \in File : parse_extent_tree(inode[f]) = T[f].es
    BY <2>1, ForestRead DEF Forest
  <2>3. QED
    BY <2>2 DEF Fresh, CacheCoherent
<1>2. QED
  BY <1>1, Invariance, PTL

\* The trees write_extents_to_inode writes are sound at every depth: sorted
\* lists, no node empty or too full, and index entries with the first logical
\* block below them.
THEOREM SoundTrees == Spec => []TreesSound
<1>1. Inv => TreesSound
  <2> SUFFICES ASSUME Inv PROVE TreesSound
    OBVIOUS
  <2>1. PICK T : Forest(T)
    BY DEF Inv
  <2>2. ASSUME NEW f \in File
        PROVE  /\ sorted(parse_extent_tree(inode[f]))
               /\ \A b \in extent_tree_blocks(inode[f]) : Len(store[b].entries) \in 1 .. PerNode
               /\ inode[f].depth > 0 => \A i \in 1 .. Len(inode[f].entries) :
                    inode[f].entries[i].block = first_block(inode[f].entries[i].child)
               /\ \A b \in extent_tree_blocks(inode[f]) : store[b].kind = "index" =>
                    \A i \in 1 .. Len(store[b].entries) :
                       store[b].entries[i].block = first_block(store[b].entries[i].child)
    <3>1. tree(T[f]) /\ written(T[f], store) /\ rooted(T[f], inode[f])
      BY <2>1 DEF Forest
    <3>2. QED
      BY <3>1, TreeIsSound
  <2>3. QED
    BY <2>2 DEF TreesSound
<1>2. QED
  BY <1>1, Invariance, PTL

\* What the blocks of the files are, by the trees.
LostBlocks == \A T : Forest(T) => leaked = lost(T)

\* A call on inodes with extents that succeeds leaks no block: blocks in use that
\* are in no file come from calls that failed.
THEOREM NoLeak == Spec => LeakOnlyOnError
<1>1. LostBlocks
  <2> SUFFICES ASSUME NEW T, Forest(T) PROVE leaked = lost(T)
    BY Zenon DEF LostBlocks
  <2>1. QED
    BY ForestRead
<1>2. Inv /\ LostBlocks /\ LostBlocks' /\ [Next]_vars
        => [ret' \notin {"NoSpace", "Unsupported"} => leaked' \subseteq leaked]_vars
  <2> SUFFICES ASSUME Inv, LostBlocks, LostBlocks', [Next]_vars,
                      ret' \notin {"NoSpace", "Unsupported"}
               PROVE  leaked' \subseteq leaked
    OBVIOUS
  <2>1. PICK T : Forest(T)
    BY DEF Inv
  <2>2. PICK U : Forest(U)' /\ lost(U)' \subseteq lost(T)
    BY <2>1, StepMoves DEF Moves
  <2>3. leaked = lost(T)
    BY <2>1 DEF LostBlocks
  <2>4. leaked' = lost(U)'
    BY <2>2 DEF LostBlocks
  <2>5. QED
    BY <2>2, <2>3, <2>4
<1>3. QED
  BY <1>1, <1>2, Invariance, PTL DEF Spec, LeakOnlyOnError

-------------------------------------------------------------------------------
\* What the readers of the files see, by the trees.
contents(T, st) == [f \in File |-> [l \in LBlock |-> shown(T[f].es, st, l)]]
Seen == \A T : Forest(T) => [f \in File |-> read_block(f)] = contents(T, store)

\* A new file system is one of the abstract specification.
LEMMA InitFiles == Init => Files!StoreInit
<1> SUFFICES ASSUME Init PROVE Files!StoreInit
  OBVIOUS
<1>1. PICK home \in [Dir -> PBlock] :
        inode = [f \in File |-> IF f \in Dir THEN new_dir(home[f]) ELSE empty_inode]
  BY DEF Init
<1>2. PICK v \in Value : store = [b \in PBlock |-> data_block(v)]
  BY DEF Init
<1>3. \A b \in PBlock : store[b].kind = "data" /\ store[b].v = v
  BY <1>2 DEF data_block
<1>4. ecache = [f \in File |-> NotCached] /\ ret = "read"
  BY DEF Init
<1>5. PICK rd : rd = [f \in File |-> read_block(f)]
  OBVIOUS
<1>6. ASSUME NEW f \in File
      PROVE  /\ inode[f].size \in {0} \cup {l + 1 : l \in LBlock}
             /\ rd[f] = [l \in LBlock |-> rd[f][l]]
             /\ \A l \in LBlock : /\ rd[f][l] \in Value
                                  /\ l >= inode[f].size => rd[f][l] = Zero
  <2>1. inode[f].depth = 0
    BY <1>1 DEF new_dir, empty_inode
  <2>2. PICK es : es = inode[f].entries /\ current_extents(f) = es
    BY <1>4, <2>1 DEF current_extents, parse_extent_tree
  <2>3. rd[f] = [l \in LBlock |-> shown(es, store, l)]
    BY <1>5, <2>2 DEF read_block, shown
  <2>4. CASE f \in Dir
    <3>1. PICK b \in PBlock : b = home[f]
      BY <2>4
    <3>2. inode[f].size = 1 /\ es = <<new_extent(0, b)>>
      BY <1>1, <2>2, <2>4, <3>1 DEF new_dir
    <3>3. map_logical_block(es, 0) = b /\ \A l \in Nat : l # 0 => map_logical_block(es, l) = NoBlock
      BY <3>2, HomeList
    <3>4. ASSUME NEW l \in LBlock
          PROVE  shown(es, store, l) \in Value /\ (l >= 1 => shown(es, store, l) = Zero)
      <4>1. l \in Nat
        BY ExtentsAssumption
      <4>2. CASE l = 0
        BY <1>3, <3>3, <4>2, FileAssumption DEF shown
      <4>3. CASE l # 0
        BY <3>3, <4>1, <4>3, FileAssumption DEF shown
      <4>4. QED
        BY <4>2, <4>3
    <3>5. 1 \in {l + 1 : l \in LBlock}
      BY FileAssumption
    <3>6. QED
      BY <2>3, <3>2, <3>4, <3>5
  <2>5. CASE f \notin Dir
    <3>1. inode[f].size = 0 /\ es = <<>>
      BY <1>1, <2>2, <2>5 DEF empty_inode
    <3>2. ASSUME NEW l \in LBlock PROVE shown(es, store, l) = Zero
      <4>1. PICK t : t = [es |-> es, lb |-> <<>>, ib |-> <<>>]
        OBVIOUS
      <4>2. tree(t) /\ blocks_of(t) = {} /\ t.es = es
        BY <3>1, <4>1, EmptyTree
      <4>3. list(es) /\ extent_blocks(es) = {} /\ l \in Nat
        BY <4>2, ExtentsAssumption DEF tree, blocks_of
      <4>4. map_logical_block(es, l) = NoBlock
        BY <4>3, Mapped
      <4>5. QED
        BY <4>4 DEF shown
    <3>3. QED
      BY <2>3, <3>1, <3>2, FileAssumption
  <2>6. QED
    BY <2>4, <2>5
<1>7. rd \in [File -> [LBlock -> Value]]
  <2>1. ASSUME NEW f \in File PROVE rd[f] \in [LBlock -> Value]
    BY <1>6
  <2>2. QED
    BY <1>5, <2>1
<1>8. [f \in File |-> inode[f].size] \in [File -> {0} \cup {l + 1 : l \in LBlock}]
  BY <1>6
<1>9. \A f \in File, l \in LBlock : l >= inode[f].size => rd[f][l] = Zero
  BY <1>6
<1>10. QED
  BY <1>4, <1>5, <1>7, <1>8, <1>9 DEF Files!StoreInit

\* Every step is one of the abstract specification, or a stutter.
LEMMA StepFiles ==
  ASSUME Inv, Seen, Seen', [Next]_vars
  PROVE  [Files!StoreNext]_(Files!storeVars)
<1>1. PICK T : Forest(T) /\ Filled(T)
  BY DEF Inv
<1>2. PICK U : Forest(U)' /\ Effect(T, U)
  BY <1>1, StepMoves DEF Moves
<1>3. PICK old, new : /\ old = [f \in File |-> read_block(f)]
                      /\ new = [f \in File |-> read_block(f)]'
  OBVIOUS
<1>4. /\ old = [f \in File |-> [l \in LBlock |-> shown(T[f].es, store, l)]]
      /\ new = [f \in File |-> [l \in LBlock |-> shown(U[f].es, store', l)]]
  BY <1>1, <1>2, <1>3 DEF Seen, contents
<1>5. PICK sz, sz2 : /\ sz = [f \in File |-> inode[f].size]
                     /\ sz2 = [f \in File |-> inode'[f].size]
  OBVIOUS
<1>6. \A f \in File : (\A l \in LBlock : shown(U[f].es, store', l) = shown(T[f].es, store, l))
                       => new[f] = old[f]
  BY <1>4
<1>7. CASE Unseen(T, U)
  <2>1. new = old
    BY <1>4, <1>7 DEF Unseen, Same
  <2>2. sz2 = sz
    BY <1>5, <1>7 DEF Unseen, SameSize
  <2>3. CASE ret' = ret
    BY <1>3, <1>5, <2>1, <2>2, <2>3 DEF Files!storeVars
  <2>4. CASE ret' \in {"read", "NoSpace", "Unsupported"}
    <3>1. Files!Other(old, new)
      BY <1>5, <2>1, <2>2, <2>4 DEF Files!Other
    <3>2. QED
      BY <1>3, <3>1 DEF Files!StoreNext
  <2>5. QED
    BY <1>7, <2>3, <2>4 DEF Unseen
<1>8. CASE \E f \in File : Emptied(T, U, f)
  <2>1. PICK f \in File : Emptied(T, U, f)
    BY <1>8
  <2>2. sz2 = [sz EXCEPT ![f] = 0]
    BY <1>5, <2>1 DEF Emptied, SameSize
  <2>3. new = [old EXCEPT ![f] = [l \in LBlock |-> Zero]]
    <3>1. new[f] = [l \in LBlock |-> Zero]
      BY <1>4, <2>1 DEF Emptied
    <3>2. \A g \in File : g # f => new[g] = old[g]
      BY <1>6, <2>1 DEF Emptied, Same
    <3>3. QED
      BY <1>4, <3>1, <3>2
  <2>4. Files!Truncate(old, new, f)
    BY <1>5, <2>1, <2>2, <2>3 DEF Files!Truncate, Emptied
  <2>5. QED
    BY <1>3, <2>4 DEF Files!StoreNext
<1>9. CASE \E f \in File, s, e \in Ends, v \in Value : s < e /\ Stored(T, U, f, s, e, v)
  <2>1. PICK f \in File, s \in Ends, e \in Ends, v \in Value : s < e /\ Stored(T, U, f, s, e, v)
    BY <1>9
  <2>2. sz2 = [sz EXCEPT ![f] = IF e > @ THEN e ELSE @]
    BY <1>5, <2>1 DEF Stored, SameSize
  <2>3. new = [old EXCEPT ![f] = [l \in LBlock |-> IF l \in s .. e - 1 THEN v ELSE @[l]]]
    <3>1. new[f] = [l \in LBlock |-> IF l \in s .. e - 1 THEN v ELSE old[f][l]]
      BY <1>4, <2>1 DEF Stored
    <3>2. \A g \in File : g # f => new[g] = old[g]
      BY <1>6, <2>1 DEF Stored, Same
    <3>3. QED
      BY <1>4, <3>1, <3>2
  <2>4. Files!Write(old, new, f, s, e, v)
    BY <1>5, <2>1, <2>2, <2>3 DEF Files!Write, Stored
  <2>5. QED
    BY <1>3, <2>1, <2>4 DEF Files!StoreNext, Ends
<1>10. QED
  BY <1>2, <1>7, <1>8, <1>9 DEF Effect

\* A reader goes by the cache and sees what the trees say.
LEMMA SeenAlways == Seen
<1> SUFFICES ASSUME NEW T, Forest(T)
             PROVE  [f \in File |-> read_block(f)] = contents(T, store)
  BY Zenon DEF Seen
<1>1. \A f \in File : current_extents(f) = T[f].es
  BY ForestRead
<1>2. ASSUME NEW f \in File
      PROVE  read_block(f) = [l \in LBlock |-> shown(T[f].es, store, l)]
  BY <1>1 DEF read_block, shown
<1>3. QED
  BY <1>2 DEF contents

\* Files with extents, with their trees, the bitmap and the cache, implement those of
\* the abstract specification: a write shows where it was asked to and nowhere
\* else, what nobody wrote reads as zeros, a cleared file is empty, and neither
\* a read nor a call that fails changes a file.
THEOREM FilesImplemented == Spec => ImplementsFiles
<1>1. Seen
  BY SeenAlways
<1>2. Init => Files!StoreInit
  BY InitFiles
<1>3. Inv /\ Seen /\ Seen' /\ [Next]_vars => [Files!StoreNext]_(Files!storeVars)
  BY StepFiles
<1>4. QED
  BY <1>1, <1>2, <1>3, Invariance, PTL DEF Spec, ImplementsFiles, Files!StoreSpec
\* A write that did as it was asked is the write of the abstract specification
\* with the arguments of the call.
LEMMA WroteFiles ==
  ASSUME Seen, Seen', NEW T, Forest(T), Filled(T), NEW f \in File, NEW s, NEW e, NEW v,
         Wrote(T, f, s, e, v)
  PROVE  Files!Write(all_read, all_read', f, s, e, v)
<1>1. PICK U : Forest(U)' /\ Stored(T, U, f, s, e, v)
  BY DEF Wrote
<1>2. PICK old, new : old = all_read /\ new = all_read'
  OBVIOUS
<1>3. /\ old = [g \in File |-> [l \in LBlock |-> shown(T[g].es, store, l)]]
      /\ new = [g \in File |-> [l \in LBlock |-> shown(U[g].es, store', l)]]
  BY <1>1, <1>2 DEF Seen, contents, all_read
<1>4. PICK sz, sz2 : /\ sz = [g \in File |-> inode[g].size]
                     /\ sz2 = [g \in File |-> inode'[g].size]
  OBVIOUS
<1>5. sz2 = [sz EXCEPT ![f] = IF e > @ THEN e ELSE @]
  BY <1>1, <1>4 DEF Stored, SameSize
<1>6. new = [old EXCEPT ![f] = [l \in LBlock |-> IF l \in s .. e - 1 THEN v ELSE @[l]]]
  <2>1. new[f] = [l \in LBlock |-> IF l \in s .. e - 1 THEN v ELSE old[f][l]]
    BY <1>1, <1>3 DEF Stored
  <2>2. \A g \in File : g # f => new[g] = old[g]
    BY <1>1, <1>3 DEF Stored, Same
  <2>3. QED
    BY <1>3, <2>1, <2>2
<1>7. QED
  BY <1>1, <1>2, <1>4, <1>5, <1>6 DEF Files!Write, Stored

\* And so for clear.
LEMMA ClearedFiles ==
  ASSUME Seen, Seen', NEW T, Forest(T), NEW f \in File, Cleared(T, f)
  PROVE  Files!Truncate(all_read, all_read', f)
<1>1. PICK U : Forest(U)' /\ Emptied(T, U, f)
  BY DEF Cleared
<1>2. PICK old, new : old = all_read /\ new = all_read'
  OBVIOUS
<1>3. /\ old = [g \in File |-> [l \in LBlock |-> shown(T[g].es, store, l)]]
      /\ new = [g \in File |-> [l \in LBlock |-> shown(U[g].es, store', l)]]
  BY <1>1, <1>2 DEF Seen, contents, all_read
<1>4. PICK sz, sz2 : /\ sz = [g \in File |-> inode[g].size]
                     /\ sz2 = [g \in File |-> inode'[g].size]
  OBVIOUS
<1>5. sz2 = [sz EXCEPT ![f] = 0]
  BY <1>1, <1>4 DEF Emptied, SameSize
<1>6. new = [old EXCEPT ![f] = [l \in LBlock |-> Zero]]
  <2>1. new[f] = [l \in LBlock |-> Zero]
    BY <1>1, <1>3 DEF Emptied
  <2>2. \A g \in File : g # f => new[g] = old[g]
    BY <1>1, <1>3 DEF Emptied, Same
  <2>3. QED
    BY <1>3, <2>1, <2>2
<1>7. QED
  BY <1>1, <1>2, <1>4, <1>5, <1>6 DEF Files!Truncate, Emptied

\* write_at that succeeds on a file with extents writes what it was given to
\* the blocks it was given, and changes nothing else a reader of any file sees;
\* clear empties the file it was called on and no other.
THEOREM CallsObeyed == Spec => CallsDoAsAsked
<1>1. Inv /\ Seen /\ Seen' /\ [Next]_vars => [as_asked]_vars
  <2> SUFFICES ASSUME Inv, Seen, Seen'
               PROVE  /\ ret' = "written" =>
                           \A f \in RegFile, lo, hi \in Ends, v \in Value :
                               lo < hi /\ write_at(f, lo, hi, v) =>
                                   Files!Write(all_read, all_read', f, lo, hi, v)
                      /\ ret' = "truncated" =>
                           \A f \in RegFile : clear(f) => Files!Truncate(all_read, all_read', f)
    BY Zenon DEF Ends, as_asked
  <2>1. PICK T : Forest(T) /\ Filled(T)
    BY DEF Inv
  <2>2. \A f \in RegFile : f \in File /\ f \notin Dir
    BY FileAssumption DEF File
  <2>3. ASSUME ret' = "written", NEW f \in RegFile, NEW lo \in Ends, NEW hi \in Ends, NEW v \in Value,
               lo < hi, write_at(f, lo, hi, v)
        PROVE  Files!Write(all_read, all_read', f, lo, hi, v)
    <3>1. Wrote(T, f, lo, hi, v)
      BY <2>1, <2>2, <2>3, WriteMoves
    <3>2. QED
      BY <2>1, <2>2, <3>1, WroteFiles
  <2>4. ASSUME NEW f \in RegFile, clear(f)
        PROVE  Files!Truncate(all_read, all_read', f)
    <3>1. Cleared(T, f)
      BY <2>1, <2>2, <2>4, ClearMoves
    <3>2. QED
      BY <2>1, <2>2, <3>1, ClearedFiles
  <2>5. QED
    BY <2>3, <2>4, Zenon
<1>2. QED
  BY <1>1, SeenAlways, Invariance, PTL DEF Spec, CallsDoAsAsked
===============================================================================
