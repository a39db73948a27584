----------------------------- MODULE EasyFsProofs -----------------------------
(***************************************************************************)
(* Proofs about EasyFs, for every device, every number of pointers in an   *)
(* inode and in a block, and any names, offsets and buffers.               *)
(*                                                                         *)
(* The blocks of a file of n data blocks are numbered: data block l is l,  *)
(* the indirect block -1, the double indirect block -2, and the block of   *)
(* pointers number a below it -3 - a.  So they are the numbers of an       *)
(* interval, Nodes(n), and a file of more blocks has more of them.         *)
(***************************************************************************)
EXTENDS EasyFs, SequenceTheorems, FiniteSetTheorems, WellFoundedInduction, TLAPS

\* The blocks of pointers a file of n data blocks has, and all its blocks.
Tables(n) ==
    IF n <= DirectCount THEN 0
    ELSE IF n <= INDIRECT1_BOUND THEN 1 ELSE 2 + ceiling(n - INDIRECT1_BOUND, PerBlock)
Nodes(n) == -Tables(n) .. n - 1

\* Where data block l is below the double indirect block.
row(l) == (l - INDIRECT1_BOUND) \div PerBlock
col(l) == (l - INDIRECT1_BOUND) % PerBlock

\* The pointer to block x of a file is in cell slot(x) of its block above(x);
\* that to the other ones is in the inode.
inner(x) == x >= DirectCount \/ x <= -3
above(x) == IF x <= -3 THEN -2 ELSE IF x < INDIRECT1_BOUND THEN -1 ELSE -3 - row(x)
slot(x) ==
    IF x <= -3 THEN -3 - x ELSE IF x < INDIRECT1_BOUND THEN x - DirectCount ELSE col(x)

\* The pointer to block x of an inode.
pointer(st, ino, x) ==
    IF x >= 0 THEN get_block_id(st, ino, x)
    ELSE IF x = -1 THEN ino.indirect1
    ELSE IF x = -2 THEN ino.indirect2
    ELSE cell(st, ino.indirect2, -3 - x)

-------------------------------------------------------------------------------
\* A set of natural numbers that is not empty has a least element.
LEMMA LeastOf ==
  ASSUME NEW T, T \in SUBSET Nat, T # {}
  PROVE  \E i \in T : \A j \in T : i <= j
<1> DEFINE below == {1 .. k : k \in T}
<1>1. \A k \in Nat : 1 .. k \in FiniteSubsetsOf(Nat)
  BY FS_Interval DEF FiniteSubsetsOf
<1>2. below \subseteq FiniteSubsetsOf(Nat) /\ below # {}
  BY <1>1
<1>3. \E x \in below : \A y \in below : ~(<<y, x>> \in StrictSubsetOrdering(Nat))
  BY <1>2, WFMin, FS_StrictSubsetOrderingWellFounded
<1>4. PICK i \in T : \A j \in T : ~(<<1 .. j, 1 .. i>> \in StrictSubsetOrdering(Nat))
  BY <1>3
<1>5. ASSUME NEW j \in T, j < i
      PROVE  FALSE
  <2>1. i \in Nat /\ j \in Nat
    OBVIOUS
  <2>2. 1 .. j \subseteq 1 .. i /\ i \in 1 .. i /\ i \notin 1 .. j
    BY <1>5, <2>1
  <2>3. 1 .. j \in SUBSET Nat /\ 1 .. i \in SUBSET Nat
    OBVIOUS
  <2>4. <<1 .. j, 1 .. i>> \in StrictSubsetOrdering(Nat)
    BY <2>2, <2>3 DEF StrictSubsetOrdering
  <2>5. QED
    BY <1>4, <2>4
<1>6. QED
  BY <1>4, <1>5

\* Division with remainder.
LEMMA DivMod ==
  ASSUME NEW P \in Nat \ {0}, NEW r \in Nat
  PROVE  /\ r \div P \in Nat /\ r % P \in 0 .. P - 1
         /\ r = P * (r \div P) + (r % P)
OBVIOUS

\* The order of products.
LEMMA Times ==
  ASSUME NEW P \in Nat \ {0}, NEW i \in Nat, NEW j \in Nat
  PROVE  /\ P * i \in Nat /\ P * j \in Nat
         /\ i < j => P * i + P <= P * j
         /\ i <= j => P * i <= P * j
<1>1. P * i \in Nat /\ P * j \in Nat
  OBVIOUS
<1>2. ASSUME i < j PROVE P * i + P <= P * j
  <2>1. PICK d \in Nat : j = i + 1 + d
    <3>1. j - i - 1 \in Nat
      BY <1>2
    <3>2. QED
      BY <3>1
  <2>2. P * j = P * i + P + P * d
    BY <2>1
  <2>3. P * d \in Nat
    OBVIOUS
  <2>4. QED
    BY <1>1, <2>2, <2>3
<1>3. QED
  BY <1>1, <1>2

\* A number built from a quotient and a remainder has them.
LEMMA DivModOf ==
  ASSUME NEW P \in Nat \ {0}, NEW g \in Nat, NEW b \in 0 .. P - 1
  PROVE  /\ P * g + b \in Nat
         /\ (P * g + b) \div P = g
         /\ (P * g + b) % P = b
<1>1. P * g \in Nat
  OBVIOUS
<1>2. PICK r \in Nat : r = P * g + b
  BY <1>1
<1>3. PICK q \in Nat, m \in 0 .. P - 1 : q = r \div P /\ m = r % P /\ r = P * q + m
  BY DivMod
<1>4. ~(g < q) /\ ~(q < g)
  <2>1. g < q => P * g + P <= P * q
    BY Times
  <2>2. q < g => P * q + P <= P * g
    BY Times
  <2>3. P * q \in Nat
    OBVIOUS
  <2>4. QED
    BY <1>1, <1>2, <1>3, <2>1, <2>2, <2>3
<1>5. q = g
  BY <1>4
<1>6. m = b
  BY <1>1, <1>2, <1>3, <1>5
<1>7. QED
  BY <1>2, <1>3, <1>5, <1>6

\* The constants are numbers.
LEMMA Sizes ==
  /\ DirectCount \in Nat \ {0} /\ PerBlock \in Nat \ {0} /\ DataBlocks \in Nat \ {0}
  /\ INDIRECT1_BOUND = DirectCount + PerBlock /\ INDIRECT1_BOUND \in Nat
  /\ INDIRECT2_BOUND \in Nat
  /\ Cell = 0 .. PerBlock - 1 /\ Device = 0 .. DataBlocks
<1>1. PerBlock * PerBlock \in Nat
  BY EasyAssumption
<1>2. QED
  BY <1>1, EasyAssumption DEF INDIRECT1_BOUND, INDIRECT2_BOUND, Cell, Device

\* The row and the column of a data block below the double indirect block.
LEMMA Rows ==
  ASSUME NEW l \in Nat, l >= INDIRECT1_BOUND
  PROVE  /\ row(l) \in Nat /\ col(l) \in Cell
         /\ l = INDIRECT1_BOUND + PerBlock * row(l) + col(l)
         /\ l < INDIRECT2_BOUND <=> row(l) < PerBlock
<1>1. PICK P \in Nat \ {0} : P = PerBlock
  BY Sizes
<1>2. PICK B \in Nat : B = INDIRECT1_BOUND
  BY Sizes
<1>3. PICK r \in Nat : r = l - B
  BY <1>2
<1>4. PICK q \in Nat, m \in 0 .. P - 1 : q = r \div P /\ m = r % P /\ r = P * q + m
  BY DivMod
<1>5. row(l) = q /\ col(l) = m
  BY <1>1, <1>2, <1>3, <1>4 DEF row, col
<1>6. q < P => P * q + P <= P * P
  BY Times
<1>7. P <= q => P * P <= P * q
  BY Times
<1>8. PICK x \in Nat, y \in Nat : x = P * q /\ y = P * P
  OBVIOUS
<1>9. INDIRECT2_BOUND = B + y
  BY <1>1, <1>2, <1>8 DEF INDIRECT2_BOUND
<1>10. l < B + y <=> q < P
  BY ONLY <1>3, <1>4, <1>6, <1>7, <1>8, q \in Nat, P \in Nat, B \in Nat, l \in Nat, x \in Nat, y \in Nat,
          m \in 0 .. P - 1
<1>11. l = B + P * q + m
  BY ONLY <1>3, <1>4, <1>8, B \in Nat, l \in Nat, x \in Nat, m \in 0 .. P - 1, P \in Nat
<1>12. QED
  BY <1>1, <1>2, <1>5, <1>9, <1>10, <1>11, Sizes

\* Data blocks in row and column order.
LEMMA RowOrder ==
  ASSUME NEW l \in Nat, l >= INDIRECT1_BOUND, NEW k \in Nat, k >= INDIRECT1_BOUND
  PROVE  /\ l <= k => row(l) <= row(k)
         /\ row(l) = row(k) /\ col(l) = col(k) => l = k
<1>1. PICK P \in Nat \ {0}, B \in Nat : P = PerBlock /\ B = INDIRECT1_BOUND
  BY Sizes
<1>2. PICK q \in Nat, m \in 0 .. P - 1 : q = row(l) /\ m = col(l) /\ l = B + P * q + m
  BY <1>1, Rows, Sizes, ZenonT(40)
<1>3. PICK r \in Nat, o \in 0 .. P - 1 : r = row(k) /\ o = col(k) /\ k = B + P * r + o
  BY <1>1, Rows, Sizes, ZenonT(40)
<1>4. r < q => P * r + P <= P * q
  BY Times
<1>5. PICK x \in Nat, y \in Nat : x = P * q /\ y = P * r
  OBVIOUS
<1>6. l <= k => q <= r
  BY ONLY <1>2, <1>3, <1>4, <1>5, x \in Nat, y \in Nat, q \in Nat, r \in Nat, B \in Nat, P \in Nat,
          m \in 0 .. P - 1, o \in 0 .. P - 1
<1>7. QED
  BY <1>2, <1>3, <1>6

\* The next data block is in the next column, or the first one of the next row.
LEMMA RowStep ==
  ASSUME NEW l \in Nat, l > INDIRECT1_BOUND
  PROVE  row(l) = IF col(l) = 0 THEN row(l - 1) + 1 ELSE row(l - 1)
<1>1. PICK P \in Nat \ {0}, B \in Nat : P = PerBlock /\ B = INDIRECT1_BOUND
  BY Sizes
<1>2. l - 1 \in Nat /\ l - 1 >= B
  BY <1>1
<1>3. PICK q \in Nat, m \in 0 .. P - 1 : q = row(l - 1) /\ m = col(l - 1) /\ l - 1 = B + P * q + m
  BY <1>1, <1>2, Rows, Sizes, ZenonT(40)
<1>4. PICK x \in Nat, y \in Nat : x = P * q /\ y = P * (q + 1) /\ y = x + P
  OBVIOUS
<1>4a. l - 1 = B + x + m
  BY <1>3, <1>4
<1>5. row(l) = (l - B) \div P /\ col(l) = (l - B) % P
  BY <1>1 DEF row, col
<1>6. CASE m + 1 < P
  <2>1. l - B = x + (m + 1)
    BY ONLY <1>4a, x \in Nat, B \in Nat, l \in Nat, P \in Nat, m \in 0 .. P - 1
  <2>2. m + 1 \in 0 .. P - 1
    BY ONLY <1>6, P \in Nat, m \in 0 .. P - 1
  <2>3. (P * q + (m + 1)) \div P = q /\ (P * q + (m + 1)) % P = m + 1
    BY <2>2, DivModOf
  <2>4. row(l) = q /\ col(l) = m + 1
    BY ONLY <1>4, <1>5, <2>1, <2>3
  <2>5. m + 1 # 0
    BY <2>2
  <2>6. QED
    BY ONLY <1>3, <2>4, <2>5
<1>7. CASE m + 1 = P
  <2>1. l - B = y + 0
    BY ONLY <1>4, <1>4a, <1>7, x \in Nat, y \in Nat, B \in Nat, l \in Nat, P \in Nat, m \in 0 .. P - 1
  <2>2. (P * (q + 1) + 0) \div P = q + 1 /\ (P * (q + 1) + 0) % P = 0
    BY DivModOf
  <2>3. row(l) = q + 1 /\ col(l) = 0
    BY ONLY <1>4, <1>5, <2>1, <2>2
  <2>4. QED
    BY <1>3, <2>3
<1>8. QED
  BY <1>6, <1>7

\* The first data block below the double indirect block is the first of its row.
LEMMA RowFirst == row(INDIRECT1_BOUND) = 0 /\ col(INDIRECT1_BOUND) = 0
<1>1. PICK P \in Nat \ {0}, B \in Nat : P = PerBlock /\ B = INDIRECT1_BOUND
  BY Sizes
<1>2. (P * 0 + 0) \div P = 0 /\ (P * 0 + 0) % P = 0
  BY DivModOf
<1>3. QED
  BY <1>1, <1>2 DEF row, col

\* There is a block of pointers for every row.
LEMMA TablesOf ==
  ASSUME NEW n \in Nat
  PROVE  /\ Tables(n) \in Nat
         /\ n > INDIRECT1_BOUND =>
              /\ Tables(n) = 3 + row(n - 1) /\ row(n - 1) \in Nat
              /\ ceiling(n - INDIRECT1_BOUND, PerBlock) = row(n - 1) + 1
<1>1. PICK P \in Nat \ {0}, B \in Nat : P = PerBlock /\ B = INDIRECT1_BOUND
  BY Sizes
<1>2. ASSUME n > B
      PROVE  ceiling(n - B, P) = row(n - 1) + 1 /\ row(n - 1) \in Nat
  <2>1. n - 1 \in Nat /\ n - 1 >= B
    BY <1>2
  <2>2. PICK q \in Nat, m \in 0 .. P - 1 : q = row(n - 1) /\ n - 1 = B + P * q + m
    BY <1>1, <2>1, Rows, Sizes
  <2>3. PICK x \in Nat, y \in Nat : x = P * q /\ y = P * (q + 1) /\ y = x + P
    OBVIOUS
  <2>3a. n - 1 = B + x + m
    BY <2>2, <2>3
  <2>4. (n - B) + P - 1 = y + m
    BY ONLY <2>3, <2>3a, x \in Nat, y \in Nat, B \in Nat, n \in Nat, P \in Nat, m \in 0 .. P - 1
  <2>5. (P * (q + 1) + m) \div P = q + 1
    BY DivModOf
  <2>6. QED
    BY <2>2, <2>3, <2>4, <2>5 DEF ceiling
<1>3. n <= DirectCount => n <= B
  BY <1>1, Sizes
<1>4. QED
  BY <1>1, <1>2, <1>3, Sizes DEF Tables

\* The blocks of a file, one kind after the other.
LEMMA NodesOf ==
  ASSUME NEW n \in Nat, NEW x \in Int
  PROVE  x \in Nodes(n) <=>
           \/ x >= 0 /\ x < n
           \/ x = -1 /\ n > DirectCount
           \/ x = -2 /\ n > INDIRECT1_BOUND
           \/ x <= -3 /\ n > INDIRECT1_BOUND /\ -3 - x <= row(n - 1)
<1>1. Tables(n) \in Nat
  BY TablesOf
<1>2. x \in Nodes(n) <=> -Tables(n) <= x /\ x <= n - 1
  BY <1>1 DEF Nodes
<1>3. CASE n <= DirectCount
  BY <1>2, <1>3, Sizes DEF Tables
<1>4. CASE n > DirectCount /\ n <= INDIRECT1_BOUND
  BY <1>2, <1>4, Sizes DEF Tables
<1>5. CASE n > INDIRECT1_BOUND
  <2>1. PICK r \in Nat : r = row(n - 1) /\ Tables(n) = 3 + r
    BY <1>5, TablesOf
  <2>2. n > DirectCount
    BY <1>5, Sizes
  <2>3. QED
    BY <1>2, <1>5, <2>1, <2>2
<1>6. QED
  BY <1>3, <1>4, <1>5, Sizes

\* A file has the blocks of pointers above its blocks.
LEMMA NodesClosed ==
  ASSUME NEW n \in Nat, NEW x \in Nodes(n), inner(x)
  PROVE  /\ above(x) \in Nodes(n) /\ above(x) < 0
         /\ n <= INDIRECT2_BOUND => slot(x) \in Cell
<1>1. x \in Int
  BY TablesOf DEF Nodes
<1>2. CASE x <= -3
  <2>1. n > INDIRECT1_BOUND /\ -3 - x <= row(n - 1)
    BY <1>1, <1>2, NodesOf
  <2>2. -2 \in Nodes(n)
    BY <2>1, NodesOf
  <2>3. n - 1 \in Nat /\ n - 1 >= INDIRECT1_BOUND
    BY <2>1, Sizes
  <2>4. n <= INDIRECT2_BOUND => n - 1 < INDIRECT2_BOUND
    BY <2>1, Sizes
  <2>5. n <= INDIRECT2_BOUND => row(n - 1) < PerBlock
    BY <2>3, <2>4, Rows
  <2>6. row(n - 1) \in Nat
    BY <2>3, Rows
  <2>7. n <= INDIRECT2_BOUND => -3 - x \in 0 .. PerBlock - 1
    BY <1>1, <1>2, <2>1, <2>5, <2>6, Sizes
  <2>8. QED
    BY <1>2, <2>2, <2>7, Sizes DEF above, slot
<1>3. CASE x > -3 /\ x < INDIRECT1_BOUND
  <2>1. x >= DirectCount
    BY <1>1, <1>3 DEF inner
  <2>2. x < n
    BY <1>1, <2>1, NodesOf, Sizes
  <2>3. -1 \in Nodes(n)
    BY <1>1, <2>1, <2>2, NodesOf, Sizes
  <2>4. above(x) = -1 /\ slot(x) = x - DirectCount
    BY <1>1, <1>3 DEF above, slot
  <2>5. QED
    BY <1>1, <1>3, <2>1, <2>3, <2>4, Sizes
<1>4. CASE x >= INDIRECT1_BOUND
  <2>1. x \in Nat /\ x < n /\ n > INDIRECT1_BOUND
    BY <1>1, <1>4, NodesOf, Sizes
  <2>2. n - 1 \in Nat /\ n - 1 >= INDIRECT1_BOUND /\ x <= n - 1
    BY <1>4, <2>1, Sizes
  <2>3. row(x) \in Nat /\ row(n - 1) \in Nat /\ row(x) <= row(n - 1) /\ col(x) \in Cell
    BY <1>4, <2>1, <2>2, Rows, RowOrder
  <2>4. above(x) = -3 - row(x) /\ slot(x) = col(x)
    BY <1>4, <2>1, Sizes DEF above, slot
  <2>5. PICK r \in Nat : r = row(x)
    BY <2>3
  <2>6. -3 - r \in Int /\ -3 - r <= -3 /\ -3 - (-3 - r) = r
    OBVIOUS
  <2>7. -3 - r \in Nodes(n)
    BY <2>1, <2>3, <2>5, <2>6, NodesOf
  <2>8. QED
    BY <2>3, <2>4, <2>5, <2>6, <2>7
<1>5. QED
  BY <1>1, <1>2, <1>3, <1>4, Sizes

\* No two blocks have their pointer in the same cell.
LEMMA SlotUnique ==
  ASSUME NEW x \in Int, NEW y \in Int, inner(x), inner(y), above(x) = above(y), slot(x) = slot(y)
  PROVE  x = y
<1>1. PICK D \in Nat, B \in Nat : D = DirectCount /\ B = INDIRECT1_BOUND /\ D <= B
  BY Sizes
<1> DEFINE kind(z, r, c) ==
        \/ z <= -3 /\ above(z) = -2 /\ slot(z) = -3 - z
        \/ z >= D /\ z < B /\ above(z) = -1 /\ slot(z) = z - D
        \/ z >= B /\ r = row(z) /\ c = col(z) /\ above(z) = -3 - r /\ slot(z) = c
<1>2. ASSUME NEW z \in Int, inner(z)
      PROVE  \E r \in Nat, c \in Int : kind(z, r, c)
  <2>1. CASE z < B
    BY <1>1, <1>2, <2>1 DEF inner, above, slot
  <2>2. CASE z >= B
    <3>1. z \in Nat /\ z >= INDIRECT1_BOUND
      BY <1>1, <2>2
    <3>2. row(z) \in Nat /\ col(z) \in Int
      BY <3>1, Rows, Sizes
    <3>3. above(z) = -3 - row(z) /\ slot(z) = col(z)
      BY <1>1, <3>1 DEF above, slot
    <3>4. QED
      BY <1>1, <3>1, <3>2, <3>3
  <2>3. QED
    BY <1>1, <2>1, <2>2
<1>3. PICK r \in Nat, c \in Int : kind(x, r, c)
  BY <1>2
<1>4. PICK q \in Nat, d \in Int : kind(y, q, d)
  BY <1>2
<1>5. CASE x >= B /\ y >= B
  <2>1. r = row(x) /\ c = col(x) /\ q = row(y) /\ d = col(y) /\ r = q /\ c = d
    BY <1>1, <1>3, <1>4, <1>5
  <2>2. x \in Nat /\ y \in Nat /\ x >= INDIRECT1_BOUND /\ y >= INDIRECT1_BOUND
    BY <1>1, <1>5
  <2>3. QED
    BY <2>1, <2>2, RowOrder
<1>6. CASE ~(x >= B /\ y >= B)
  BY <1>1, <1>3, <1>4, <1>6
<1>7. QED
  BY <1>5, <1>6

-------------------------------------------------------------------------------
\* The first n elements of f, as a sequence.
first(f, n) == [i \in 1 .. n |-> f[i]]

Lists(s, f, n, S) == s \in Seq(S) /\ Len(s) = n /\ \A i \in 1 .. n : s[i] = f[i] /\ f[i] \in S

\* The first n values of a function are a sequence.
LEMMA FirstIsSeq ==
  ASSUME NEW S, NEW f, NEW n \in Nat, \A i \in 1 .. n : f[i] \in S
  PROVE  Lists(first(f, n), f, n, S)
<1>1. PICK s : s = first(f, n)
  OBVIOUS
<1>2. s \in [1 .. n -> S] /\ \A i \in 1 .. n : s[i] = f[i]
  BY <1>1 DEF first
<1>3. s \in Seq(S) /\ Len(s) = n
  BY <1>2
<1>4. QED
  BY <1>1, <1>2, <1>3 DEF Lists

\* Two sequences with the same elements.
LEMMA SameSeq ==
  ASSUME NEW S, NEW s \in Seq(S), NEW R, NEW t \in Seq(R), Len(s) = Len(t),
         \A i \in 1 .. Len(s) : s[i] = t[i]
  PROVE  s = t
<1>1. DOMAIN s = 1 .. Len(s) /\ DOMAIN t = 1 .. Len(t)
  OBVIOUS
<1>2. s = [i \in 1 .. Len(s) |-> s[i]] /\ t = [i \in 1 .. Len(t) |-> t[i]]
  BY <1>1
<1>3. QED
  BY <1>2

\* One element more.
LEMMA FirstNext ==
  ASSUME NEW f, NEW n \in Nat
  PROVE  first(f, n + 1) = first(f, n) \o <<f[n + 1]>>
<1> DEFINE S == {f[i] : i \in 1 .. n + 1}
<1>1. \A i \in 1 .. n + 1 : f[i] \in S
  OBVIOUS
<1>2. f[n + 1] \in S
  <2>1. n + 1 \in 1 .. n + 1
    OBVIOUS
  <2>2. QED
    BY <2>1
<1> HIDE DEF S
<1>3. PICK s : s = first(f, n) /\ Lists(s, f, n, S)
  <2>1. \A i \in 1 .. n : f[i] \in S
    BY <1>1
  <2>2. QED
    BY <2>1, FirstIsSeq, Zenon
<1>4. PICK t : t = first(f, n + 1) /\ Lists(t, f, n + 1, S)
  <2>1. n + 1 \in Nat
    OBVIOUS
  <2>2. QED
    BY <1>1, <2>1, FirstIsSeq, Zenon
<1> USE DEF Lists
<1>5. PICK x \in S : x = f[n + 1]
  BY <1>2
<1>6. PICK u : u = s \o <<x>>
  OBVIOUS
<1>7. /\ u \in Seq(S) /\ Len(u) = n + 1
      /\ \A i \in 1 .. n + 1 : u[i] = IF i <= n THEN s[i] ELSE x
  BY <1>3, <1>6
<1>8. \A i \in 1 .. Len(u) : u[i] = t[i]
  BY <1>3, <1>4, <1>5, <1>7
<1>9. u = t
  BY <1>4, <1>7, <1>8, SameSeq
<1>10. QED
  BY <1>3, <1>4, <1>5, <1>6, <1>9

\* The steps of FlattenSeq on the first n elements of f.
flattened(f, n) ==
    CHOOSE g : g = [i \in 1 .. n |-> IF i = 1 THEN f[i] ELSE g[i - 1] \o f[i]]

Flattens(g, f, n) == \A i \in 1 .. n : g[i] = IF i = 1 THEN f[i] ELSE g[i - 1] \o f[i]

\* flattened is one concatenation after the other.
LEMMA FlattenSteps ==
  ASSUME NEW f, NEW n \in Nat
  PROVE  Flattens(flattened(f, n), f, n)
<1> DEFINE rec(g, k) == g = [i \in 1 .. k |-> IF i = 1 THEN f[i] ELSE g[i - 1] \o f[i]]
<1>1. \E g : rec(g, n)
  <2> DEFINE bad == {i \in Nat : ~\E g : rec(g, i)}
  <2>1. SUFFICES ASSUME bad # {} PROVE FALSE
    OBVIOUS
  <2>2. PICK i \in bad : \A j \in bad : i <= j
    <3>1. bad \in SUBSET Nat
      OBVIOUS
    <3> HIDE DEF bad
    <3>2. QED
      BY <2>1, <3>1, LeastOf
  <2>3. i \in Nat /\ \A g : ~rec(g, i)
    OBVIOUS
  <2>4. i # 0
    <3>1. rec([k \in {} |-> f[k]], 0)
      <4>1. 1 .. 0 = {}
        OBVIOUS
      <4>2. QED
        BY <4>1
    <3>2. QED
      BY <2>3, <3>1
  <2>5. i - 1 \in Nat /\ ~(i <= i - 1)
    BY <2>3, <2>4
  <2>6. i - 1 \notin bad
    <3> HIDE DEF bad
    <3> QED
      BY <2>2, <2>5
  <2>7. PICK g : rec(g, i - 1)
    BY <2>5, <2>6
  <2> DEFINE h == [k \in 1 .. i |-> IF k = i THEN (IF k = 1 THEN f[k] ELSE g[k - 1] \o f[k]) ELSE g[k]]
  <2>8. ASSUME NEW k \in 1 .. i
        PROVE  h[k] = IF k = 1 THEN f[k] ELSE h[k - 1] \o f[k]
    <3>1. k # 1 => k - 1 \in 1 .. i /\ k - 1 # i
      BY <2>3
    <3>2. k # 1 => h[k - 1] = g[k - 1]
      BY <3>1
    <3>3. CASE k = i
      BY <3>2, <3>3
    <3>4. CASE k # i
      <4>1. k \in 1 .. i - 1 /\ h[k] = g[k]
        BY <2>3, <3>4
      <4>2. g[k] = IF k = 1 THEN f[k] ELSE g[k - 1] \o f[k]
        BY <2>7, <4>1
      <4>3. QED
        BY <3>2, <4>1, <4>2
    <3>5. QED
      BY <3>3, <3>4
  <2>9. rec(h, i)
    <3>1. h = [k \in 1 .. i |-> h[k]]
      OBVIOUS
    <3> HIDE DEF h
    <3>2. QED
      BY <2>8, <3>1
  <2>10. QED
    BY <2>3, <2>9
<1>2. PICK h : h = flattened(f, n)
  OBVIOUS
<1>3. rec(h, n)
  <2>1. h = CHOOSE g : rec(g, n)
    BY <1>2 DEF flattened
  <2> HIDE DEF rec
  <2>2. QED
    BY <1>1, <2>1
<1>4. h = [i \in 1 .. n |-> IF i = 1 THEN f[i] ELSE h[i - 1] \o f[i]]
  BY <1>3
<1>5. \A i \in 1 .. n : h[i] = IF i = 1 THEN f[i] ELSE h[i - 1] \o f[i]
  BY <1>4
<1>6. QED
  BY <1>2, <1>5 DEF Flattens

\* FlattenSeq of one sequence more.
LEMMA FlattenNext ==
  ASSUME NEW S, NEW f, NEW n \in Nat, \A i \in 1 .. n + 1 : f[i] \in Seq(S)
  PROVE  /\ FlattenSeq(first(f, n + 1)) = FlattenSeq(first(f, n)) \o f[n + 1]
         /\ FlattenSeq(first(f, 0)) = <<>>
<1>1. ASSUME NEW m \in Nat, m # 0, m <= n + 1
      PROVE  FlattenSeq(first(f, m)) = flattened(f, m)[m]
  <2>1. PICK s : s = first(f, m) /\ Lists(s, f, m, Seq(S))
    <3>1. \A i \in 1 .. m : f[i] \in Seq(S)
      BY <1>1
    <3>2. QED
      BY <3>1, FirstIsSeq, Zenon
  <2> USE DEF Lists
  <2>2. FlattenSeq(s) = flattened(s, m)[m]
    BY <1>1, <2>1, Zenon DEF FlattenSeq, flattened
  <2>3. \A g : [i \in 1 .. m |-> IF i = 1 THEN f[i] ELSE g[i - 1] \o f[i]]
             = [i \in 1 .. m |-> IF i = 1 THEN s[i] ELSE g[i - 1] \o s[i]]
    BY <2>1
  <2>4. flattened(s, m) = flattened(f, m)
    BY <2>3, Zenon DEF flattened
  <2>5. QED
    BY <2>1, <2>2, <2>4
<1>2. FlattenSeq(first(f, 0)) = <<>>
  <2>1. first(f, 0) = <<>>
    BY DEF first
  <2>2. Len(<<>>) = 0
    OBVIOUS
  <2>3. QED
    BY <2>1, <2>2 DEF FlattenSeq
<1>3. CASE n = 0
  <2>1. FlattenSeq(first(f, 1)) = flattened(f, 1)[1]
    BY <1>1
  <2>2. flattened(f, 1)[1] = f[1]
    <3>1. 1 \in Nat /\ 1 \in 1 .. 1
      OBVIOUS
    <3>2. Flattens(flattened(f, 1), f, 1)
      BY <3>1, FlattenSteps, Zenon
    <3>3. QED
      BY <3>1, <3>2 DEF Flattens
  <2>3. f[1] \in Seq(S)
    BY <1>3
  <2>4. <<>> \o f[1] = f[1]
    BY <2>3
  <2>5. QED
    BY <1>2, <1>3, <2>1, <2>2, <2>4
<1>4. CASE n # 0
  <2>1. PICK g : g = flattened(f, n + 1) /\ Flattens(g, f, n + 1)
    <3>1. n + 1 \in Nat
      OBVIOUS
    <3>2. QED
      BY <3>1, FlattenSteps, Zenon
  <2>2. PICK h : h = flattened(f, n) /\ Flattens(h, f, n)
    BY FlattenSteps, Zenon
  <2> USE DEF Flattens
  <2>3. h[n] = g[n]
    <3> DEFINE bad == {i \in 1 .. n : h[i] # g[i]}
    <3>1. SUFFICES ASSUME bad # {} PROVE FALSE
      BY <1>4
    <3>2. PICK i \in bad : \A j \in bad : i <= j
      <4>1. bad \in SUBSET Nat
        OBVIOUS
      <4> HIDE DEF bad
      <4>2. QED
        BY <3>1, <4>1, LeastOf
    <3>3. i \in 1 .. n /\ h[i] # g[i]
      OBVIOUS
    <3>4. i # 1 => i - 1 \in 1 .. n /\ ~(i <= i - 1)
      BY <3>3
    <3>5. i # 1 => h[i - 1] = g[i - 1]
      BY <3>2, <3>4
    <3>6. i \in 1 .. n + 1
      BY <3>3
    <3>7. QED
      BY <2>1, <2>2, <3>3, <3>5, <3>6
  <2>4. n + 1 \in 1 .. n + 1 /\ n + 1 # 1 /\ (n + 1) - 1 = n
    BY <1>4
  <2>5. g[n + 1] = g[n] \o f[n + 1]
    BY <2>1, <2>4
  <2>6. FlattenSeq(first(f, n + 1)) = g[n + 1] /\ FlattenSeq(first(f, n)) = h[n]
    BY <1>1, <1>4, <2>1, <2>2
  <2>7. QED
    BY <1>2, <2>3, <2>5, <2>6
<1>5. QED
  BY <1>2, <1>3, <1>4

-------------------------------------------------------------------------------
\* The place of block x, as increase_size names it.
place(x) ==
    IF x >= INDIRECT1_BOUND THEN <<"indirect2", row(x), col(x)>>
    ELSE IF x >= DirectCount THEN <<"indirect1", x - DirectCount>>
    ELSE IF x >= 0 THEN <<"direct", x>>
    ELSE IF x = -1 THEN <<"indirect1">>
    ELSE IF x = -2 THEN <<"indirect2">>
    ELSE <<"indirect2", -3 - x>>

\* The blocks a file gets with data block t: the new blocks of pointers first.
grown(t) == Tables(t + 1) - Tables(t)
fresh(t) == [i \in 1 .. grown(t) + 1 |-> IF i = grown(t) + 1 THEN t ELSE -Tables(t) - i]

Place == {place(x) : x \in Int}
fresh_places(t) == [i \in 1 .. grown(t) + 1 |-> place(fresh(t)[i])]

\* How many blocks of pointers come with data block t.
LEMMA Grown ==
  ASSUME NEW t \in Nat
  PROVE  grown(t) = IF t = DirectCount THEN 1
                    ELSE IF t = INDIRECT1_BOUND THEN 2
                    ELSE IF t > INDIRECT1_BOUND /\ col(t) = 0 THEN 1 ELSE 0
<1>1. PICK D \in Nat \ {0}, B \in Nat : D = DirectCount /\ B = INDIRECT1_BOUND /\ D < B
  BY Sizes
<1>2. t + 1 \in Nat /\ (t + 1) - 1 = t
  OBVIOUS
<1>3. CASE t <= B
  <2>1. t < B => Tables(t + 1) = IF t + 1 <= D THEN 0 ELSE 1
    BY <1>1 DEF Tables
  <2>2. Tables(t) = IF t <= D THEN 0 ELSE 1
    BY <1>1, <1>3 DEF Tables
  <2>3. t = B => Tables(t + 1) = 3
    BY <1>1, <1>2, TablesOf, RowFirst
  <2>4. QED
    BY <1>1, <1>3, <2>1, <2>2, <2>3 DEF grown
<1>4. CASE t > B
  <2>1. PICK r \in Nat : r = row(t - 1) /\ Tables(t) = 3 + r
    BY <1>1, <1>4, TablesOf
  <2>2. PICK q \in Nat : q = row(t) /\ Tables(t + 1) = 3 + q
    BY <1>1, <1>2, <1>4, TablesOf
  <2>3. q = IF col(t) = 0 THEN r + 1 ELSE r
    BY <1>1, <1>4, <2>1, <2>2, RowStep
  <2>4. grown(t) = q - r
    BY <2>1, <2>2 DEF grown
  <2>5. QED
    BY <1>1, <1>4, <2>3, <2>4
<1>5. QED
  BY <1>1, <1>3, <1>4

\* They are the blocks by which a file of t + 1 data blocks has more.
LEMMA Fresh ==
  ASSUME NEW t \in Nat
  PROVE  /\ grown(t) \in 0 .. 2 /\ Tables(t) \in Nat
         /\ Nodes(t) = -Tables(t) .. t - 1
         /\ Nodes(t + 1) = -Tables(t) - grown(t) .. t
         /\ Tables(t + 1) = Tables(t) + grown(t)
         /\ \A i \in 1 .. grown(t) + 1 :
              fresh(t)[i] = IF i = grown(t) + 1 THEN t ELSE -Tables(t) - i
<1>1. grown(t) \in 0 .. 2
  BY Grown
<1>2. Tables(t) \in Nat /\ Tables(t + 1) \in Nat
  BY TablesOf
<1>3. Tables(t + 1) = Tables(t) + grown(t)
  BY <1>1, <1>2 DEF grown
<1>4. Nodes(t + 1) = -Tables(t) - grown(t) .. t
  BY <1>1, <1>2, <1>3 DEF Nodes
<1>5. QED
  BY <1>1, <1>2, <1>3, <1>4 DEF Nodes, fresh

\* The pointer to a new block is in the inode, or in a block that is there
\* before.
LEMMA FreshOrder ==
  ASSUME NEW t \in Nat, NEW i \in 1 .. grown(t) + 1, inner(fresh(t)[i])
  PROVE  above(fresh(t)[i]) \in Nodes(t) \/ \E j \in 1 .. i - 1 : fresh(t)[j] = above(fresh(t)[i])
<1>1. PICK k \in 0 .. 2, T \in Nat : /\ k = grown(t) /\ T = Tables(t)
                                     /\ Nodes(t) = -T .. t - 1 /\ Nodes(t + 1) = -T - k .. t
                                     /\ \A j \in 1 .. k + 1 : fresh(t)[j] = IF j = k + 1 THEN t ELSE -T - j
  BY Fresh
<1>2. PICK x \in Int : x = fresh(t)[i] /\ x = IF i = k + 1 THEN t ELSE -T - i
  BY <1>1
<1>3. x \in Nodes(t + 1)
  BY <1>1, <1>2
<1>4. t + 1 \in Nat
  OBVIOUS
<1>5. PICK y \in Int : y = above(x) /\ y \in Nodes(t + 1) /\ y < 0
  <2>1. above(x) \in Nodes(t + 1) /\ above(x) < 0
    BY <1>2, <1>3, <1>4, NodesClosed
  <2>2. QED
    BY <1>1, <2>1
<1>6. x <= -3 => y = -2
  BY <1>5 DEF above
<1>7. CASE y \in Nodes(t)
  BY <1>2, <1>5, <1>7
<1>8. CASE y \notin Nodes(t)
  <2>1. PICK j \in 1 .. k : y = -T - j
    <3>1. -T - y \in 1 .. k
      BY <1>1, <1>5, <1>8, SMTT(30)
    <3>2. y = -T - (-T - y)
      OBVIOUS
    <3>3. QED
      BY <3>1, <3>2
  <2>2. j \in 1 .. i - 1
    <3>1. CASE i = k + 1
      BY <1>1, <2>1, <3>1
    <3>2. CASE i # k + 1
      <4>1. x = -T - i /\ x < 0
        BY <1>1, <1>2, <3>2
      <4>2. x <= -3
        BY <1>2, <4>1, Sizes DEF inner
      <4>3. QED
        BY <1>1, <1>6, <2>1, <4>1, <4>2
    <3>3. QED
      BY <3>1, <3>2
  <2>3. fresh(t)[j] = -T - j
    BY <1>1, <2>1, SMTT(30)
  <2>4. QED
    BY <1>2, <1>5, <2>1, <2>2, <2>3
<1>9. QED
  BY <1>7, <1>8

\* The places of the blocks that come with data block t.
LEMMA FreshPlaces ==
  ASSUME NEW t \in Nat
  PROVE  fresh_places(t) =
           IF t = DirectCount THEN <<place(-1), place(t)>>
           ELSE IF t = INDIRECT1_BOUND THEN <<place(-2), place(-3), place(t)>>
           ELSE IF t > INDIRECT1_BOUND /\ col(t) = 0 THEN <<place(-3 - row(t)), place(t)>>
           ELSE <<place(t)>>
<1>1. PICK D \in Nat \ {0}, B \in Nat : D = DirectCount /\ B = INDIRECT1_BOUND /\ D < B
  BY Sizes
<1>2. PICK k \in 0 .. 2, T \in Nat : /\ k = grown(t) /\ T = Tables(t)
                                     /\ \A j \in 1 .. k + 1 : fresh(t)[j] = IF j = k + 1 THEN t ELSE -T - j
  BY Fresh
<1>3. k = IF t = D THEN 1 ELSE IF t = B THEN 2 ELSE IF t > B /\ col(t) = 0 THEN 1 ELSE 0
  BY <1>1, <1>2, Grown
<1>4. fresh_places(t) = [i \in 1 .. k + 1 |-> place(IF i = k + 1 THEN t ELSE -T - i)]
  BY <1>2 DEF fresh_places
<1> DEFINE p(i) == place(IF i = k + 1 THEN t ELSE -T - i)
<1>5. /\ k = 0 => fresh_places(t) = <<p(1)>>
      /\ k = 1 => fresh_places(t) = <<p(1), p(2)>>
      /\ k = 2 => fresh_places(t) = <<p(1), p(2), p(3)>>
  <2> HIDE DEF p
  <2>1. fresh_places(t) = [i \in 1 .. k + 1 |-> p(i)]
    BY <1>4 DEF p
  <2>2. k = 0 => fresh_places(t) = <<p(1)>>
    BY <2>1
  <2>3. k = 1 => fresh_places(t) = <<p(1), p(2)>>
    BY <2>1
  <2>4. k = 2 => fresh_places(t) = <<p(1), p(2), p(3)>>
    BY <2>1
  <2>5. QED
    BY <2>2, <2>3, <2>4
<1>6. CASE t = D
  <2>1. T = 0 /\ k = 1 /\ k + 1 = 2
    BY <1>1, <1>2, <1>3, <1>6 DEF Tables
  <2>2. p(1) = place(-1) /\ p(2) = place(t)
    BY <2>1
  <2>3. QED
    BY <1>1, <1>5, <1>6, <2>1, <2>2
<1>7. CASE t = B
  <2>1. T = 1 /\ k = 2 /\ k + 1 = 3 /\ t # D
    BY <1>1, <1>2, <1>3, <1>7 DEF Tables
  <2>2. p(1) = place(-2) /\ p(2) = place(-3) /\ p(3) = place(t)
    BY <2>1
  <2>3. QED
    BY <1>1, <1>5, <1>7, <2>1, <2>2
<1>8. CASE t > B /\ col(t) = 0
  <2>1. k = 1 /\ k + 1 = 2 /\ t # D /\ t # B
    BY <1>1, <1>3, <1>8
  <2>2. PICK r \in Nat : r = row(t - 1) /\ T = 3 + r
    BY <1>1, <1>2, <1>8, TablesOf
  <2>3. row(t) = r + 1
    BY <1>1, <1>8, <2>2, RowStep
  <2>4. -T - 1 = -3 - row(t)
    BY <2>2, <2>3
  <2>5. p(1) = place(-3 - row(t)) /\ p(2) = place(t)
    BY <2>1, <2>4
  <2>6. QED
    BY <1>1, <1>5, <1>8, <2>1, <2>5
<1>9. CASE t # D /\ t # B /\ ~(t > B /\ col(t) = 0)
  <2>1. k = 0 /\ k + 1 = 1
    BY <1>3, <1>9
  <2>2. p(1) = place(t)
    BY <2>1
  <2>3. QED
    BY <1>1, <1>5, <1>9, <2>1, <2>2
<1>10. QED
  BY <1>6, <1>7, <1>8, <1>9

\* Every block has a place.
LEMMA PlaceType ==
  ASSUME NEW x \in Int
  PROVE  place(x) \in Place
BY Zenon DEF Place

\* The direct places of a file that grows.
LEMMA DirectPlaces ==
  ASSUME NEW c \in Nat, NEW t \in Nat, c <= t
  PROVE  /\ direct_places(c, t) \in Seq(Place)
         /\ direct_places(c, c) = <<>>
         /\ t < DirectCount => direct_places(c, t + 1) = direct_places(c, t) \o <<place(t)>>
         /\ t >= DirectCount => direct_places(c, t + 1) = direct_places(c, t)
<1>1. PICK D \in Nat \ {0}, B \in Nat : D = DirectCount /\ B = INDIRECT1_BOUND /\ D < B
  BY Sizes
<1> DEFINE f == [i \in 1 .. t + 1 |-> <<"direct", c + i - 1>>]
           len(u) == beyond(minimum(u, D), c)
<1>2. /\ len(t) \in Nat /\ len(t) <= t /\ len(c) = 0
      /\ t < D => len(t + 1) = len(t) + 1 /\ len(t) = t - c
      /\ t >= D => len(t + 1) = len(t)
      /\ \A i \in 1 .. len(t) : c + i - 1 \in 0 .. D - 1
  BY <1>1 DEF beyond, minimum
<1>3. \A u : direct_places(c, u) = [i \in 1 .. len(u) |-> <<"direct", c + i - 1>>]
  BY <1>1, Zenon DEF direct_places
<1>4. ASSUME NEW n \in Nat, n <= t + 1
      PROVE  first(f, n) = [i \in 1 .. n |-> <<"direct", c + i - 1>>]
  BY <1>4 DEF first
<1>5. \A x \in 0 .. D - 1 : place(x) = <<"direct", x>> /\ place(x) \in Place
  <2>1. \A x \in 0 .. D - 1 : place(x) = <<"direct", x>>
    BY <1>1 DEF place
  <2>2. \A x \in 0 .. D - 1 : place(x) \in Place
    BY PlaceType
  <2>3. QED
    BY <2>1, <2>2
<1>6. direct_places(c, t) = first(f, len(t))
  <2>1. len(t) <= t + 1
    BY <1>2
  <2> HIDE DEF len, f
  <2>2. first(f, len(t)) = [i \in 1 .. len(t) |-> <<"direct", c + i - 1>>]
    BY <1>2, <1>4, <2>1
  <2>3. QED
    BY <1>3, <2>2
<1>7. direct_places(c, t) \in Seq(Place)
  <2>1. \A i \in 1 .. len(t) : f[i] \in Place
    <3>1. SUFFICES ASSUME NEW i \in 1 .. len(t) PROVE f[i] \in Place
      OBVIOUS
    <3>2. c + i - 1 \in 0 .. D - 1 /\ i \in 1 .. t + 1
      BY <1>2
    <3>3. QED
      BY <1>5, <3>2
  <2> HIDE DEF len, f
  <2>2. Lists(first(f, len(t)), f, len(t), Place)
    BY <1>2, <2>1, FirstIsSeq, Zenon
  <2>3. QED
    BY <1>6, <2>2 DEF Lists
<1>8. direct_places(c, c) = <<>>
  <2>1. len(c) = 0 /\ 0 <= t + 1 /\ 0 \in Nat
    BY <1>2
  <2> HIDE DEF len, f
  <2>2. direct_places(c, c) = first(f, 0)
    BY <1>3, <1>4, <2>1
  <2>3. first(f, 0) = <<>>
    BY DEF first
  <2>4. QED
    BY <2>2, <2>3
<1>9. ASSUME t < D PROVE direct_places(c, t + 1) = direct_places(c, t) \o <<place(t)>>
  <2>1. len(t + 1) = len(t) + 1 /\ len(t) + 1 <= t + 1 /\ len(t) + 1 \in Nat
    BY <1>2, <1>9
  <2>2. f[len(t) + 1] = place(t)
    <3>1. len(t) + 1 \in 1 .. t + 1 /\ c + (len(t) + 1) - 1 = t
      BY <1>2, <1>9
    <3>2. QED
      BY <1>5, <1>9, <3>1
  <2> HIDE DEF len, f
  <2>3. direct_places(c, t + 1) = first(f, len(t) + 1)
    BY <1>3, <1>4, <2>1
  <2>4. first(f, len(t) + 1) = first(f, len(t)) \o <<f[len(t) + 1]>>
    BY <1>2, FirstNext
  <2>5. QED
    BY <1>6, <2>2, <2>3, <2>4
<1>10. ASSUME t >= D PROVE direct_places(c, t + 1) = direct_places(c, t)
  <2>1. len(t + 1) = len(t)
    BY <1>2, <1>10
  <2> HIDE DEF len
  <2>2. QED
    BY <1>3, <2>1
<1>11. QED
  BY <1>1, <1>7, <1>8, <1>9, <1>10

\* Concatenation of three, and with nothing.
LEMMA Concat3 ==
  ASSUME NEW S, NEW r \in Seq(S), NEW s \in Seq(S), NEW t \in Seq(S)
  PROVE  /\ r \o s \in Seq(S) /\ (r \o s) \o t = r \o (s \o t)
         /\ r \o <<>> = r /\ <<>> \o r = r /\ <<>> \in Seq(S)
BY ConcatProperties, ConcatAssociative, ConcatEmptySeq

\* Three sequences, concatenated from the left and from the right.
Associates(r, s, t) == (r \o s) \o t = r \o (s \o t)

\* Concatenation is associative.
LEMMA Assoc ==
  ASSUME NEW S, NEW r \in Seq(S), NEW s \in Seq(S), NEW t \in Seq(S)
  PROVE  Associates(r, s, t)
BY Concat3 DEF Associates

\* The elements of a concatenation.
Joins(u, r, s, n, m, S) ==
    /\ u \in Seq(S) /\ Len(u) = n + m
    /\ \A i \in 1 .. n : u[i] = r[i]
    /\ \A j \in 1 .. m : u[n + j] = s[j]

\* The elements of a concatenation are those of its parts.
LEMMA Elements ==
  ASSUME NEW S, NEW r \in Seq(S), NEW s \in Seq(S), NEW n \in Nat, NEW m \in Nat,
         n = Len(r), m = Len(s), NEW u, u = r \o s
  PROVE  Joins(u, r, s, n, m, S)
<1>1. /\ u \in Seq(S) /\ Len(u) = n + m
      /\ \A i \in 1 .. n + m : u[i] = IF i <= n THEN r[i] ELSE s[i - n]
  BY ConcatProperties
<1>2. \A i \in 1 .. n : u[i] = r[i]
  BY <1>1
<1>3. ASSUME NEW j \in 1 .. m PROVE u[n + j] = s[j]
  <2>1. n + j \in 1 .. n + m /\ ~(n + j <= n) /\ (n + j) - n = j
    OBVIOUS
  <2>2. QED
    BY <1>1, <2>1
<1>4. QED
  BY <1>1, <1>2, <1>3 DEF Joins

\* Concatenation of tuples.
LEMMA Tuples ==
  ASSUME NEW a, NEW b, NEW c
  PROVE  /\ <<>> \o <<a>> = <<a>>
         /\ <<a>> \o <<b>> = <<a, b>>
         /\ <<a>> \o <<b, c>> = <<a, b, c>>
<1>1. PICK S : a \in S /\ b \in S /\ c \in S
  <2>1. a \in {a, b, c} /\ b \in {a, b, c} /\ c \in {a, b, c}
    OBVIOUS
  <2>2. QED
    BY <2>1, Zenon
<1>2. PICK r, s, t : /\ r = <<a>> /\ s = <<b>> /\ t = <<b, c>>
                     /\ r \in Seq(S) /\ s \in Seq(S) /\ t \in Seq(S)
                     /\ Len(r) = 1 /\ Len(s) = 1 /\ Len(t) = 2
                     /\ r[1] = a /\ s[1] = b /\ t[1] = b /\ t[2] = c
  <2>1. <<a>> \in Seq(S) /\ Len(<<a>>) = 1 /\ <<a>>[1] = a
    BY <1>1
  <2>2. <<b>> \in Seq(S) /\ Len(<<b>>) = 1 /\ <<b>>[1] = b
    BY <1>1
  <2>3. <<b, c>> \in Seq(S) /\ Len(<<b, c>>) = 2 /\ <<b, c>>[1] = b /\ <<b, c>>[2] = c
    BY <1>1
  <2>4. QED
    BY <2>1, <2>2, <2>3, Zenon
<1>3. <<>> \o <<a>> = <<a>>
  BY <1>2, Concat3
<1>4. PICK u, v : u = r \o s /\ v = <<a, b>>
  OBVIOUS
<1>5. u \in Seq(S) /\ Len(u) = 2 /\ u[1] = a /\ u[2] = b
  BY <1>2, <1>4
<1>6. v \in Seq(S) /\ Len(v) = 2 /\ v[1] = a /\ v[2] = b
  BY <1>1, <1>4
<1>7. \A i \in 1 .. Len(u) : u[i] = v[i]
  BY <1>5, <1>6
<1>8. u = v
  BY <1>5, <1>6, <1>7, SameSeq
<1>9. PICK w, x : w = r \o t /\ x = <<a, b, c>>
  OBVIOUS
<1>10. w \in Seq(S) /\ Len(w) = 3 /\ w[1] = a /\ w[2] = b /\ w[3] = c
  BY <1>2, <1>9
<1>11. x \in Seq(S) /\ Len(x) = 3 /\ x[1] = a /\ x[2] = b /\ x[3] = c
  BY <1>1, <1>9
<1>12. \A i \in 1 .. Len(w) : w[i] = x[i]
  BY <1>10, <1>11
<1>13. w = x
  BY <1>10, <1>11, <1>12, SameSeq
<1>14. QED
  BY <1>2, <1>3, <1>4, <1>8, <1>9, <1>13

\* The places in the indirect block of a file that grows.
LEMMA Indirect1Places ==
  ASSUME NEW c \in Nat, NEW t \in Nat, c <= t
  PROVE  /\ indirect1_places(c, t) \in Seq(Place)
         /\ indirect1_places(c, c) = <<>>
         /\ t = 0 => indirect1_places(c, t + 1) = <<place(-1), place(DirectCount)>>
         /\ t > 0 /\ t < PerBlock =>
              indirect1_places(c, t + 1) = indirect1_places(c, t) \o <<place(DirectCount + t)>>
         /\ t >= PerBlock => indirect1_places(c, t + 1) = indirect1_places(c, t)
<1>1. PICK D \in Nat \ {0}, P \in Nat \ {0}, B \in Nat :
        D = DirectCount /\ P = PerBlock /\ B = INDIRECT1_BOUND /\ B = D + P
  BY Sizes
<1> DEFINE f == [i \in 1 .. t + 1 |-> <<"indirect1", c + i - 1>>]
           len(u) == beyond(minimum(u, P), c)
           head == IF c = 0 THEN <<<<"indirect1">>>> ELSE <<>>
<1>2. /\ len(t) \in Nat /\ len(t) <= t /\ len(c) = 0
      /\ t < P => len(t + 1) = len(t) + 1 /\ len(t) = t - c
      /\ t >= P => len(t + 1) = len(t)
      /\ \A i \in 1 .. len(t) : c + i - 1 \in 0 .. P - 1
  BY <1>1 DEF beyond, minimum
<1>3. \A u : indirect1_places(c, u) =
        IF u = 0 THEN <<>> ELSE head \o [i \in 1 .. len(u) |-> <<"indirect1", c + i - 1>>]
  BY <1>1, Zenon DEF indirect1_places
<1>4. ASSUME NEW n \in Nat, n <= t + 1
      PROVE  first(f, n) = [i \in 1 .. n |-> <<"indirect1", c + i - 1>>]
  BY <1>4 DEF first
<1>5. \A x \in 0 .. P - 1 : place(D + x) = <<"indirect1", x>>
  <2>1. SUFFICES ASSUME NEW x \in 0 .. P - 1 PROVE place(D + x) = <<"indirect1", x>>
    OBVIOUS
  <2>2. ~(D + x >= B) /\ D + x >= D /\ (D + x) - D = x
    BY <1>1
  <2>3. QED
    BY <1>1, <2>2 DEF place
<1>5a. \A x \in 0 .. P - 1 : place(D + x) \in Place
  BY PlaceType
<1>5b. place(-1) = <<"indirect1">> /\ place(-1) \in Place
  <2>1. place(-1) \in Place
    BY PlaceType
  <2>2. ~(-1 >= B) /\ ~(-1 >= D) /\ ~(-1 >= 0)
    BY <1>1
  <2>3. QED
    BY <1>1, <2>1, <2>2 DEF place
<1>6. \A i \in 1 .. len(t) : f[i] \in Place
  <2>1. SUFFICES ASSUME NEW i \in 1 .. len(t) PROVE f[i] \in Place
    OBVIOUS
  <2>2. c + i - 1 \in 0 .. P - 1 /\ i \in 1 .. t + 1
    BY <1>2
  <2>3. f[i] = place(D + (c + i - 1))
    BY <1>5, <2>2
  <2>4. QED
    BY <1>5a, <2>2, <2>3
<1>7. t < P => f[len(t) + 1] = place(D + t)
  <2>1. SUFFICES ASSUME t < P PROVE f[len(t) + 1] = place(D + t)
    OBVIOUS
  <2>2. len(t) + 1 \in 1 .. t + 1 /\ c + (len(t) + 1) - 1 = t /\ t \in 0 .. P - 1
    BY <1>2, <2>1
  <2>3. QED
    BY <1>5, <2>2
<1>8. head \in Seq(Place) /\ (c = 0 => head = <<place(-1)>>) /\ (c # 0 => head = <<>>)
  <2>1. <<place(-1)>> \in Seq(Place) /\ <<>> \in Seq(Place)
    BY <1>5b
  <2>2. QED
    BY <1>5b, <2>1
<1>9. \A n \in Nat : n <= t + 1 /\ len(n) \in Nat /\ len(n) <= t + 1 /\ n # 0 =>
         indirect1_places(c, n) = head \o first(f, len(n))
  BY <1>3, <1>4
<1>10. first(f, len(t)) \in Seq(Place) /\ first(f, 0) = <<>>
  <2> HIDE DEF len, f
  <2>1. Lists(first(f, len(t)), f, len(t), Place)
    BY <1>2, <1>6, FirstIsSeq, Zenon
  <2>2. QED
    BY <2>1 DEF Lists, first
<1>11. t < P => first(f, len(t) + 1) = first(f, len(t)) \o <<place(D + t)>>
  <2> HIDE DEF len, f
  <2>1. first(f, len(t) + 1) = first(f, len(t)) \o <<f[len(t) + 1]>>
    BY <1>2, FirstNext
  <2>2. QED
    BY <1>7, <2>1
<1>12. len(t) <= t + 1 /\ (t < P => len(t) + 1 <= t + 1) /\ t + 1 \in Nat /\ t + 1 # 0
  BY <1>2
<1> HIDE DEF len, f, head
<1>13. t # 0 => indirect1_places(c, t) = head \o first(f, len(t))
  BY <1>2, <1>9, <1>12
<1>14. t = 0 => indirect1_places(c, t) = <<>>
  BY <1>3
<1>14a. indirect1_places(c, t + 1) = head \o first(f, len(t + 1))
  <2>1. len(t + 1) \in Nat /\ len(t + 1) <= t + 1
    BY <1>2, <1>12
  <2>2. t + 1 \in Nat /\ t + 1 <= t + 1 /\ t + 1 # 0
    OBVIOUS
  <2>3. QED
    BY <1>9, <2>1, <2>2
<1>15. t < P => indirect1_places(c, t + 1) = head \o first(f, len(t) + 1)
  BY <1>2, <1>14a
<1>16. t >= P => indirect1_places(c, t + 1) = head \o first(f, len(t))
  BY <1>2, <1>14a
<1>17. indirect1_places(c, t) \in Seq(Place)
  <2>1. head \o first(f, len(t)) \in Seq(Place) /\ <<>> \in Seq(Place)
    BY <1>8, <1>10, Concat3
  <2>2. QED
    BY <1>13, <1>14, <2>1
<1>18. indirect1_places(c, c) = <<>>
  <2>1. CASE c = 0
    BY <1>3, <2>1
  <2>2. CASE c # 0
    <3>1. c <= t + 1 /\ len(c) \in Nat /\ len(c) <= t + 1
      BY <1>2
    <3>2. indirect1_places(c, c) = head \o first(f, len(c))
      BY <1>9, <2>2, <3>1
    <3>3. <<>> \o <<>> = <<>>
      OBVIOUS
    <3>4. QED
      BY <1>2, <1>8, <1>10, <2>2, <3>2, <3>3
  <2>3. QED
    BY <2>1, <2>2
<1>19. ASSUME t = 0 PROVE indirect1_places(c, t + 1) = <<place(-1), place(D)>>
  <2>1. c = 0 /\ t < P /\ D + t = D
    BY <1>1, <1>19
  <2>2. len(t) = 0
    BY <1>2, <1>19, <2>1
  <2>3. first(f, len(t) + 1) = <<>> \o <<place(D)>>
    BY <1>10, <1>11, <2>1, <2>2
  <2>4. <<place(-1)>> \o (<<>> \o <<place(D)>>) = <<place(-1), place(D)>>
    BY Tuples
  <2>5. QED
    BY <1>8, <1>15, <2>1, <2>3, <2>4
<1>20. ASSUME t > 0, t < P
       PROVE  indirect1_places(c, t + 1) = indirect1_places(c, t) \o <<place(D + t)>>
  <2>1. <<place(D + t)>> \in Seq(Place)
    BY <1>5a, <1>20
  <2>2. head \o (first(f, len(t)) \o <<place(D + t)>>) = (head \o first(f, len(t))) \o <<place(D + t)>>
    BY <1>8, <1>10, <2>1, Concat3
  <2>3. t # 0
    BY <1>20
  <2>4. QED
    BY <1>11, <1>13, <1>15, <1>20, <2>2, <2>3
<1>21. ASSUME t >= P PROVE indirect1_places(c, t + 1) = indirect1_places(c, t)
  <2>1. t # 0
    BY <1>1, <1>21
  <2>2. QED
    BY <1>13, <1>16, <1>21, <2>1
<1>22. QED
  BY <1>1, <1>17, <1>18, <1>19, <1>20, <1>21

\* The places of data block l below the double indirect block.
row_places(l) ==
    (IF l % PerBlock = 0 THEN <<<<"indirect2", l \div PerBlock>>>> ELSE <<>>)
    \o <<<<"indirect2", l \div PerBlock, l % PerBlock>>>>

\* The places of a data block below the double indirect block: with the block
\* of pointers it is the first in.
LEMMA RowPlaces ==
  ASSUME NEW l \in Nat
  PROVE  /\ row_places(l) =
              IF l % PerBlock = 0 THEN <<place(-3 - l \div PerBlock), place(INDIRECT1_BOUND + l)>>
              ELSE <<place(INDIRECT1_BOUND + l)>>
         /\ row_places(l) \in Seq(Place)
         /\ row(INDIRECT1_BOUND + l) = l \div PerBlock /\ col(INDIRECT1_BOUND + l) = l % PerBlock
<1>1. PICK D \in Nat \ {0}, P \in Nat \ {0}, B \in Nat :
        D = DirectCount /\ P = PerBlock /\ B = INDIRECT1_BOUND /\ B = D + P
  BY Sizes
<1>2. PICK a \in Nat, b \in Nat : a = l \div P /\ b = l % P
  <2>1. l \div P \in Nat /\ l % P \in 0 .. P - 1
    BY DivMod
  <2>2. QED
    BY <2>1
<1>3. row(B + l) = a /\ col(B + l) = b
  <2>1. (B + l) - B = l
    OBVIOUS
  <2>2. QED
    BY <1>1, <1>2, <2>1 DEF row, col
<1>4. place(B + l) = <<"indirect2", a, b>>
  <2>1. B + l >= B
    OBVIOUS
  <2>2. QED
    BY <1>1, <1>3, <2>1 DEF place
<1>5. place(-3 - a) = <<"indirect2", a>>
  <2>1. -3 - a < 0 /\ -3 - a # -1 /\ -3 - a # -2 /\ -3 - (-3 - a) = a
    OBVIOUS
  <2>2. ~(-3 - a >= B) /\ ~(-3 - a >= D) /\ ~(-3 - a >= 0)
    BY <1>1, <2>1
  <2>3. QED
    BY <1>1, <2>1, <2>2 DEF place
<1>6. PICK u \in Place, v \in Place : u = place(-3 - a) /\ v = place(B + l)
  BY PlaceType
<1>7. row_places(l) = (IF b = 0 THEN <<u>> ELSE <<>>) \o <<v>>
  BY <1>1, <1>2, <1>4, <1>5, <1>6, Zenon DEF row_places
<1>8. row_places(l) = IF b = 0 THEN <<u, v>> ELSE <<v>>
  BY <1>7, Tuples
<1>9. <<u, v>> \in Seq(Place) /\ <<v>> \in Seq(Place)
  OBVIOUS
<1>10. QED
  BY <1>1, <1>2, <1>3, <1>6, <1>8, <1>9

\* The places below the double indirect block of a file that grows.
LEMMA Indirect2Places ==
  ASSUME NEW c \in Nat, NEW t \in Nat, c <= t
  PROVE  /\ indirect2_places(c, t) \in Seq(Place)
         /\ indirect2_places(c, c) = <<>>
         /\ t = 0 => indirect2_places(c, t + 1) = <<place(-2), place(-3), place(INDIRECT1_BOUND)>>
         /\ t > 0 => indirect2_places(c, t + 1) = indirect2_places(c, t) \o row_places(t)
<1>1. PICK D \in Nat \ {0}, P \in Nat \ {0}, B \in Nat :
        D = DirectCount /\ P = PerBlock /\ B = INDIRECT1_BOUND /\ B = D + P
  BY Sizes
<1> DEFINE f == [i \in 1 .. t + 1 |-> row_places(c + i - 1)]
           head == IF c = 0 THEN <<<<"indirect2">>>> ELSE <<>>
           flat(n) == FlattenSeq(first(f, n))
<1>2. \A u : indirect2_places(c, u) =
        IF u = 0 THEN <<>>
        ELSE head \o FlattenSeq([i \in 1 .. beyond(u, c) |-> row_places(c + i - 1)])
  BY Zenon DEF indirect2_places, row_places
<1>3. ASSUME NEW n \in Nat, n <= t + 1
      PROVE  first(f, n) = [i \in 1 .. n |-> row_places(c + i - 1)]
  BY <1>3 DEF first
<1>4. \A u \in c .. t + 1 : beyond(u, c) = u - c /\ u - c \in Nat /\ u - c <= t + 1
  BY DEF beyond
<1>5. \A u \in c .. t + 1 : indirect2_places(c, u) = IF u = 0 THEN <<>> ELSE head \o flat(u - c)
  <2>1. SUFFICES ASSUME NEW u \in c .. t + 1
                 PROVE  indirect2_places(c, u) = IF u = 0 THEN <<>> ELSE head \o flat(u - c)
    OBVIOUS
  <2>2. beyond(u, c) = u - c /\ u - c \in Nat /\ u - c <= t + 1
    BY <1>4
  <2>3. first(f, u - c) = [i \in 1 .. u - c |-> row_places(c + i - 1)]
    BY <1>3, <2>2
  <2> HIDE DEF f, head
  <2>4. QED
    BY <1>2, <2>2, <2>3
<1>6. \A i \in 1 .. t + 1 : f[i] = row_places(c + i - 1) /\ f[i] \in Seq(Place)
  <2>1. SUFFICES ASSUME NEW i \in 1 .. t + 1
                 PROVE  f[i] = row_places(c + i - 1) /\ f[i] \in Seq(Place)
    OBVIOUS
  <2>2. c + i - 1 \in Nat
    OBVIOUS
  <2>3. QED
    BY <2>2, RowPlaces
<1>7. head \in Seq(Place) /\ (c = 0 => head = <<place(-2)>>) /\ (c # 0 => head = <<>>)
  <2>1. ~(-2 >= B) /\ ~(-2 >= D) /\ ~(-2 >= 0) /\ -2 # -1
    BY <1>1
  <2>2. place(-2) = <<"indirect2">> /\ place(-2) \in Place
    <3>1. place(-2) \in Place
      BY PlaceType
    <3>2. QED
      BY <1>1, <2>1, <3>1 DEF place
  <2>3. <<place(-2)>> \in Seq(Place) /\ <<>> \in Seq(Place)
    BY <2>2
  <2>4. QED
    BY <2>2, <2>3
<1> HIDE DEF f, head
<1>8. ASSUME NEW n \in Nat, n <= t
      PROVE  flat(n + 1) = flat(n) \o f[n + 1] /\ flat(0) = <<>>
  <2>1. \A i \in 1 .. n + 1 : f[i] \in Seq(Place)
    BY <1>6, <1>8
  <2>2. QED
    BY <2>1, FlattenNext
<1> HIDE DEF flat
<1>9. \A n \in Nat : n <= t + 1 => flat(n) \in Seq(Place)
  <2> DEFINE bad == {n \in Nat : n <= t + 1 /\ flat(n) \notin Seq(Place)}
  <2>1. SUFFICES ASSUME bad # {} PROVE FALSE
    OBVIOUS
  <2>2. PICK n \in bad : \A j \in bad : n <= j
    <3>1. bad \in SUBSET Nat
      OBVIOUS
    <3> HIDE DEF bad
    <3>2. QED
      BY <2>1, <3>1, LeastOf
  <2>3. n \in Nat /\ n <= t + 1 /\ flat(n) \notin Seq(Place)
    OBVIOUS
  <2>4. n # 0
    <3>1. flat(0) = <<>> /\ <<>> \in Seq(Place)
      BY <1>8
    <3>2. QED
      BY <2>3, <3>1
  <2>5. PICK m \in Nat : n = m + 1 /\ m <= t
    <3>1. n - 1 \in Nat /\ n = (n - 1) + 1 /\ n - 1 <= t
      BY <2>3, <2>4
    <3>2. QED
      BY <3>1
  <2>6. m \notin bad
    BY <2>2, <2>5
  <2>7. flat(m) \in Seq(Place)
    BY <2>5, <2>6
  <2>8. f[m + 1] \in Seq(Place) /\ flat(m + 1) = flat(m) \o f[m + 1]
    BY <1>6, <1>8, <2>5
  <2>9. flat(m) \o f[m + 1] \in Seq(Place)
    BY <2>7, <2>8, Concat3
  <2>10. QED
    BY <2>3, <2>5, <2>8, <2>9
<1>10. PICK m \in Nat : m = t - c /\ m + 1 = t + 1 - c /\ m <= t /\ m <= t + 1
  <2>1. t - c \in Nat /\ t - c + 1 = t + 1 - c /\ t - c <= t /\ t - c <= t + 1
    OBVIOUS
  <2>2. QED
    BY <2>1
<1>11. f[m + 1] = row_places(t) /\ f[m + 1] \in Seq(Place)
  <2>1. m + 1 \in 1 .. t + 1 /\ c + (m + 1) - 1 = t
    BY <1>10
  <2>2. QED
    BY <1>6, <2>1
<1>12. flat(m) \in Seq(Place) /\ flat(m + 1) = flat(m) \o row_places(t) /\ flat(0) = <<>>
  BY <1>8, <1>9, <1>10, <1>11
<1>13. /\ indirect2_places(c, t) = IF t = 0 THEN <<>> ELSE head \o flat(m)
       /\ indirect2_places(c, t + 1) = head \o flat(m + 1)
  <2>1. t \in c .. t + 1 /\ t + 1 \in c .. t + 1 /\ t + 1 # 0
    OBVIOUS
  <2>2. QED
    BY <1>5, <1>10, <2>1
<1>14. indirect2_places(c, t) \in Seq(Place)
  <2>1. head \o flat(m) \in Seq(Place) /\ <<>> \in Seq(Place)
    BY <1>7, <1>12, Concat3
  <2>2. QED
    BY <1>13, <2>1
<1>15. indirect2_places(c, c) = <<>>
  <2>1. c \in c .. t + 1 /\ c - c = 0
    OBVIOUS
  <2>2. <<>> \o <<>> = <<>>
    OBVIOUS
  <2>3. QED
    BY <1>5, <1>7, <1>12, <2>1, <2>2
<1>16. ASSUME t = 0
       PROVE  indirect2_places(c, t + 1) = <<place(-2), place(-3), place(B)>>
  <2>1. c = 0 /\ m = 0
    BY <1>10, <1>16
  <2>2. 0 % P = 0 /\ 0 \div P = 0
    <3>1. (P * 0 + 0) \div P = 0 /\ (P * 0 + 0) % P = 0
      BY DivModOf
    <3>2. QED
      BY <3>1
  <2>3. -3 - 0 = -3 /\ B + 0 = B
    OBVIOUS
  <2>4. row_places(0) = <<place(-3), place(B)>> /\ row_places(0) \in Seq(Place)
    BY <1>1, <2>2, <2>3, RowPlaces
  <2>5. <<>> \o row_places(0) = row_places(0)
    BY <2>4, Concat3
  <2>6. <<place(-2)>> \o <<place(-3), place(B)>> = <<place(-2), place(-3), place(B)>>
    BY Tuples
  <2>7. QED
    BY <1>7, <1>12, <1>13, <1>16, <2>1, <2>4, <2>5, <2>6
<1>17. ASSUME t > 0
       PROVE  indirect2_places(c, t + 1) = indirect2_places(c, t) \o row_places(t)
  <2>1. head \o (flat(m) \o row_places(t)) = (head \o flat(m)) \o row_places(t)
    <3>1. row_places(t) \in Seq(Place)
      BY <1>11
    <3>2. PICK x \in Seq(Place), y \in Seq(Place), z \in Seq(Place) :
            x = head /\ y = flat(m) /\ z = row_places(t)
      BY <1>7, <1>12, <3>1, Zenon
    <3>3. Associates(x, y, z)
      BY Assoc, Zenon
    <3>4. QED
      BY <3>2, <3>3 DEF Associates
  <2>2. t # 0
    BY <1>17
  <2>3. QED
    BY <1>12, <1>13, <2>1, <2>2
<1>18. QED
  BY <1>1, <1>14, <1>15, <1>16, <1>17

\* The places of a file that grows by one data block: those that come with it
\* are added at the end.
LEMMA PlacesNext ==
  ASSUME NEW c \in Nat, NEW t \in Nat, c <= t
  PROVE  /\ places(c, t) \in Seq(Place) /\ places(c, c) = <<>>
         /\ places(c, t + 1) = places(c, t) \o fresh_places(t)
<1>1. PICK D \in Nat \ {0}, P \in Nat \ {0}, B \in Nat :
        D = DirectCount /\ P = PerBlock /\ B = INDIRECT1_BOUND /\ B = D + P
  BY Sizes
<1>2. PICK c1 \in Nat, t1 \in Nat, c2 \in Nat, t2 \in Nat :
        /\ c1 = beyond(c, D) /\ t1 = beyond(t, D) /\ c2 = beyond(c, B) /\ t2 = beyond(t, B)
        /\ c1 <= t1 /\ c2 <= t2
        /\ t < D => t1 = 0 /\ beyond(t + 1, D) = 0
        /\ t >= D => t1 = t - D /\ beyond(t + 1, D) = t1 + 1
        /\ t < B => t2 = 0 /\ beyond(t + 1, B) = 0
        /\ t >= B => t2 = t - B /\ beyond(t + 1, B) = t2 + 1
  <2>1. beyond(c, D) \in Nat /\ beyond(t, D) \in Nat /\ beyond(c, B) \in Nat /\ beyond(t, B) \in Nat
    BY DEF beyond
  <2>2. beyond(c, D) <= beyond(t, D) /\ beyond(c, B) <= beyond(t, B)
    BY DEF beyond
  <2>3. /\ t < D => beyond(t, D) = 0 /\ beyond(t + 1, D) = 0
        /\ t >= D => beyond(t, D) = t - D /\ beyond(t + 1, D) = beyond(t, D) + 1
    BY DEF beyond
  <2>4. /\ t < B => beyond(t, B) = 0 /\ beyond(t + 1, B) = 0
        /\ t >= B => beyond(t, B) = t - B /\ beyond(t + 1, B) = beyond(t, B) + 1
    BY DEF beyond
  <2>5. QED
    BY <2>1, <2>2, <2>3, <2>4, Zenon
<1>3. PICK x, y, z : /\ x = direct_places(c, t) /\ y = indirect1_places(c1, t1)
                     /\ z = indirect2_places(c2, t2)
                     /\ x \in Seq(Place) /\ y \in Seq(Place) /\ z \in Seq(Place)
  <2>1. /\ direct_places(c, t) \in Seq(Place) /\ indirect1_places(c1, t1) \in Seq(Place)
        /\ indirect2_places(c2, t2) \in Seq(Place)
    BY <1>2, DirectPlaces, Indirect1Places, Indirect2Places
  <2>2. QED
    BY <2>1, Zenon
<1>4. places(c, t) = (x \o y) \o z
  BY <1>1, <1>2, <1>3, Zenon DEF places
<1>5. places(c, t) \in Seq(Place)
  BY <1>3, <1>4, Concat3
<1>6. places(c, c) = <<>>
  <2>1. direct_places(c, c) = <<>> /\ indirect1_places(c1, c1) = <<>> /\ indirect2_places(c2, c2) = <<>>
    BY <1>2, DirectPlaces, Indirect1Places, Indirect2Places
  <2>2. <<>> \o <<>> = <<>>
    OBVIOUS
  <2>3. places(c, c) = (direct_places(c, c) \o indirect1_places(c1, c1)) \o indirect2_places(c2, c2)
    BY <1>1, <1>2, Zenon DEF places
  <2>4. QED
    BY <2>1, <2>2, <2>3
<1>7. places(c, t + 1) = (direct_places(c, t + 1) \o indirect1_places(c1, beyond(t + 1, D)))
                         \o indirect2_places(c2, beyond(t + 1, B))
  BY <1>1, <1>2, Zenon DEF places
<1>8. PICK w : w = fresh_places(t)
  OBVIOUS
<1>9. place(-1) \in Place /\ place(-2) \in Place /\ place(-3) \in Place /\ place(t) \in Place
  BY PlaceType
<1>10. <<>> \in Seq(Place)
  OBVIOUS
<1>11. CASE t < D
  <2>1. w = <<place(t)>>
    BY <1>1, <1>8, <1>11, FreshPlaces
  <2>2. direct_places(c, t + 1) = x \o w
    BY <1>1, <1>3, <1>11, <2>1, DirectPlaces
  <2>3. t1 = 0 /\ c1 = 0 /\ t2 = 0 /\ c2 = 0 /\ beyond(t + 1, D) = 0 /\ beyond(t + 1, B) = 0
    BY <1>1, <1>2, <1>11
  <2>4. indirect1_places(0, 0) = <<>> /\ indirect2_places(0, 0) = <<>>
    BY DEF indirect1_places, indirect2_places
  <2>5. y = <<>> /\ z = <<>>
    BY <1>3, <2>3, <2>4
  <2>6. places(c, t + 1) = ((x \o w) \o <<>>) \o <<>>
    BY <1>7, <2>2, <2>3, <2>4
  <2>7. w \in Seq(Place)
    BY <1>9, <2>1
  <2>8. x \o w \in Seq(Place) /\ (x \o w) \o <<>> = x \o w /\ x \o <<>> = x
    BY <1>3, <2>7, Concat3
  <2>9. QED
    BY <1>4, <1>5, <1>6, <1>8, <2>5, <2>6, <2>8
<1>12. CASE t >= D /\ t < B
  <2>1. direct_places(c, t + 1) = x
    BY <1>1, <1>3, <1>12, DirectPlaces
  <2>2. t2 = 0 /\ c2 = 0 /\ beyond(t + 1, D) = t1 + 1 /\ beyond(t + 1, B) = 0
    BY <1>1, <1>2, <1>12
  <2>3. indirect2_places(0, 0) = <<>>
    BY Indirect2Places
  <2>4. z = <<>>
    BY <1>3, <2>2, <2>3
  <2>5. w \in Seq(Place) /\ indirect1_places(c1, t1 + 1) = y \o w
    <3>1. CASE t = D
      <4>1. w = <<place(-1), place(D)>>
        BY <1>1, <1>8, <3>1, FreshPlaces
      <4>2. w \in Seq(Place)
        BY <1>9, <3>1, <4>1
      <4>3. t1 = 0 /\ c1 = 0
        BY <1>2, <3>1
      <4>4. indirect1_places(c1, t1 + 1) = <<place(-1), place(D)>>
        BY <1>1, <1>2, <4>3, Indirect1Places
      <4>4a. y = <<>>
        BY <1>3, <4>3 DEF indirect1_places
      <4>5. <<>> \o w = w
        BY <4>2, Concat3
      <4>6. QED
        BY <4>1, <4>2, <4>4, <4>4a, <4>5
    <3>2. CASE t # D
      <4>1. w = <<place(t)>>
        BY <1>1, <1>8, <1>12, <3>2, FreshPlaces
      <4>2. w \in Seq(Place)
        BY <1>9, <4>1
      <4>3. t1 > 0 /\ t1 < P /\ D + t1 = t
        BY <1>1, <1>2, <1>12, <3>2
      <4>4. indirect1_places(c1, t1 + 1) = indirect1_places(c1, t1) \o <<place(D + t1)>>
        BY <1>1, <1>2, <4>3, Indirect1Places
      <4>5. QED
        BY <1>3, <4>1, <4>2, <4>3, <4>4
    <3>3. QED
      BY <3>1, <3>2
  <2>6. places(c, t + 1) = (x \o (y \o w)) \o <<>>
    BY <1>7, <2>1, <2>2, <2>3, <2>5
  <2>7. y \o w \in Seq(Place) /\ x \o y \in Seq(Place)
    BY <1>3, <2>5, Concat3
  <2>8. (x \o y) \o w = x \o (y \o w)
    <3>1. Associates(x, y, w)
      BY <1>3, <2>5, Assoc, Zenon
    <3>2. QED
      BY <3>1 DEF Associates
  <2>9. x \o (y \o w) \in Seq(Place)
    BY <1>3, <2>7, Concat3
  <2>10. (x \o (y \o w)) \o <<>> = x \o (y \o w) /\ (x \o y) \o <<>> = x \o y
    BY <2>7, <2>9, ConcatEmptySeq
  <2>11. QED
    BY <1>4, <1>5, <1>6, <1>8, <2>4, <2>6, <2>8, <2>10
<1>13. CASE t >= B
  <2>0. t >= D
    BY <1>1, <1>13
  <2>1. direct_places(c, t + 1) = x
    BY <1>1, <1>3, <2>0, DirectPlaces
  <2>2. t1 >= P /\ beyond(t + 1, D) = t1 + 1 /\ beyond(t + 1, B) = t2 + 1
    BY <1>1, <1>2, <1>13
  <2>3. indirect1_places(c1, t1 + 1) = y
    BY <1>1, <1>2, <1>3, <2>2, Indirect1Places, ZenonT(40)
  <2>4. w \in Seq(Place) /\ indirect2_places(c2, t2 + 1) = z \o w
    <3>1. CASE t = B
      <4>1. w = <<place(-2), place(-3), place(B)>>
        BY <1>1, <1>8, <3>1, FreshPlaces
      <4>2. w \in Seq(Place)
        BY <1>9, <3>1, <4>1
      <4>3. t2 = 0 /\ c2 = 0
        BY <1>2, <3>1
      <4>4. /\ indirect2_places(0, 0 + 1) = <<place(-2), place(-3), place(B)>>
            /\ indirect2_places(0, 0) = <<>>
        BY <1>1, Indirect2Places
      <4>5. <<>> \o w = w
        BY <4>2, Concat3
      <4>6. QED
        BY <1>3, <4>1, <4>2, <4>3, <4>4, <4>5
    <3>2. CASE t # B
      <4>1. t2 > 0 /\ t > B /\ B + t2 = t /\ t # D
        BY <1>1, <1>2, <1>13, <3>2
      <4>2. /\ row_places(t2) = IF t2 % P = 0 THEN <<place(-3 - t2 \div P), place(B + t2)>>
                                ELSE <<place(B + t2)>>
            /\ row(B + t2) = t2 \div P /\ col(B + t2) = t2 % P
            /\ row_places(t2) \in Seq(Place)
        BY <1>1, RowPlaces
      <4>3. w = IF col(t) = 0 THEN <<place(-3 - row(t)), place(t)>> ELSE <<place(t)>>
        BY <1>1, <1>8, <1>13, <3>2, <4>1, FreshPlaces
      <4>4. w = row_places(t2)
        BY <4>1, <4>2, <4>3
      <4>5. indirect2_places(c2, t2 + 1) = indirect2_places(c2, t2) \o row_places(t2)
        BY <1>2, <4>1, Indirect2Places
      <4>6. QED
        BY <1>3, <4>2, <4>4, <4>5
    <3>3. QED
      BY <3>1, <3>2
  <2>5. places(c, t + 1) = (x \o y) \o (z \o w)
    BY <1>7, <2>1, <2>2, <2>3, <2>4
  <2>6. x \o y \in Seq(Place)
    BY <1>3, Concat3
  <2>7. ((x \o y) \o z) \o w = (x \o y) \o (z \o w)
    <3>1. x \o y \in Seq(Place) /\ z \in Seq(Place) /\ w \in Seq(Place)
      BY <1>3, <2>4, <2>6
    <3>2. Associates(x \o y, z, w)
      BY <3>1, Assoc, Zenon
    <3>3. QED
      BY <3>2 DEF Associates
  <2>8. QED
    BY <1>4, <1>5, <1>6, <1>8, <2>5, <2>7
<1>14. QED
  BY <1>1, <1>11, <1>12, <1>13

-------------------------------------------------------------------------------
\* xs are the blocks a file gets when it grows from c to t data blocks, in the
\* order in which increase_size places them: each one once, and behind the
\* block that has the pointer to it.
Grows(xs, c, t) ==
    /\ xs \in Seq(Int)
    /\ Len(xs) = Len(places(c, t))
    /\ Len(xs) = (t + Tables(t)) - (c + Tables(c))
    /\ Nodes(c) \subseteq Nodes(t)
    /\ \A i \in 1 .. Len(xs) :
          places(c, t)[i] = place(xs[i]) /\ xs[i] \in Nodes(t) /\ xs[i] \notin Nodes(c)
    /\ \A i, j \in 1 .. Len(xs) : xs[i] = xs[j] => i = j
    /\ \A x \in Nodes(t) : x \in Nodes(c) \/ \E i \in 1 .. Len(xs) : xs[i] = x
    /\ \A i \in 1 .. Len(xs) : inner(xs[i]) =>
          above(xs[i]) \in Nodes(c) \/ \E j \in 1 .. i - 1 : xs[j] = above(xs[i])

\* A file that grows by one block more.
LEMMA GrowsNext ==
  ASSUME NEW c \in Nat, NEW t \in Nat, c <= t, NEW xs, Grows(xs, c, t)
  PROVE  \E ys : Grows(ys, c, t + 1)
<1>1. PICK k \in 0 .. 2, T \in Nat :
        /\ k = grown(t) /\ T = Tables(t) /\ Tables(t + 1) = T + k
        /\ Nodes(t) = -T .. t - 1 /\ Nodes(t + 1) = -T - k .. t
        /\ \A j \in 1 .. k + 1 : fresh(t)[j] = IF j = k + 1 THEN t ELSE -T - j
  BY Fresh
<1>2. PICK U \in Nat : U = Tables(c)
  BY TablesOf
<1>3. PICK fs : /\ fs = fresh(t) /\ fs \in Seq(Int) /\ Len(fs) = k + 1
                /\ \A j \in 1 .. k + 1 : fs[j] = IF j = k + 1 THEN t ELSE -T - j
  <2>1. fresh(t) \in [1 .. k + 1 -> Int]
    BY <1>1 DEF fresh
  <2>2. PICK g : g = fresh(t)
    OBVIOUS
  <2>3. g \in Seq(Int) /\ Len(g) = k + 1
    BY <2>1, <2>2
  <2>4. QED
    BY <1>1, <2>2, <2>3
<1>4. PICK qs : /\ qs = fresh_places(t) /\ qs \in Seq(Place) /\ Len(qs) = k + 1
                /\ \A j \in 1 .. k + 1 : qs[j] = place(fs[j])
  <2>1. PICK q : q = fresh_places(t)
    OBVIOUS
  <2>2. q = [j \in 1 .. k + 1 |-> place(fs[j])]
    BY <1>1, <1>3, <2>1 DEF fresh_places
  <2>3. \A j \in 1 .. k + 1 : place(fs[j]) \in Place
    BY <1>3, PlaceType
  <2>4. q \in [1 .. k + 1 -> Place]
    BY <2>2, <2>3
  <2>5. q \in Seq(Place) /\ Len(q) = k + 1
    BY <2>4
  <2>6. QED
    BY <2>1, <2>2, <2>5
<1>5. PICK ps : ps = places(c, t) /\ ps \in Seq(Place) /\ places(c, t + 1) = ps \o qs
  <2>1. places(c, t) \in Seq(Place) /\ places(c, t + 1) = places(c, t) \o qs
    BY <1>4, PlacesNext
  <2>2. QED
    BY <2>1, Zenon
<1>6. PICK n \in Nat : n = Len(xs) /\ n = Len(ps) /\ n = (t + T) - (c + U)
  <2>1. xs \in Seq(Int) /\ Len(xs) = Len(places(c, t)) /\ Len(xs) = (t + Tables(t)) - (c + Tables(c))
    BY DEF Grows
  <2>2. Len(xs) \in Nat
    BY <2>1
  <2>3. QED
    BY <1>1, <1>2, <1>5, <2>1, <2>2, Zenon
<1>7. PICK ys : ys = xs \o fs
  OBVIOUS
<1>8. PICK rs : rs = ps \o qs
  OBVIOUS
<1>9. xs \in Seq(Int)
  BY DEF Grows
<1>9a. k + 1 \in Nat /\ n + (k + 1) = n + k + 1
  OBVIOUS
<1>10. /\ ys \in Seq(Int) /\ Len(ys) = n + k + 1
       /\ \A i \in 1 .. n : ys[i] = xs[i]
       /\ \A j \in 1 .. k + 1 : ys[n + j] = fs[j]
  <2>1. Joins(ys, xs, fs, n, k + 1, Int)
    BY <1>3, <1>6, <1>7, <1>9, <1>9a, Elements, Zenon
  <2>2. QED
    BY <1>9a, <2>1 DEF Joins
<1>11. /\ Len(rs) = n + k + 1
       /\ \A i \in 1 .. n : rs[i] = ps[i]
       /\ \A j \in 1 .. k + 1 : rs[n + j] = qs[j]
  <2>1. Joins(rs, ps, qs, n, k + 1, Place)
    BY <1>4, <1>5, <1>6, <1>8, <1>9a, Elements, Zenon
  <2>2. QED
    BY <1>9a, <2>1 DEF Joins
<1>12. \A i \in 1 .. n + k + 1 : i \in 1 .. n \/ \E j \in 1 .. k + 1 : i = n + j
  <2>1. SUFFICES ASSUME NEW i \in 1 .. n + k + 1, i \notin 1 .. n
                 PROVE  \E j \in 1 .. k + 1 : i = n + j
    OBVIOUS
  <2>2. i - n \in 1 .. k + 1 /\ i = n + (i - n)
    BY <2>1
  <2>3. QED
    BY <2>2
<1>13. PICK N, M : N = Nodes(c) /\ M = Nodes(t) /\ M = -T .. t - 1 /\ N \subseteq M
  BY <1>1 DEF Grows
<1>14. PICK M2 : M2 = Nodes(t + 1) /\ M2 = -T - k .. t
  BY <1>1
<1>15. M \subseteq M2 /\ \A j \in 1 .. k + 1 : fs[j] \in M2 /\ fs[j] \notin M
  BY <1>3, <1>13, <1>14
<1>16. \A j, m \in 1 .. k + 1 : fs[j] = fs[m] => j = m
  BY <1>3
<1>17. \A i \in 1 .. n : /\ ps[i] = place(xs[i]) /\ xs[i] \in M /\ xs[i] \notin N
  BY <1>5, <1>6, <1>13 DEF Grows
<1>18. \A i, j \in 1 .. n : xs[i] = xs[j] => i = j
  BY <1>6 DEF Grows
<1>19. \A x \in M : x \in N \/ \E i \in 1 .. n : xs[i] = x
  BY <1>6, <1>13 DEF Grows
<1>20. \A i \in 1 .. n : inner(xs[i]) => above(xs[i]) \in N \/ \E j \in 1 .. i - 1 : xs[j] = above(xs[i])
  BY <1>6, <1>13 DEF Grows
<1>21. \A j \in 1 .. k + 1 : inner(fs[j]) =>
          above(fs[j]) \in M \/ \E m \in 1 .. j - 1 : fs[m] = above(fs[j])
  BY <1>1, <1>3, <1>13, FreshOrder, ZenonT(40)
<1>22. \A i \in 1 .. n + k + 1 : rs[i] = place(ys[i]) /\ ys[i] \in M2 /\ ys[i] \notin N
  <2>1. SUFFICES ASSUME NEW i \in 1 .. n + k + 1
                 PROVE  rs[i] = place(ys[i]) /\ ys[i] \in M2 /\ ys[i] \notin N
    OBVIOUS
  <2>2. CASE i \in 1 .. n
    BY <1>10, <1>11, <1>15, <1>17, <2>2
  <2>3. ASSUME NEW j \in 1 .. k + 1, i = n + j
        PROVE  rs[i] = place(ys[i]) /\ ys[i] \in M2 /\ ys[i] \notin N
    BY <1>4, <1>10, <1>11, <1>13, <1>15, <2>3
  <2>4. QED
    BY <1>12, <2>2, <2>3
<1>23. \A i, j \in 1 .. n + k + 1 : ys[i] = ys[j] => i = j
  <2>1. SUFFICES ASSUME NEW i \in 1 .. n + k + 1, NEW j \in 1 .. n + k + 1, ys[i] = ys[j]
                 PROVE  i = j
    OBVIOUS
  <2>2. \A l \in 1 .. n : ys[l] \in M
    BY <1>10, <1>17
  <2>3. \A m \in 1 .. k + 1 : ys[n + m] \notin M
    BY <1>10, <1>15
  <2>4. CASE i \in 1 .. n /\ j \in 1 .. n
    BY <1>10, <1>18, <2>1, <2>4
  <2>5. ASSUME NEW l \in 1 .. k + 1, NEW m \in 1 .. k + 1, i = n + l, j = n + m
        PROVE  i = j
    BY <1>10, <1>16, <2>1, <2>5
  <2>6. CASE i \in 1 .. n /\ j \notin 1 .. n
    BY <1>12, <2>1, <2>2, <2>3, <2>6
  <2>7. CASE i \notin 1 .. n /\ j \in 1 .. n
    BY <1>12, <2>1, <2>2, <2>3, <2>7
  <2>8. QED
    BY <1>12, <2>4, <2>5, <2>6, <2>7
<1>24. \A x \in M2 : x \in N \/ \E i \in 1 .. n + k + 1 : ys[i] = x
  <2>1. SUFFICES ASSUME NEW x \in M2, x \notin N
                 PROVE  \E i \in 1 .. n + k + 1 : ys[i] = x
    OBVIOUS
  <2>2. CASE x \in M
    <3>1. PICK i \in 1 .. n : xs[i] = x
      BY <1>19, <2>1, <2>2
    <3>2. i \in 1 .. n + k + 1 /\ ys[i] = x
      BY <1>10, <3>1
    <3>3. QED
      BY <3>2
  <2>3. CASE x \notin M
    <3>1. PICK j \in 1 .. k + 1 : fs[j] = x
      <4>1. CASE x = t
        <5>1. k + 1 \in 1 .. k + 1 /\ fs[k + 1] = x
          BY <1>3, <4>1
        <5>2. QED
          BY <5>1
      <4>2. CASE x # t
        <5>1. x \in Int /\ -T - x \in 1 .. k + 1 /\ -T - x # k + 1
          BY <1>13, <1>14, <2>3, <4>2
        <5>2. fs[-T - x] = x
          BY <1>3, <5>1
        <5>3. QED
          BY <5>1, <5>2
      <4>3. QED
        BY <4>1, <4>2
    <3>2. n + j \in 1 .. n + k + 1
      OBVIOUS
    <3>3. ys[n + j] = x
      BY <1>10, <3>1
    <3>4. QED
      BY <3>2, <3>3
  <2>4. QED
    BY <2>2, <2>3
<1>25. \A i \in 1 .. n + k + 1 : inner(ys[i]) =>
          above(ys[i]) \in N \/ \E j \in 1 .. i - 1 : ys[j] = above(ys[i])
  <2>1. SUFFICES ASSUME NEW i \in 1 .. n + k + 1, inner(ys[i]), above(ys[i]) \notin N
                 PROVE  \E j \in 1 .. i - 1 : ys[j] = above(ys[i])
    OBVIOUS
  <2>2. CASE i \in 1 .. n
    <3>1. PICK j \in 1 .. i - 1 : xs[j] = above(xs[i])
      BY <1>10, <1>20, <2>1, <2>2
    <3>2. ys[j] = xs[j] /\ ys[i] = xs[i]
      BY <1>10, <2>2, <3>1
    <3>3. QED
      BY <3>1, <3>2
  <2>3. ASSUME NEW l \in 1 .. k + 1, i = n + l
        PROVE  \E j \in 1 .. i - 1 : ys[j] = above(ys[i])
    <3>1. ys[i] = fs[l]
      BY <1>10, <2>3
    <3>2. CASE above(fs[l]) \in M
      <4>1. PICK j \in 1 .. n : xs[j] = above(fs[l])
        BY <1>19, <2>1, <3>1, <3>2
      <4>2. j \in 1 .. i - 1 /\ ys[j] = above(ys[i])
        BY <1>10, <2>3, <3>1, <4>1
      <4>3. QED
        BY <4>2
    <3>3. CASE above(fs[l]) \notin M
      <4>1. PICK m \in 1 .. l - 1 : fs[m] = above(fs[l])
        BY <1>21, <2>1, <3>1, <3>3
      <4>2. n + m \in 1 .. i - 1 /\ m \in 1 .. k + 1
        BY <2>3, <4>1
      <4>3. ys[n + m] = above(ys[i])
        BY <1>10, <3>1, <4>1, <4>2
      <4>4. QED
        BY <4>2, <4>3
    <3>4. QED
      BY <3>2, <3>3
  <2>4. QED
    BY <1>12, <2>2, <2>3
<1>26. Len(ys) = (t + 1 + Tables(t + 1)) - (c + Tables(c))
  <2>1. n + k + 1 = (t + 1 + (T + k)) - (c + U)
    BY <1>6
  <2>2. QED
    BY <1>1, <1>2, <1>10, <2>1
<1>27. N \subseteq M2
  BY <1>13, <1>15
<1>28. Grows(ys, c, t + 1)
  BY <1>5, <1>8, <1>10, <1>11, <1>13, <1>14, <1>22, <1>23, <1>24, <1>25, <1>26, <1>27, Zenon DEF Grows
<1>29. QED
  BY <1>28

\* Such a list of blocks there is.
LEMMA GrowsExists ==
  ASSUME NEW c \in Nat, NEW t \in Nat, c <= t
  PROVE  \E xs : Grows(xs, c, t)
<1> DEFINE bad == {u \in Nat : c <= u /\ ~\E xs : Grows(xs, c, u)}
<1>1. SUFFICES ASSUME bad # {} PROVE FALSE
  OBVIOUS
<1>2. PICK u \in bad : \A j \in bad : u <= j
  <2>1. bad \in SUBSET Nat
    OBVIOUS
  <2> HIDE DEF bad
  <2>2. QED
    BY <1>1, <2>1, LeastOf
<1>3. u \in Nat /\ c <= u /\ \A xs : ~Grows(xs, c, u)
  OBVIOUS
<1>4. Grows(<<>>, c, c)
  <2>1. places(c, c) = <<>>
    BY PlacesNext
  <2>2. <<>> \in Seq(Int) /\ Len(<<>>) = 0 /\ 1 .. 0 = {}
    OBVIOUS
  <2>3. 0 = (c + Tables(c)) - (c + Tables(c))
    BY TablesOf
  <2>4. QED
    BY <2>1, <2>2, <2>3 DEF Grows
<1>5. u # c
  BY <1>3, <1>4
<1>6. PICK v \in Nat : u = v + 1 /\ c <= v
  <2>1. u - 1 \in Nat /\ u = (u - 1) + 1 /\ c <= u - 1
    BY <1>3, <1>5
  <2>2. QED
    BY <2>1
<1>7. v \notin bad
  BY <1>2, <1>6
<1>8. PICK xs : Grows(xs, c, v)
  BY <1>6, <1>7
<1>9. \E ys : Grows(ys, c, u)
  BY <1>6, <1>8, GrowsNext
<1>10. QED
  BY <1>3, <1>9

-------------------------------------------------------------------------------
\* The elements of S below a.
under(S, a) == {b \in S : b < a}

\* Every number below the size of a finite set of numbers is that of the
\* elements below one of them.
LEMMA Ranks ==
  ASSUME NEW S \in SUBSET Nat, IsFiniteSet(S)
  PROVE  /\ Cardinality(S) \in Nat
         /\ \A a \in S : Cardinality(under(S, a)) \in 0 .. Cardinality(S) - 1
         /\ \A a, b \in S : Cardinality(under(S, a)) = Cardinality(under(S, b)) => a = b
         /\ \A i \in 1 .. Cardinality(S) : \E a \in S : Cardinality(under(S, a)) = i - 1
<1> DEFINE n == Cardinality(S)
           rank == [a \in S |-> Cardinality(under(S, a))]
<1>1. n \in Nat
  BY FS_CardinalityType
<1>2. \A a \in S : under(S, a) \in SUBSET S /\ a \notin under(S, a)
  BY DEF under
<1>3. \A a \in S : IsFiniteSet(under(S, a)) /\ rank[a] \in Nat
  BY <1>2, FS_Subset, FS_CardinalityType
<1>4. ASSUME NEW a \in S, NEW b \in S, a < b
      PROVE  rank[a] < rank[b]
  <2>1. under(S, a) \in SUBSET under(S, b) /\ a \in under(S, b)
    <3>1. ASSUME NEW x \in under(S, a) PROVE x \in under(S, b)
      <4>1. x \in S /\ x \in Nat /\ x < a /\ a \in Nat /\ b \in Nat
        BY DEF under
      <4>2. x < b
        BY <1>4, <4>1
      <4>3. QED
        BY <4>1, <4>2 DEF under
    <3>2. QED
      BY <1>4, <3>1 DEF under
  <2>2. Cardinality(under(S, a)) <= Cardinality(under(S, b))
        /\ Cardinality(under(S, a)) # Cardinality(under(S, b))
    BY <1>2, <1>3, <2>1, FS_Subset
  <2>3. QED
    BY <1>3, <2>2
<1>5. ASSUME NEW a \in S
      PROVE  rank[a] \in 0 .. n - 1
  <2>1. Cardinality(under(S, a)) <= n /\ Cardinality(under(S, a)) # n
    BY <1>2, FS_Subset
  <2>2. QED
    BY <1>1, <1>3, <2>1
<1>6. \A a, b \in S : rank[a] = rank[b] => a = b
  <2>1. SUFFICES ASSUME NEW a \in S, NEW b \in S, rank[a] = rank[b], a # b
                 PROVE  FALSE
    OBVIOUS
  <2>2. a < b \/ b < a
    BY <2>1
  <2>3. rank[a] < rank[b] \/ rank[b] < rank[a]
    BY <1>4, <2>2
  <2>4. QED
    BY <1>3, <2>1, <2>3
<1>7. IsFiniteSet(0 .. n - 1) /\ Cardinality(0 .. n - 1) = n
  <2> HIDE DEF n
  <2>1. QED
    BY <1>1, FS_Interval
<1>8. rank \in Injection(S, 0 .. n - 1)
  BY <1>5, <1>6 DEF Injection, IsInjective
<1>9. rank \in Surjection(S, 0 .. n - 1)
  BY <1>7, <1>8, FS_Injection
<1>10. \A i \in 1 .. n : \E a \in S : rank[a] = i - 1
  <2>1. \A k \in 0 .. n - 1 : \E a \in S : rank[a] = k
    BY <1>9 DEF Surjection
  <2>2. \A i \in 1 .. n : i - 1 \in 0 .. n - 1
    BY <1>1
  <2>3. QED
    BY <2>1, <2>2
<1>11. QED
  BY <1>1, <1>5, <1>6, <1>10

\* What alloc_data hands out: free blocks, each one once, the lowest first.
Allocated(got, n) ==
    /\ \A i \in 1 .. n : /\ got[i] \in Int /\ got[i] - 1 \in free_bits
                         /\ Cardinality(under(free_bits, got[i] - 1)) = i - 1
    /\ \A i, j \in 1 .. n : got[i] = got[j] => i = j

\* There are finitely many free bits.
LEMMA FreeBits == free_bits \in SUBSET Nat /\ IsFiniteSet(free_bits) /\ Cardinality(free_bits) \in Nat
<1>1. PICK m \in Nat : m = BitmapBits
  BY EasyAssumption
<1>2. IsFiniteSet(0 .. m - 1)
  BY FS_Interval
<1>3. free_bits \in SUBSET (0 .. m - 1)
  BY <1>1 DEF free_bits
<1>4. IsFiniteSet(free_bits)
  BY <1>2, <1>3, FS_Subset
<1>5. QED
  BY <1>3, <1>4, FS_CardinalityType

\* alloc_data hands out n free blocks when there are as many.
LEMMA AllocData ==
  ASSUME NEW n \in Nat, n <= Cardinality(free_bits)
  PROVE  /\ Allocated(alloc_data(n), n) /\ alloc_data(n) \in Seq(Int) /\ Len(alloc_data(n)) = n
<1>1. free_bits \in SUBSET Nat /\ IsFiniteSet(free_bits) /\ Cardinality(free_bits) \in Nat
  BY FreeBits
<1>2. PICK got : got = alloc_data(n)
  OBVIOUS
<1> DEFINE nth(i) == CHOOSE b \in free_bits : Cardinality(under(free_bits, b)) = i - 1
<1>3. got = [i \in 1 .. n |-> 1 + nth(i)]
  BY <1>2, Zenon DEF alloc_data, under
<1>4. \A i \in 1 .. n : nth(i) \in free_bits /\ Cardinality(under(free_bits, nth(i))) = i - 1
  <2>1. \A i \in 1 .. n : i \in 1 .. Cardinality(free_bits)
    BY <1>1
  <2>2. \A i \in 1 .. n : \E a \in free_bits : Cardinality(under(free_bits, a)) = i - 1
    BY <1>1, <2>1, Ranks
  <2>3. QED
    BY <2>2
<1> HIDE DEF nth
<1>5. \A i \in 1 .. n : /\ got[i] \in Int /\ got[i] - 1 = nth(i) /\ got[i] = 1 + nth(i)
  <2>1. SUFFICES ASSUME NEW i \in 1 .. n
                 PROVE  /\ got[i] \in Int /\ got[i] - 1 = nth(i) /\ got[i] = 1 + nth(i)
    OBVIOUS
  <2>2. PICK k \in Nat : k = nth(i)
    BY <1>1, <1>4
  <2>3. got[i] = 1 + k
    BY <1>3, <2>2
  <2>4. QED
    BY <2>2, <2>3
<1>6. ASSUME NEW i \in 1 .. n, NEW j \in 1 .. n, got[i] = got[j]
      PROVE  i = j
  <2>1. nth(i) = nth(j)
    BY <1>5, <1>6
  <2>2. i - 1 = j - 1
    BY <1>4, <2>1
  <2>3. QED
    BY <2>2
<1>7. Allocated(got, n)
  BY <1>1, <1>4, <1>5, <1>6 DEF Allocated
<1>8. got \in [1 .. n -> Int]
  BY <1>3, <1>5
<1>9. got \in Seq(Int) /\ Len(got) = n
  BY <1>8
<1>10. QED
  BY <1>2, <1>7, <1>9

-------------------------------------------------------------------------------
\* What a cell holds: data, a pointer, or a directory entry.
Entry == [name : Name \cup FullName, inode_number : Inode]
Value == Int \cup Entry
Blocks == [Device -> [Cell -> Value]]
DiskInode == [size : Nat, direct : [0 .. DirectCount - 1 -> Int], indirect1 : Int, indirect2 : Int]
Outcome == [ino : DiskInode, store : Blocks, bits : SUBSET Int, ok : BOOLEAN]

\* The pointer to block x that is in the inode.
outer(ino, x) ==
    IF x >= 0 THEN ino.direct[x] ELSE IF x = -1 THEN ino.indirect1 ELSE ino.indirect2

\* The pointers to the blocks of N are in place, and A gives the blocks.
Tree(ino, st, N, A) ==
    \A x \in N :
        /\ inner(x) => /\ above(x) \in N /\ A[above(x)] \in Device /\ slot(x) \in Cell
                       /\ st[A[above(x)]][slot(x)] = A[x]
        /\ ~inner(x) => outer(ino, x) = A[x]

\* The way to a block of the tree.
LEMMA TreePointer ==
  ASSUME NEW N \in SUBSET Int, NEW A, NEW ino, NEW st, Tree(ino, st, N, A), NEW x \in N
  PROVE  pointer(st, ino, x) = A[x]
<1>1. PICK D \in Nat \ {0}, P \in Nat \ {0}, B \in Nat :
        D = DirectCount /\ P = PerBlock /\ B = INDIRECT1_BOUND /\ B = D + P
  BY Sizes
<1>2. ASSUME NEW y \in N, inner(y)
      PROVE  /\ above(y) \in N /\ cell(st, A[above(y)], slot(y)) = A[y]
  BY <1>2 DEF Tree, cell
<1>3. ASSUME NEW y \in N, ~inner(y)
      PROVE  outer(ino, y) = A[y]
  BY <1>3 DEF Tree
<1>4. ~inner(-1) /\ ~inner(-2)
  BY Sizes DEF inner
<1>5. -1 \in N => ino.indirect1 = A[-1]
  BY <1>3, <1>4 DEF outer
<1>6. -2 \in N => ino.indirect2 = A[-2]
  BY <1>3, <1>4 DEF outer
<1>7. ASSUME NEW y \in N, y <= -3
      PROVE  cell(st, ino.indirect2, -3 - y) = A[y]
  <2>1. inner(y) /\ above(y) = -2 /\ slot(y) = -3 - y
    BY <1>7 DEF inner, above, slot
  <2>2. QED
    BY <1>2, <1>6, <2>1
<1>8. CASE x <= -3
  <2>1. ~(x >= 0) /\ x # -1 /\ x # -2
    BY <1>8
  <2>2. QED
    BY <1>7, <1>8, <2>1 DEF pointer
<1>9. CASE x = -1 \/ x = -2
  BY <1>5, <1>6, <1>9 DEF pointer
<1>10. CASE x >= 0 /\ x < D
  <2>1. ~inner(x)
    BY <1>1, <1>10 DEF inner
  <2>2. QED
    BY <1>1, <1>3, <1>10, <2>1 DEF pointer, get_block_id, outer
<1>11. CASE x >= D /\ x < B
  <2>1. inner(x) /\ above(x) = -1 /\ slot(x) = x - D /\ x >= 0 /\ ~(x < D)
    BY <1>1, <1>11 DEF inner, above, slot
  <2>2. cell(st, ino.indirect1, x - D) = A[x]
    BY <1>2, <1>5, <2>1
  <2>3. get_block_id(st, ino, x) = cell(st, ino.indirect1, x - D)
    BY <1>1, <1>11, <2>1 DEF get_block_id
  <2>4. QED
    BY <2>1, <2>2, <2>3 DEF pointer
<1>12. CASE x >= B
  <2>1. x \in Nat /\ x >= INDIRECT1_BOUND
    BY <1>1, <1>12
  <2>2. PICK r \in Nat : r = row(x)
    BY <2>1, Rows
  <2>3. inner(x) /\ above(x) = -3 - r /\ slot(x) = col(x) /\ x >= 0 /\ ~(x < D) /\ ~(x < B)
    BY <1>1, <1>12, <2>2 DEF inner, above, slot
  <2>4. PICK y \in N : y = -3 - r /\ y <= -3 /\ -3 - y = r
    BY <1>2, <2>3
  <2>5. cell(st, ino.indirect2, r) = A[y]
    BY <1>7, <2>4
  <2>6. cell(st, A[y], col(x)) = A[x]
    BY <1>2, <2>3, <2>4
  <2>7. get_block_id(st, ino, x) = cell(st, cell(st, ino.indirect2, row(x)), col(x))
    BY <1>1, <2>3, Zenon DEF get_block_id, row, col
  <2>8. QED
    BY <2>2, <2>3, <2>5, <2>6, <2>7 DEF pointer
<1>13. QED
  BY <1>1, <1>8, <1>9, <1>10, <1>11, <1>12

\* What put does with block b of node x, by the kind of node.
PutEffect(d, A, x, b) ==
    /\ inner(x) =>
         put(d, place(x), b) =
           IF A[above(x)] \in Device /\ slot(x) \in Cell
           THEN [d EXCEPT !.store[A[above(x)]][slot(x)] = b]
           ELSE [d EXCEPT !.ok = FALSE]
    /\ x >= 0 /\ x < DirectCount => put(d, place(x), b) = [d EXCEPT !.ino.direct[x] = b]
    /\ x = -1 => put(d, place(x), b) = [d EXCEPT !.ino.indirect1 = b]
    /\ x = -2 => put(d, place(x), b) = [d EXCEPT !.ino.indirect2 = b]

\* put, by the kind of block that is placed.
LEMMA PutIs ==
  ASSUME NEW d \in Outcome, NEW N \in SUBSET Int, NEW A, Tree(d.ino, d.store, N, A),
         NEW x \in Int, inner(x) => above(x) \in N, NEW b
  PROVE  PutEffect(d, A, x, b)
<1>0. SUFFICES
        /\ inner(x) =>
             put(d, place(x), b) =
               IF A[above(x)] \in Device /\ slot(x) \in Cell
               THEN [d EXCEPT !.store[A[above(x)]][slot(x)] = b]
               ELSE [d EXCEPT !.ok = FALSE]
        /\ x >= 0 /\ x < DirectCount => put(d, place(x), b) = [d EXCEPT !.ino.direct[x] = b]
        /\ x = -1 => put(d, place(x), b) = [d EXCEPT !.ino.indirect1 = b]
        /\ x = -2 => put(d, place(x), b) = [d EXCEPT !.ino.indirect2 = b]
  BY Zenon DEF PutEffect
<1>1. PICK D \in Nat \ {0}, P \in Nat \ {0}, B \in Nat :
        D = DirectCount /\ P = PerBlock /\ B = INDIRECT1_BOUND /\ B = D + P
  BY Sizes
<1>2. \A y \in N : pointer(d.store, d.ino, y) = A[y]
  BY TreePointer
<1>3. PICK p : p = place(x)
  OBVIOUS
<1>4. CASE x >= 0 /\ x < D
  <2>1. ~(x >= B) /\ ~(x >= D)
    BY <1>1, <1>4
  <2>1a. ~inner(x) /\ x # -1 /\ x # -2
    BY <1>1, <1>4 DEF inner
  <2>2. p = <<"direct", x>> /\ ~inner(x) /\ x # -1 /\ x # -2
    BY <1>1, <1>3, <1>4, <2>1, <2>1a, Zenon DEF place
  <2>3. p[1] = "direct" /\ p[2] = x
    BY <2>2
  <2>4. QED
    BY <1>3, <2>2, <2>3 DEF put
<1>5. CASE x = -1
  <2>1. ~(x >= B) /\ ~(x >= D) /\ ~(x >= 0)
    BY <1>1, <1>5
  <2>1a. ~inner(x) /\ -2 # -1
    BY <1>1, <1>5 DEF inner
  <2>2. p = <<"indirect1">> /\ ~inner(x)
    BY <1>1, <1>3, <1>5, <2>1, <2>1a, Zenon DEF place
  <2>3. p[1] = "indirect1" /\ Len(p) = 1 /\ p[1] # "direct"
    BY <2>2
  <2>4. put(d, p, b) = [d EXCEPT !.ino = [@ EXCEPT !["indirect1"] = b]]
    BY <2>3, Zenon DEF put
  <2>5. [d EXCEPT !.ino = [@ EXCEPT !["indirect1"] = b]] = [d EXCEPT !.ino.indirect1 = b]
    OBVIOUS
  <2>6. QED
    BY <1>3, <1>5, <2>1, <2>2, <2>4, <2>5
<1>6. CASE x = -2
  <2>1. ~(x >= B) /\ ~(x >= D) /\ ~(x >= 0)
    BY <1>1, <1>6
  <2>1a. ~inner(x) /\ -2 # -1
    BY <1>1, <1>6 DEF inner
  <2>2. p = <<"indirect2">> /\ ~inner(x)
    BY <1>1, <1>3, <1>6, <2>1, <2>1a, Zenon DEF place
  <2>3. p[1] = "indirect2" /\ Len(p) = 1 /\ p[1] # "direct"
    BY <2>2
  <2>4. put(d, p, b) = [d EXCEPT !.ino = [@ EXCEPT !["indirect2"] = b]]
    BY <2>3, Zenon DEF put
  <2>5. [d EXCEPT !.ino = [@ EXCEPT !["indirect2"] = b]] = [d EXCEPT !.ino.indirect2 = b]
    OBVIOUS
  <2>6. QED
    BY <1>3, <1>6, <2>1, <2>2, <2>4, <2>5
<1>7. CASE inner(x)
  <2>1. ASSUME NEW a, table_of(d, p) = A[above(x)], p[Len(p)] = slot(x), Len(p) # 1, p[1] # "direct"
        PROVE  put(d, p, b) = IF A[above(x)] \in Device /\ slot(x) \in Cell
                THEN [d EXCEPT !.store[A[above(x)]][slot(x)] = b]
                ELSE [d EXCEPT !.ok = FALSE]
    BY <2>1, Zenon DEF put
  <2>2. table_of(d, p) = A[above(x)] /\ p[Len(p)] = slot(x) /\ Len(p) # 1 /\ p[1] # "direct"
    <3>1. CASE x <= -3
      <4>1. ~(x >= B) /\ ~(x >= D) /\ ~(x >= 0) /\ x # -1 /\ x # -2
        BY <1>1, <3>1
      <4>2. p = <<"indirect2", -3 - x>> /\ above(x) = -2 /\ slot(x) = -3 - x
        BY <1>1, <1>3, <3>1, <4>1 DEF place, above, slot
      <4>3. Len(p) = 2 /\ p[1] = "indirect2" /\ p[2] = -3 - x
        BY <4>2
      <4>4. table_of(d, p) = d.ino["indirect2"]
        BY <4>3 DEF table_of
      <4>5. d.ino["indirect2"] = d.ino.indirect2
        OBVIOUS
      <4>6. A[-2] = d.ino.indirect2
        <5>1. -2 \in N /\ ~(-2 >= 0) /\ -2 # -1
          BY <1>7, <4>2
        <5>2. QED
          BY <1>2, <5>1 DEF pointer
      <4>7. QED
        BY <4>2, <4>3, <4>4, <4>5, <4>6
    <3>2. CASE x >= D /\ x < B
      <4>1. ~(x >= B) /\ x >= D /\ x > -3
        BY <1>1, <3>2
      <4>2. p = <<"indirect1", x - D>> /\ above(x) = -1 /\ slot(x) = x - D
        <5>1. above(x) = -1 /\ slot(x) = x - D
          BY <1>1, <3>2, <4>1 DEF above, slot
        <5>2. QED
          BY <1>1, <1>3, <4>1, <5>1, Zenon DEF place
      <4>3. Len(p) = 2 /\ p[1] = "indirect1" /\ p[2] = x - D
        BY <4>2
      <4>4. table_of(d, p) = d.ino["indirect1"]
        BY <4>3 DEF table_of
      <4>5. d.ino["indirect1"] = d.ino.indirect1
        OBVIOUS
      <4>6. A[-1] = d.ino.indirect1
        <5>1. -1 \in N /\ ~(-1 >= 0)
          BY <1>7, <4>2
        <5>2. QED
          BY <1>2, <5>1 DEF pointer
      <4>7. QED
        BY <4>2, <4>3, <4>4, <4>5, <4>6
    <3>3. CASE x >= B
      <4>1. PICK r \in Nat : r = row(x)
        <5>1. x \in Nat /\ x >= INDIRECT1_BOUND
          BY <1>1, <3>3
        <5>2. QED
          BY <5>1, Rows
      <4>2. p = <<"indirect2", r, col(x)>> /\ above(x) = -3 - r /\ slot(x) = col(x)
        <5>1. above(x) = -3 - r /\ slot(x) = col(x)
          BY <1>1, <3>3, <4>1 DEF above, slot
        <5>2. QED
          BY <1>1, <1>3, <3>3, <4>1, <5>1, Zenon DEF place
      <4>3. Len(p) = 3 /\ p[1] = "indirect2" /\ p[2] = r /\ p[3] = col(x)
        BY <4>2
      <4>4. table_of(d, p) = cell(d.store, d.ino.indirect2, r)
        BY <4>3 DEF table_of
      <4>5. PICK y \in N : y = -3 - r /\ ~(y >= 0) /\ y # -1 /\ y # -2 /\ -3 - y = r
        BY <1>7, <4>2
      <4>6. A[y] = cell(d.store, d.ino.indirect2, r)
        BY <1>2, <4>5 DEF pointer
      <4>7. QED
        BY <4>2, <4>3, <4>4, <4>5, <4>6
    <3>4. QED
      BY <1>1, <1>7, <3>1, <3>2, <3>3 DEF inner
  <2>3. ~(x >= 0 /\ x < D) /\ x # -1 /\ x # -2
    BY <1>1, <1>7 DEF inner
  <2>4. QED
    BY <1>1, <1>3, <2>1, <2>2, <2>3
<1>8. QED
  BY <1>1, <1>4, <1>5, <1>6, <1>7 DEF inner

\* e is d with block x of A put into the tree over N.
Placed(e, d, N, A, x) ==
    /\ e \in Outcome /\ e.ino.size = d.ino.size /\ e.bits = d.bits
    /\ e.ok => /\ d.ok /\ Tree(e.ino, e.store, N \cup {x}, A)
               /\ \A b \in Device : (\A y \in N : y < 0 => A[y] # b) => e.store[b] = d.store[b]
    /\ d.ok /\ (inner(x) => A[above(x)] \in Device /\ slot(x) \in Cell) => e.ok

\* A block of pointers has a number below 0.
LEMMA AboveNegative ==
  ASSUME NEW x \in Int, inner(x)
  PROVE  above(x) \in Int /\ above(x) < 0 /\ above(x) # x
<1>1. CASE x >= INDIRECT1_BOUND
  <2>1. x \in Nat
    BY <1>1, Sizes
  <2>2. PICK r \in Nat : r = row(x)
    BY <1>1, <2>1, Rows
  <2>3. QED
    BY <1>1, <2>1, <2>2 DEF above
<1>2. CASE ~(x >= INDIRECT1_BOUND)
  BY <1>2, Sizes DEF above, inner
<1>3. QED
  BY <1>1, <1>2

\* put extends the tree by one block, or fails because the block above is not on
\* the device.
LEMMA PutStep ==
  ASSUME NEW M \in SUBSET Int, NEW A, \A y, z \in M : A[y] = A[z] => y = z,
         NEW N \in SUBSET M, NEW x \in M, x \notin N, A[x] \in Int,
         inner(x) => above(x) \in N, ~inner(x) => x < DirectCount /\ x >= -2,
         NEW d \in Outcome, Tree(d.ino, d.store, N, A)
  PROVE  Placed(put(d, place(x), A[x]), d, N, A, x)
<1>1. PICK e : e = put(d, place(x), A[x])
  OBVIOUS
<1>2. PICK ino, st : ino = d.ino /\ st = d.store /\ ino \in DiskInode /\ st \in Blocks
  BY DEF Outcome
<1>3. PICK b \in Int : b = A[x]
  OBVIOUS
<1>4. N \in SUBSET Int /\ x \in Int
  OBVIOUS
<1>5. Tree(ino, st, N, A)
  BY <1>2
<1>6. ASSUME NEW y \in N
      PROVE  /\ y \in Int /\ y # x /\ y \in M
             /\ inner(y) => /\ above(y) \in N /\ A[above(y)] \in Device /\ slot(y) \in Cell
                            /\ st[A[above(y)]][slot(y)] = A[y]
             /\ ~inner(y) => outer(ino, y) = A[y]
  BY <1>5 DEF Tree
<1>6a. Tree(d.ino, d.store, N, A) /\ (inner(x) => above(x) \in N)
  OBVIOUS
<1>6b. PutEffect(d, A, x, A[x])
  BY <1>4, <1>6a, PutIs, Zenon
<1>6c. PutEffect(d, A, x, b)
  BY <1>3, <1>6b
<1>6d. e = put(d, place(x), b)
  BY <1>1, <1>3
<1>7. CASE inner(x)
  <2>1. PICK t, k : t = A[above(x)] /\ k = slot(x)
    OBVIOUS
  <2>2. e = IF t \in Device /\ k \in Cell THEN [d EXCEPT !.store[t][k] = b] ELSE [d EXCEPT !.ok = FALSE]
    BY <1>6c, <1>6d, <1>7, <2>1 DEF PutEffect
  <2>3. above(x) \in N /\ above(x) < 0
    BY <1>4, <1>7, AboveNegative
  <2>4. CASE ~(t \in Device /\ k \in Cell)
    <3>1. e = [d EXCEPT !.ok = FALSE]
      BY <2>2, <2>4
    <3>2. e \in Outcome /\ e.ino = d.ino /\ e.bits = d.bits /\ e.ok = FALSE
      BY <3>1 DEF Outcome
    <3>3. QED
      BY <1>1, <1>7, <2>1, <2>4, <3>2 DEF Placed
  <2>5. CASE t \in Device /\ k \in Cell
    <3>1. e = [d EXCEPT !.store[t][k] = b]
      BY <2>2, <2>5
    <3>2. e.ino = ino /\ e.bits = d.bits /\ e.ok = d.ok /\ e.store = [st EXCEPT ![t][k] = b]
      BY <1>2, <3>1 DEF Outcome
    <3>3. PICK s : s = e.store
      OBVIOUS
    <3>4. s = [st EXCEPT ![t][k] = b]
      BY <3>2, <3>3
    <3>5. st \in [Device -> [Cell -> Value]] /\ b \in Value
      BY <1>2 DEF Blocks, Value
    <3>6. s \in Blocks
      BY <2>5, <3>4, <3>5 DEF Blocks
    <3>7. /\ s[t][k] = b
          /\ \A t2 \in Device : t2 # t => s[t2] = st[t2]
          /\ \A k2 \in Cell : k2 # k => s[t][k2] = st[t][k2]
      BY <2>5, <3>4, <3>5
    <3>8. e \in Outcome
      <4>1. d = [ino |-> d.ino, store |-> d.store, bits |-> d.bits, ok |-> d.ok]
        BY DEF Outcome
      <4>2. e = [ino |-> d.ino, store |-> s, bits |-> d.bits, ok |-> d.ok]
        BY <1>2, <3>1, <3>4, <4>1
      <4>3. d.ino \in DiskInode /\ d.bits \in SUBSET Int /\ d.ok \in BOOLEAN
        BY DEF Outcome
      <4>4. QED
        BY <3>6, <4>2, <4>3 DEF Outcome
    <3>9. ASSUME NEW y \in N
          PROVE  /\ inner(y) => s[A[above(y)]][slot(y)] = A[y]
                 /\ ~inner(y) => outer(ino, y) = A[y]
      <4>1. CASE inner(y)
        <5>1. PICK t2, k2 : /\ t2 = A[above(y)] /\ k2 = slot(y) /\ t2 \in Device /\ k2 \in Cell
                            /\ st[t2][k2] = A[y]
          BY <1>6, <4>1
        <5>2. ~(t2 = t /\ k2 = k)
          <6>1. SUFFICES ASSUME t2 = t, k2 = k PROVE FALSE
            OBVIOUS
          <6>2. above(x) = above(y)
            <7>1. above(y) \in M /\ above(x) \in M
              BY <1>6, <2>3, <4>1
            <7>2. A[above(y)] = A[above(x)]
              BY <2>1, <5>1, <6>1
            <7>3. QED
              BY <7>1, <7>2
          <6>3. slot(x) = slot(y)
            BY <2>1, <5>1, <6>1
          <6>4. x = y
            BY <1>4, <1>6, <1>7, <4>1, <6>2, <6>3, SlotUnique
          <6>5. QED
            BY <1>6, <6>4
        <5>3. s[t2][k2] = st[t2][k2]
          BY <3>7, <5>1, <5>2
        <5>4. QED
          BY <4>1, <5>1, <5>3
      <4>2. CASE ~inner(y)
        BY <1>6, <4>2
      <4>3. QED
        BY <4>1, <4>2
    <3>10. s[A[above(x)]][slot(x)] = A[x]
      BY <1>3, <2>1, <3>7
    <3>11. Tree(ino, s, N \cup {x}, A)
      <4>1. SUFFICES ASSUME NEW y \in N \cup {x}
                     PROVE  /\ inner(y) => /\ above(y) \in N \cup {x} /\ A[above(y)] \in Device
                                           /\ slot(y) \in Cell /\ s[A[above(y)]][slot(y)] = A[y]
                            /\ ~inner(y) => outer(ino, y) = A[y]
        BY DEF Tree
      <4>2. CASE y = x
        BY <1>7, <2>1, <2>3, <2>5, <3>10, <4>2
      <4>3. CASE y \in N
        BY <1>6, <3>9, <4>3
      <4>4. QED
        BY <4>1, <4>2, <4>3
    <3>12. ASSUME NEW c \in Device, \A y \in N : y < 0 => A[y] # c
           PROVE  s[c] = st[c]
      <4>1. c # t
        BY <2>1, <2>3, <3>12
      <4>2. QED
        BY <3>7, <4>1
    <3>13. QED
      BY <1>1, <1>2, <3>2, <3>3, <3>8, <3>11, <3>12 DEF Placed
  <2>6. QED
    BY <2>4, <2>5
<1>8. CASE ~inner(x)
  <2>1. PICK i : /\ e = [d EXCEPT !.ino = i] /\ i \in DiskInode /\ i.size = ino.size
                 /\ outer(i, x) = b
                 /\ \A y \in Int : y # x /\ ~inner(y) => outer(i, y) = outer(ino, y)
    <3>1. ino = [size |-> ino.size, direct |-> ino.direct, indirect1 |-> ino.indirect1, indirect2 |-> ino.indirect2]
      BY <1>2 DEF DiskInode
    <3>2. /\ ino.size \in Nat /\ ino.direct \in [0 .. DirectCount - 1 -> Int]
          /\ ino.indirect1 \in Int /\ ino.indirect2 \in Int
      BY <1>2 DEF DiskInode
    <3>3. CASE x >= 0 /\ x < DirectCount
      <4>1. e = [d EXCEPT !.ino.direct[x] = b]
        BY <1>6c, <1>6d, <3>3, Zenon DEF PutEffect
      <4>2. PICK i : i = [ino EXCEPT !.direct[x] = b]
        OBVIOUS
      <4>3. e = [d EXCEPT !.ino = i]
        BY <1>2, <4>1, <4>2
      <4>4. PICK dd : dd = [ino.direct EXCEPT ![x] = b]
        OBVIOUS
      <4>5. dd \in [0 .. DirectCount - 1 -> Int] /\ dd[x] = b
            /\ \A y \in 0 .. DirectCount - 1 : y # x => dd[y] = ino.direct[y]
        <5>1. x \in 0 .. DirectCount - 1
          BY <1>4, <3>3, Sizes
        <5>2. QED
          BY <3>2, <4>4, <5>1
      <4>6. i = [size |-> ino.size, direct |-> dd, indirect1 |-> ino.indirect1, indirect2 |-> ino.indirect2]
        BY <3>1, <4>2, <4>4
      <4>7. /\ i \in DiskInode /\ i.size = ino.size /\ i.direct = dd
            /\ i.indirect1 = ino.indirect1 /\ i.indirect2 = ino.indirect2
        BY <3>2, <4>5, <4>6 DEF DiskInode
      <4>8. outer(i, x) = b
        BY <3>3, <4>5, <4>7 DEF outer
      <4>9. ASSUME NEW y \in Int, y # x, ~inner(y)
            PROVE  outer(i, y) = outer(ino, y)
        <5>1. CASE y >= 0
          <6>1. y \in 0 .. DirectCount - 1
            BY <4>9, <5>1, Sizes DEF inner
          <6>2. QED
            BY <4>5, <4>7, <4>9, <5>1, <6>1 DEF outer
        <5>2. CASE ~(y >= 0)
          BY <4>7, <5>2 DEF outer
        <5>3. QED
          BY <5>1, <5>2
      <4>10. QED
        BY <4>3, <4>7, <4>8, <4>9
    <3>4. CASE x = -1
      <4>1. e = [d EXCEPT !.ino.indirect1 = b]
        BY <1>6c, <1>6d, <3>4, Zenon DEF PutEffect
      <4>2. PICK i : i = [ino EXCEPT !.indirect1 = b]
        OBVIOUS
      <4>3. e = [d EXCEPT !.ino = i]
        BY <1>2, <4>1, <4>2
      <4>4. i = [size |-> ino.size, direct |-> ino.direct, indirect1 |-> b, indirect2 |-> ino.indirect2]
        BY <3>1, <4>2
      <4>5. /\ i \in DiskInode /\ i.size = ino.size /\ i.direct = ino.direct
            /\ i.indirect1 = b /\ i.indirect2 = ino.indirect2
        BY <3>2, <4>4 DEF DiskInode
      <4>6. outer(i, x) = b /\ \A y \in Int : y # x /\ ~inner(y) => outer(i, y) = outer(ino, y)
        BY <3>4, <4>5 DEF outer
      <4>7. QED
        BY <4>3, <4>5, <4>6
    <3>5. CASE x = -2
      <4>1. e = [d EXCEPT !.ino.indirect2 = b]
        BY <1>6c, <1>6d, <3>5, Zenon DEF PutEffect
      <4>2. PICK i : i = [ino EXCEPT !.indirect2 = b]
        OBVIOUS
      <4>3. e = [d EXCEPT !.ino = i]
        BY <1>2, <4>1, <4>2
      <4>4. i = [size |-> ino.size, direct |-> ino.direct, indirect1 |-> ino.indirect1, indirect2 |-> b]
        BY <3>1, <4>2
      <4>5. /\ i \in DiskInode /\ i.size = ino.size /\ i.direct = ino.direct
            /\ i.indirect1 = ino.indirect1 /\ i.indirect2 = b
        BY <3>2, <4>4 DEF DiskInode
      <4>6. outer(i, x) = b
        BY <3>5, <4>5 DEF outer
      <4>7. ASSUME NEW y \in Int, y # x, ~inner(y) PROVE outer(i, y) = outer(ino, y)
        <5>1. y >= 0 \/ y = -1
          BY <3>5, <4>7 DEF inner
        <5>2. QED
          BY <4>5, <5>1 DEF outer
      <4>8. QED
        BY <4>3, <4>5, <4>6, <4>7
    <3>6. QED
      BY <1>4, <1>8, <3>3, <3>4, <3>5
  <2>2. d = [ino |-> d.ino, store |-> d.store, bits |-> d.bits, ok |-> d.ok]
    BY DEF Outcome
  <2>3. e = [ino |-> i, store |-> d.store, bits |-> d.bits, ok |-> d.ok]
    BY <2>1, <2>2
  <2>4. e \in Outcome /\ e.ino = i /\ e.store = st /\ e.bits = d.bits /\ e.ok = d.ok
    <3>1. d.store \in Blocks /\ d.bits \in SUBSET Int /\ d.ok \in BOOLEAN
      BY DEF Outcome
    <3>2. QED
      BY <1>2, <2>1, <2>3, <3>1 DEF Outcome
  <2>5. Tree(i, st, N \cup {x}, A)
    <3>1. SUFFICES ASSUME NEW y \in N \cup {x}
                   PROVE  /\ inner(y) => /\ above(y) \in N \cup {x} /\ A[above(y)] \in Device
                                         /\ slot(y) \in Cell /\ st[A[above(y)]][slot(y)] = A[y]
                          /\ ~inner(y) => outer(i, y) = A[y]
      BY DEF Tree
    <3>2. CASE y = x
      BY <1>3, <1>8, <2>1, <3>2
    <3>3. CASE y \in N
      BY <1>6, <2>1, <3>3
    <3>4. QED
      BY <3>1, <3>2, <3>3
  <2>6. QED
    BY <1>1, <1>2, <2>1, <2>4, <2>5 DEF Placed
<1>9. QED
  BY <1>7, <1>8

-------------------------------------------------------------------------------
\* h are the steps of place_all.
Steps(h, d, ps, bs, n) == h[0] = d /\ \A i \in 1 .. n : h[i] = put(h[i - 1], ps[i], bs[i])

\* place_all puts one block after the other.
LEMMA PlaceSteps ==
  ASSUME NEW d, NEW ps, NEW bs, Len(ps) \in Nat
  PROVE  \E h : Steps(h, d, ps, bs, Len(ps)) /\ place_all(d, ps, bs) = h[Len(ps)]
<1> DEFINE n == Len(ps)
           step(g) == [i \in 0 .. n |-> IF i = 0 THEN d ELSE put(g[i - 1], ps[i], bs[i])]
           h == CHOOSE g : g = step(g)
<1>1. place_all(d, ps, bs) = h[n]
  BY DEF place_all
<1>2. n \in Nat
  OBVIOUS
<1> HIDE DEF n
<1> DEFINE rec(g, i) == g = [k \in 0 .. i |-> IF k = 0 THEN d ELSE put(g[k - 1], ps[k], bs[k])]
<1>3. \E g : rec(g, n)
  <2> DEFINE bad == {i \in Nat : ~\E g : rec(g, i)}
  <2>1. SUFFICES ASSUME bad # {} PROVE FALSE
    BY <1>2
  <2>2. PICK i \in bad : \A j \in bad : i <= j
    <3>1. bad \in SUBSET Nat
      OBVIOUS
    <3> HIDE DEF bad
    <3>2. QED
      BY <2>1, <3>1, LeastOf
  <2>3. i \in Nat /\ \A g : ~rec(g, i)
    OBVIOUS
  <2>4. i # 0
    <3>1. rec([k \in {0} |-> d], 0)
      OBVIOUS
    <3>2. QED
      BY <2>3, <3>1
  <2>5. i - 1 \in Nat /\ ~(i <= i - 1)
    BY <2>3, <2>4
  <2>6. i - 1 \notin bad
    <3> HIDE DEF bad
    <3> QED
      BY <2>2, <2>5
  <2>7. PICK g : rec(g, i - 1)
    BY <2>5, <2>6
  <2> DEFINE g2 == [k \in 0 .. i |-> IF k = i THEN put(g[i - 1], ps[i], bs[i]) ELSE g[k]]
  <2>8. ASSUME NEW k \in 0 .. i
        PROVE  g2[k] = IF k = 0 THEN d ELSE put(g2[k - 1], ps[k], bs[k])
    <3>1. CASE k = i
      <4>1. k # 0 /\ i - 1 \in 0 .. i /\ i - 1 # i
        BY <2>3, <2>4, <3>1
      <4>2. g2[i - 1] = g[i - 1] /\ g2[i] = put(g[i - 1], ps[i], bs[i])
        BY <2>3, <4>1
      <4>3. QED
        BY <3>1, <4>1, <4>2
    <3>2. CASE k # i
      <4>1. k \in 0 .. i - 1 /\ g2[k] = g[k] /\ (k # 0 => k - 1 \in 0 .. i /\ k - 1 # i)
        BY <2>3, <3>2
      <4>2. k # 0 => g2[k - 1] = g[k - 1]
        BY <4>1
      <4>3. g[k] = IF k = 0 THEN d ELSE put(g[k - 1], ps[k], bs[k])
        BY <2>7, <4>1
      <4>4. QED
        BY <4>1, <4>2, <4>3
    <3>3. QED
      BY <3>1, <3>2
  <2>9. rec(g2, i)
    <3>1. g2 = [k \in 0 .. i |-> g2[k]]
      OBVIOUS
    <3> HIDE DEF g2
    <3>2. QED
      BY <2>8, <3>1
  <2>10. QED
    BY <2>3, <2>9
<1>4. h = step(h)
  <2>1. \E g : g = step(g)
    BY <1>3
  <2> HIDE DEF step
  <2>2. QED
    BY <2>1, Zenon
<1>5. \A i \in 0 .. n : h[i] = IF i = 0 THEN d ELSE put(h[i - 1], ps[i], bs[i])
  <2> HIDE DEF h
  <2>1. QED
    BY <1>4
<1> HIDE DEF h
<1>6. Steps(h, d, ps, bs, n)
  <2>1. h[0] = d
    BY <1>2, <1>5
  <2>2. ASSUME NEW i \in 1 .. n PROVE h[i] = put(h[i - 1], ps[i], bs[i])
    <3>1. i \in 0 .. n /\ i # 0
      BY <1>2
    <3>2. QED
      BY <1>5, <3>1
  <2>3. QED
    BY <2>1, <2>2 DEF Steps
<1>7. QED
  BY <1>1, <1>6 DEF n

\* A place that is not on the device was met.
Fails(d) == "ok" \in DOMAIN d /\ d["ok"] = FALSE

\* What has failed stays failed.
LEMMA StillFails ==
  ASSUME NEW d, Fails(d), NEW p, NEW b
  PROVE  Fails(put(d, p, b))
<1>1. PICK e : e = put(d, p, b)
  OBVIOUS
<1>2. CASE p[1] = "direct"
  <2>1. e = [d EXCEPT !["ino"] = [d.ino EXCEPT !.direct[p[2]] = b]]
    BY <1>1, <1>2 DEF put
  <2>2. QED
    BY <1>1, <2>1 DEF Fails
<1>3. CASE p[1] # "direct" /\ Len(p) = 1
  <2>1. e = [d EXCEPT !["ino"] = [d.ino EXCEPT ![p[1]] = b]]
    BY <1>1, <1>3 DEF put
  <2>2. QED
    BY <1>1, <2>1 DEF Fails
<1>4. CASE p[1] # "direct" /\ Len(p) # 1 /\ table_of(d, p) \in Device /\ p[Len(p)] \in Cell
  <2>1. e = [d EXCEPT !["store"] = [d.store EXCEPT ![table_of(d, p)][p[Len(p)]] = b]]
    BY <1>1, <1>4 DEF put
  <2>2. QED
    BY <1>1, <2>1 DEF Fails
<1>5. CASE p[1] # "direct" /\ Len(p) # 1 /\ ~(table_of(d, p) \in Device /\ p[Len(p)] \in Cell)
  <2>1. e = [d EXCEPT !["ok"] = FALSE]
    BY <1>1, <1>5 DEF put
  <2>2. QED
    BY <1>1, <2>1 DEF Fails
<1>6. QED
  BY <1>2, <1>3, <1>4, <1>5

\* e is d with the blocks of N that A gives in place.
PlacedAll(e, d, N, A) ==
    /\ e \in Outcome /\ e.ok = TRUE /\ e.ino.size = d.ino.size /\ e.bits = d.bits
    /\ Tree(e.ino, e.store, N, A)
    /\ \A b \in Device : (\A y \in N : y < 0 => A[y] # b) => e.store[b] = d.store[b]

Reachable(N, A) == \A x \in N : inner(x) => A[above(x)] \in Device /\ slot(x) \in Cell

PlaceResult(e, d, t, A) ==
    /\ Fails(e) \/ PlacedAll(e, d, Nodes(t), A)
    /\ Reachable(Nodes(t), A) => ~Fails(e)

\* place_all puts all new blocks of a file that grows into place, or meets a
\* block that is not on the device.
LEMMA PlaceAll ==
  ASSUME NEW c \in Nat, NEW t \in Nat, c <= t, NEW xs, Grows(xs, c, t),
         NEW A, \A y, z \in Nodes(t) : A[y] = A[z] => y = z, \A y \in Nodes(t) : A[y] \in Int,
         NEW d \in Outcome, d.ok = TRUE, Tree(d.ino, d.store, Nodes(c), A),
         NEW bs, \A i \in 1 .. Len(xs) : bs[i] = A[xs[i]],
         NEW e, e = place_all(d, places(c, t), bs)
  PROVE  PlaceResult(e, d, t, A)
<1>0. Len(xs) \in Nat /\ Nodes(t) \in SUBSET Int
  BY DEF Grows, Nodes
<1>0a. PICK M, ps : M = Nodes(t) /\ ps = places(c, t)
  OBVIOUS
<1>0b. PICK n \in Nat : n = Len(xs)
  BY <1>0
<1>1. /\ M = Nodes(t) /\ n = Len(xs) /\ ps = places(c, t) /\ n = Len(ps) /\ M \in SUBSET Int
      /\ Nodes(c) \subseteq M
      /\ \A i \in 1 .. n : ps[i] = place(xs[i]) /\ xs[i] \in M /\ xs[i] \notin Nodes(c)
      /\ \A i, j \in 1 .. n : xs[i] = xs[j] => i = j
      /\ \A x \in M : x \in Nodes(c) \/ \E i \in 1 .. n : xs[i] = x
      /\ \A i \in 1 .. n : inner(xs[i]) =>
            above(xs[i]) \in Nodes(c) \/ \E j \in 1 .. i - 1 : xs[j] = above(xs[i])
  BY <1>0, <1>0a, <1>0b, Zenon DEF Grows
<1>2. PICK h : Steps(h, d, ps, bs, n) /\ e = h[n]
  BY <1>1, PlaceSteps
<1> DEFINE N(i) == Nodes(c) \cup {xs[j] : j \in 1 .. i}
           good(i) == /\ Fails(h[i]) \/ PlacedAll(h[i], d, N(i), A)
                      /\ Reachable(M, A) => ~Fails(h[i])
<1>3. good(0)
  <2>1. h[0] = d
    BY <1>2 DEF Steps
  <2>2. N(0) = Nodes(c)
    OBVIOUS
  <2>3. PlacedAll(d, d, Nodes(c), A)
    BY DEF PlacedAll
  <2>4. ~Fails(d)
    BY DEF Fails
  <2>5. QED
    BY <2>1, <2>2, <2>3, <2>4
<1>4. ASSUME NEW i \in 0 .. n - 1, good(i)
      PROVE  good(i + 1)
  <2>1. i + 1 \in 1 .. n /\ i \in Nat /\ (i + 1) - 1 = i
    BY <1>1
  <2>2. PICK x, S, g : x = xs[i + 1] /\ S = N(i) /\ g = h[i]
    OBVIOUS
  <2>3. h[i + 1] = put(g, place(x), A[x])
    BY <1>1, <1>2, <2>1, <2>2 DEF Steps
  <2>4. x \in M /\ x \in Int /\ x \notin S /\ S \subseteq M
    <3>1. \A j \in 1 .. i : j \in 1 .. n /\ j # i + 1
      BY <1>1, <2>1
    <3>2. QED
      BY <1>1, <2>1, <2>2, <3>1
  <2>5. N(i + 1) = S \cup {x}
    <3>1. \A j \in Int : j \in 1 .. i + 1 <=> j \in 1 .. i \/ j = i + 1
      BY <2>1
    <3>2. QED
      BY <2>1, <2>2, <3>1
  <2>6. CASE Fails(g)
    <3>1. Fails(h[i + 1])
      BY <2>3, <2>6, StillFails
    <3>2. ~Reachable(M, A)
      BY <1>4, <2>2, <2>6
    <3>3. QED
      BY <3>1, <3>2
  <2>7. CASE ~Fails(g)
    <3>1. PlacedAll(g, d, S, A)
      BY <1>4, <2>2, <2>7
    <3>2. g \in Outcome /\ Tree(g.ino, g.store, S, A) /\ g.ok = TRUE
      BY <3>1 DEF PlacedAll
    <3>3. inner(x) => above(x) \in S
      <4>1. SUFFICES ASSUME inner(x) PROVE above(x) \in S
        OBVIOUS
      <4>2. above(x) \in Nodes(c) \/ \E j \in 1 .. (i + 1) - 1 : xs[j] = above(x)
        BY <1>1, <2>1, <2>2, <4>1
      <4>3. QED
        BY <2>1, <2>2, <4>2
    <3>4. ~inner(x) => x < DirectCount /\ x >= -2
      BY <2>4, Sizes DEF inner
    <3>5. \A y, z \in M : A[y] = A[z] => y = z
      BY <1>1
    <3>6. A[x] \in Int
      BY <1>1, <2>4
    <3>7. PICK f : f = h[i + 1]
      OBVIOUS
    <3>8. Placed(f, g, S, A, x)
      <4>1. Placed(put(g, place(x), A[x]), g, S, A, x)
        BY <1>1, <2>4, <3>2, <3>3, <3>4, <3>5, <3>6, PutStep, Zenon
      <4>2. QED
        BY <2>3, <3>7, <4>1
    <3>9. f \in Outcome /\ f.ok \in BOOLEAN /\ DOMAIN f = {"ino", "store", "bits", "ok"}
      BY <3>8 DEF Placed, Outcome
    <3>10. CASE f.ok = FALSE
      <4>1. Fails(f)
        BY <3>9, <3>10 DEF Fails
      <4>2. ~Reachable(M, A)
        BY <2>4, <3>2, <3>8, <3>10 DEF Placed, Reachable
      <4>3. QED
        BY <3>7, <4>1, <4>2
    <3>11. CASE f.ok = TRUE
      <4>1. ~Fails(f)
        BY <3>11 DEF Fails
      <4>2. Tree(f.ino, f.store, S \cup {x}, A) /\ f.ino.size = g.ino.size /\ f.bits = g.bits
            /\ \A b \in Device : (\A y \in S : y < 0 => A[y] # b) => f.store[b] = g.store[b]
        BY <3>8, <3>11 DEF Placed
      <4>3. g.ino.size = d.ino.size /\ g.bits = d.bits
            /\ \A b \in Device : (\A y \in S : y < 0 => A[y] # b) => g.store[b] = d.store[b]
        BY <3>1 DEF PlacedAll
      <4>4. PlacedAll(f, d, S \cup {x}, A)
        <5>1. ASSUME NEW b \in Device, \A y \in S \cup {x} : y < 0 => A[y] # b
              PROVE  f.store[b] = d.store[b]
          BY <4>2, <4>3, <5>1
        <5>2. QED
          BY <3>9, <3>11, <4>2, <4>3, <5>1 DEF PlacedAll
      <4>5. QED
        BY <2>5, <3>7, <4>1, <4>4
    <3>12. QED
      BY <3>9, <3>10, <3>11
  <2>8. QED
    BY <2>6, <2>7
<1>5. \A i \in 0 .. n : good(i)
  <2> HIDE DEF good
  <2> DEFINE bad == {i \in 0 .. n : ~good(i)}
  <2>1. SUFFICES ASSUME bad # {} PROVE FALSE
    OBVIOUS
  <2>2. PICK i \in bad : \A j \in bad : i <= j
    <3>1. bad \in SUBSET Nat
      BY <1>1
    <3> HIDE DEF bad
    <3>2. QED
      BY <2>1, <3>1, LeastOf
  <2>3. i \in 0 .. n /\ i # 0
    BY <1>3, <2>2
  <2>4. i - 1 \in 0 .. n - 1 /\ (i - 1) + 1 = i /\ i - 1 \in 0 .. n
    BY <1>1, <2>3
  <2>5. good(i - 1)
    BY <2>2, <2>4
  <2>6. good((i - 1) + 1)
    BY <1>4, <2>4, <2>5, Zenon
  <2>7. QED
    BY <2>2, <2>4, <2>6
<1>6. good(n)
  <2> HIDE DEF good
  <2>1. n \in 0 .. n
    OBVIOUS
  <2>2. QED
    BY <1>5, <2>1, Zenon
<1>7. N(n) = M
  BY <1>1
<1>8. QED
  BY <1>1, <1>2, <1>6, <1>7 DEF PlaceResult

-------------------------------------------------------------------------------
\* The data blocks of a file of s cells.
LEMMA DataBlocksOf ==
  ASSUME NEW s \in Nat
  PROVE  /\ data_blocks(s) \in Nat
         /\ \A l \in Nat : l < data_blocks(s) <=> PerBlock * l < s
<1>1. PICK P \in Nat \ {0} : P = PerBlock
  BY Sizes
<1>2. PICK m \in Nat : m = s + P - 1
  BY <1>1
<1>3. PICK q \in Nat, r \in 0 .. P - 1 : q = m \div P /\ m = P * q + r
  BY <1>1, <1>2, DivMod
<1>4. data_blocks(s) = q
  BY <1>1, <1>2, <1>3, Zenon DEF data_blocks, ceiling
<1>5. ASSUME NEW l \in Nat PROVE l < q <=> P * l < s
  <2>1. PICK u \in Nat, v \in Nat : u = P * q /\ v = P * l
    BY <1>1, <1>3, Times
  <2>2. CASE l < q
    <3>1. v + P <= u
      BY <1>1, <1>3, <1>5, <2>1, <2>2, Times
    <3>2. QED
      BY <1>1, <1>2, <1>3, <2>1, <2>2, <3>1
  <2>3. CASE ~(l < q)
    <3>1. u <= v
      <4>1. q <= l
        BY <1>3, <1>5, <2>3
      <4>2. QED
        BY <1>1, <1>3, <1>5, <2>1, <4>1, Times
    <3>2. QED
      BY <1>1, <1>2, <1>3, <2>1, <2>3, <3>1
  <2>4. QED
    BY <2>2, <2>3
<1>6. QED
  BY <1>1, <1>4, <1>5

\* A longer file has not fewer data blocks.
LEMMA MoreBlocks ==
  ASSUME NEW s \in Nat, NEW u \in Nat, s <= u
  PROVE  data_blocks(s) <= data_blocks(u)
<1>1. PICK a \in Nat, b \in Nat : a = data_blocks(s) /\ b = data_blocks(u)
  BY DataBlocksOf
<1>2. SUFFICES ASSUME b < a PROVE FALSE
  BY <1>1
<1>3. PICK v \in Nat : v = PerBlock * b
  BY Sizes, Times, <1>1
<1>4. v < s /\ ~(v < u)
  BY <1>1, <1>2, <1>3, DataBlocksOf
<1>5. QED
  BY <1>3, <1>4

\* The cells of a file are in its data blocks.
LEMMA CellOf ==
  ASSUME NEW s \in Nat, NEW i \in Nat
  PROVE  /\ i \div PerBlock \in Nat /\ i % PerBlock \in Cell
         /\ i = PerBlock * (i \div PerBlock) + (i % PerBlock)
         /\ i < s => i \div PerBlock < data_blocks(s)
<1>1. PICK P \in Nat \ {0} : P = PerBlock
  BY Sizes
<1>2. PICK q \in Nat, r \in 0 .. P - 1 : q = i \div P /\ r = i % P /\ i = P * q + r
  BY <1>1, DivMod
<1>3. PICK u \in Nat : u = P * q
  BY <1>1, <1>2, Times
<1>4. i < s => u < s
  BY <1>1, <1>2, <1>3
<1>5. i < s => q < data_blocks(s)
  BY <1>1, <1>2, <1>3, <1>4, DataBlocksOf
<1>6. r \in Cell
  BY <1>1, <1>2, Sizes
<1>7. i \div PerBlock = q /\ i % PerBlock = r
  BY <1>1, <1>2
<1>8. i = PerBlock * q + r
  BY <1>1, <1>2
<1>9. QED
  BY <1>2, <1>5, <1>6, <1>7, <1>8, Zenon

\* total_blocks counts the blocks of a file, those of pointers too.
LEMMA TotalBlocks ==
  ASSUME NEW s \in Nat
  PROVE  total_blocks(s) = data_blocks(s) + Tables(data_blocks(s)) /\ total_blocks(s) \in Nat
<1>1. PICK n \in Nat : n = data_blocks(s)
  BY DataBlocksOf
<1>2. PICK k \in Int, D \in Nat, B \in Nat :
        D = DirectCount /\ B = INDIRECT1_BOUND /\ B >= D
        /\ (n > B => k = ceiling(n - B, PerBlock))
  <2>1. PICK D \in Nat, B \in Nat : D = DirectCount /\ B = INDIRECT1_BOUND /\ B >= D
    BY Sizes
  <2>2. n > B => ceiling(n - B, PerBlock) \in Int
    BY <1>1, <2>1, TablesOf
  <2>3. QED
    BY <2>1, <2>2
<1>3. total_blocks(s) = n + (IF n > D THEN 1 ELSE 0) + (IF n > B THEN 1 + ceiling(n - B, PerBlock) ELSE 0)
  BY <1>1, <1>2, Zenon DEF total_blocks
<1>4. Tables(n) = IF n <= D THEN 0 ELSE IF n <= B THEN 1 ELSE 2 + ceiling(n - B, PerBlock)
  BY <1>1, <1>2, Zenon DEF Tables
<1>5. total_blocks(s) = n + Tables(n)
  BY <1>1, <1>2, <1>3, <1>4
<1>6. Tables(n) \in Nat
  BY <1>1, TablesOf
<1>7. QED
  BY <1>1, <1>5, <1>6

-------------------------------------------------------------------------------
\* How many blocks a file of c data blocks needs to have t of them.
needed(c, t) == (t + Tables(t)) - (c + Tables(c))

larger(a, b) == IF b < a THEN a ELSE b

\* d is inode ino, whose blocks C gives, grown to s cells with blocks B.
Increased(d, ino, C, s, B) ==
    LET c == data_blocks(ino.size)
        t == data_blocks(larger(ino.size, s))
    IN  /\ d \in Outcome /\ d.ok = TRUE /\ d.ino.size = larger(ino.size, s)
        /\ c <= t /\ Nodes(c) \subseteq Nodes(t)
        /\ Tree(d.ino, d.store, Nodes(t), B)
        /\ \A x \in Nodes(c) : B[x] = C[x]
        /\ \A x \in Nodes(t) : x \in Nodes(c) \/
              /\ B[x] \in Int /\ B[x] - 1 \in free_bits
              /\ Cardinality(under(free_bits, B[x] - 1)) < needed(c, t)
        /\ \A x, y \in Nodes(t) : B[x] = B[y] => x = y
        /\ \A b \in Int : b \in d.bits <=> b \in data_bitmap \/ \E x \in Nodes(t) : b = B[x] - 1
        /\ \A b \in Device : (\A y \in Nodes(t) : y < 0 => B[y] # b) => d.store[b] = store[b]

\* The bits that increase_size takes stand for blocks of the device.
Roomy(c, t) ==
    /\ needed(c, t) <= Cardinality(free_bits) /\ t <= INDIRECT2_BOUND
    /\ \A b \in free_bits : Cardinality(under(free_bits, b)) < needed(c, t) => b + 1 \in Device

\* C gives the blocks of inode ino.
HasBlocks(ino, C) ==
    LET c == data_blocks(ino.size)
    IN  /\ ino \in DiskInode
        /\ Tree(ino, store, Nodes(c), C)
        /\ \A x \in Nodes(c) : C[x] \in Int /\ C[x] - 1 \in data_bitmap
        /\ \A x, y \in Nodes(c) : C[x] = C[y] => x = y

\* The blocks B of a file that grows: the old ones, C, and those it was given.
Given(B, xs, c, t, C, got) ==
    /\ \A x \in Nodes(c) : B[x] = C[x]
    /\ \A i \in 1 .. Len(xs) : B[xs[i]] = got[i]
    /\ \A x \in Nodes(t) : x \in Nodes(c) \/
          /\ B[x] \in Int /\ B[x] - 1 \in free_bits
          /\ Cardinality(under(free_bits, B[x] - 1)) < Len(xs)
    /\ \A x \in Nodes(t) : B[x] \in Int
    /\ \A x, y \in Nodes(t) : B[x] = B[y] => x = y

\* The blocks of a file that grows are all different.
LEMMA NewBlocks ==
  ASSUME NEW c \in Nat, NEW t \in Nat, c <= t, NEW xs, Grows(xs, c, t), NEW C, NEW got,
         \A x \in Nodes(c) : C[x] \in Int /\ C[x] - 1 \in data_bitmap,
         \A x, y \in Nodes(c) : C[x] = C[y] => x = y,
         Allocated(got, Len(xs))
  PROVE  \E B : Given(B, xs, c, t, C, got)
<1>1. /\ Nodes(c) \subseteq Nodes(t) /\ Len(xs) \in Nat
      /\ \A i \in 1 .. Len(xs) : xs[i] \in Nodes(t) /\ xs[i] \notin Nodes(c)
      /\ \A i, j \in 1 .. Len(xs) : xs[i] = xs[j] => i = j
      /\ \A x \in Nodes(t) : x \in Nodes(c) \/ \E i \in 1 .. Len(xs) : xs[i] = x
  BY DEF Grows
<1>2. PICK n \in Nat : n = Len(xs)
  BY <1>1
<1> DEFINE pos(x) == CHOOSE i \in 1 .. n : xs[i] = x
           B == [x \in Nodes(t) |-> IF x \in Nodes(c) THEN C[x] ELSE got[pos(x)]]
<1>3. ASSUME NEW x \in Nodes(t), x \notin Nodes(c)
      PROVE  pos(x) \in 1 .. n /\ xs[pos(x)] = x /\ B[x] = got[pos(x)]
  <2>1. \E i \in 1 .. n : xs[i] = x
    BY <1>1, <1>2, <1>3
  <2>2. QED
    BY <1>3, <2>1
<1>4. \A x \in Nodes(c) : B[x] = C[x]
  BY <1>1
<1>5. /\ \A i \in 1 .. n : /\ got[i] \in Int /\ got[i] - 1 \in free_bits
                           /\ Cardinality(under(free_bits, got[i] - 1)) = i - 1
      /\ \A i, j \in 1 .. n : got[i] = got[j] => i = j
  BY <1>2 DEF Allocated
<1> HIDE DEF pos, B
<1>6. ASSUME NEW i \in 1 .. n PROVE B[xs[i]] = got[i]
  <2>1. PICK x : x = xs[i]
    OBVIOUS
  <2>2. x \in Nodes(t) /\ x \notin Nodes(c)
    BY <1>1, <1>2, <2>1
  <2>3. pos(x) = i
    <3>1. pos(x) \in 1 .. n /\ xs[pos(x)] = xs[i]
      BY <1>3, <2>1, <2>2
    <3>2. QED
      BY <1>1, <1>2, <3>1
  <2>4. QED
    BY <1>3, <2>1, <2>2, <2>3
<1>7. ASSUME NEW x \in Nodes(t), x \notin Nodes(c)
      PROVE  /\ B[x] \in Int /\ B[x] - 1 \in free_bits
             /\ Cardinality(under(free_bits, B[x] - 1)) < n
  <2>1. PICK i \in 1 .. n : i = pos(x)
    BY <1>3, <1>7
  <2>2. B[x] = got[i] /\ i - 1 < n
    BY <1>3, <1>7, <2>1
  <2>3. QED
    BY <1>5, <2>2
<1>8. ASSUME NEW x \in Nodes(t) PROVE B[x] \in Int
  BY <1>4, <1>7
<1>9. \A b \in free_bits : b \notin data_bitmap
  BY DEF free_bits
<1>10. ASSUME NEW x \in Nodes(t), NEW y \in Nodes(t), B[x] = B[y] PROVE x = y
  <2>1. CASE x \in Nodes(c) /\ y \in Nodes(c)
    BY <1>4, <1>10, <2>1
  <2>2. CASE x \notin Nodes(c) /\ y \notin Nodes(c)
    <3>0. PICK i \in 1 .. n, j \in 1 .. n : i = pos(x) /\ j = pos(y)
      BY <1>3, <2>2
    <3>0a. got[i] = got[j]
      BY <1>3, <1>10, <2>2, <3>0
    <3>1. pos(x) = pos(y)
      BY <1>5, <3>0, <3>0a
    <3>2. QED
      BY <1>3, <2>2, <3>1
  <2>3. CASE x \in Nodes(c) /\ y \notin Nodes(c)
    BY <1>4, <1>7, <1>9, <1>10, <2>3
  <2>4. CASE x \notin Nodes(c) /\ y \in Nodes(c)
    BY <1>4, <1>7, <1>9, <1>10, <2>4
  <2>5. QED
    BY <2>1, <2>2, <2>3, <2>4
<1>11. Given(B, xs, c, t, C, got)
  BY <1>2, <1>4, <1>6, <1>7, <1>8, <1>10 DEF Given
<1>12. QED
  BY <1>11

\* Every block of pointers of a file has a block below it.
LEMMA HasChild ==
  ASSUME NEW n \in Nat, NEW y \in Nodes(n), y < 0
  PROVE  \E l \in Nodes(n) : inner(l) /\ above(l) = y
<1>1. PICK D \in Nat \ {0}, P \in Nat \ {0}, B \in Nat :
        D = DirectCount /\ P = PerBlock /\ B = INDIRECT1_BOUND /\ B = D + P
  BY Sizes
<1>2. y \in Int
  BY TablesOf DEF Nodes
<1>3. CASE y = -1
  <2>1. n > D
    BY <1>1, <1>2, <1>3, NodesOf
  <2>2. D \in Nodes(n) /\ inner(D) /\ above(D) = -1
    BY <1>1, <2>1, NodesOf DEF inner, above
  <2>3. QED
    BY <1>3, <2>2
<1>4. CASE y = -2
  <2>1. n > B
    BY <1>1, <1>2, <1>4, NodesOf
  <2>2. row(n - 1) \in Nat
    BY <1>1, <2>1, TablesOf
  <2>3. -3 \in Nodes(n)
    BY <1>1, <2>1, <2>2, NodesOf
  <2>4. inner(-3) /\ above(-3) = -2
    BY DEF inner, above
  <2>5. QED
    BY <1>4, <2>3, <2>4
<1>5. CASE y <= -3
  <2>1. n > B /\ -3 - y <= row(n - 1)
    BY <1>1, <1>2, <1>5, NodesOf
  <2>2. PICK a \in Nat, r \in Nat : a = -3 - y /\ r = row(n - 1) /\ a <= r
    <3>1. row(n - 1) \in Nat
      BY <1>1, <2>1, TablesOf
    <3>2. -3 - y \in Nat
      BY <1>2, <1>5
    <3>3. QED
      BY <2>1, <3>1, <3>2
  <2>3. PICK u \in Nat, v \in Nat : u = P * a /\ v = P * r /\ u <= v
    BY <1>1, <2>2, Times
  <2>4. PICK l \in Nat : l = B + u
    BY <1>1, <2>3
  <2>5. n - 1 \in Nat /\ n - 1 >= B
    BY <1>1, <2>1
  <2>6. n - 1 = INDIRECT1_BOUND + PerBlock * row(n - 1) + col(n - 1) /\ col(n - 1) \in Cell
    BY <1>1, <2>5, Rows
  <2>7. PICK w \in Nat : w = col(n - 1) /\ n - 1 = B + v + w
    BY <1>1, <2>2, <2>3, <2>6, Sizes, SMTT(30)
  <2>8. l <= n - 1 /\ l >= B /\ l >= D
    BY <1>1, <2>3, <2>4, <2>7
  <2>9. row(l) = a
    <3>1. l - B = P * a + 0 /\ 0 \in 0 .. P - 1
      BY <1>1, <2>3, <2>4
    <3>2. (P * a + 0) \div P = a
      BY <1>1, <2>2, <3>1, DivModOf
    <3>3. QED
      BY <1>1, <3>1, <3>2 DEF row
  <2>10. l \in Nodes(n)
    BY <2>4, <2>8, NodesOf
  <2>11. inner(l) /\ above(l) = y
    BY <1>1, <1>2, <2>2, <2>4, <2>8, <2>9 DEF inner, above
  <2>12. QED
    BY <2>10, <2>11
<1>6. QED
  BY <1>2, <1>3, <1>4, <1>5

IncreaseResult(d, ino, C, s) ==
    /\ Fails(d) \/ \E B : Increased(d, ino, C, s, B)
    /\ Roomy(data_blocks(ino.size), data_blocks(larger(ino.size, s))) => ~Fails(d)

\* increase_size gives a file the blocks it needs, or panics.
LEMMA Increase ==
  ASSUME NEW ino, NEW C, HasBlocks(ino, C), store \in Blocks, data_bitmap \in SUBSET Int,
         NEW s \in Nat, NEW d, d = increase_size(ino, s)
  PROVE  IncreaseResult(d, ino, C, s)
<1>0. SUFFICES /\ Fails(d) \/ \E B : Increased(d, ino, C, s, B)
               /\ Roomy(data_blocks(ino.size), data_blocks(larger(ino.size, s))) => ~Fails(d)
  BY DEF IncreaseResult
<1>1. PICK z \in Nat : z = ino.size
  BY DEF HasBlocks, DiskInode
<1>2. PICK c \in Nat : c = data_blocks(z)
  BY DataBlocksOf
<1>3. /\ ino \in DiskInode /\ Tree(ino, store, Nodes(c), C)
      /\ \A x \in Nodes(c) : C[x] \in Int /\ C[x] - 1 \in data_bitmap
      /\ \A x, y \in Nodes(c) : C[x] = C[y] => x = y
  BY <1>1, <1>2 DEF HasBlocks
<1>4. PICK same : same = [ino |-> ino, store |-> store, bits |-> data_bitmap, ok |-> TRUE]
  OBVIOUS
<1>5. /\ same \in Outcome /\ same.ok = TRUE /\ same.ino = ino /\ same.store = store /\ same.bits = data_bitmap
  BY <1>3, <1>4 DEF Outcome
<1>6. CASE s < z
  <2>1. d = same
    BY <1>1, <1>4, <1>6 DEF increase_size
  <2>2. larger(z, s) = z
    BY <1>6 DEF larger
  <2>3. /\ \A b \in Int : b \in data_bitmap <=> b \in data_bitmap \/ \E x \in Nodes(c) : b = C[x] - 1
    BY <1>3
  <2>4. Increased(d, ino, C, s, C)
    BY <1>1, <1>2, <1>3, <1>5, <2>1, <2>2, <2>3 DEF Increased
  <2>5. ~Fails(d)
    BY <1>5, <2>1 DEF Fails
  <2>6. QED
    BY <2>4, <2>5
<1>7. CASE ~(s < z)
  <2>1. PICK t \in Nat : t = data_blocks(s) /\ c <= t
    BY <1>2, <1>7, DataBlocksOf, MoreBlocks
  <2>2. larger(z, s) = s
    BY <1>7 DEF larger
  <2>3. PICK xs : Grows(xs, c, t)
    BY <2>1, GrowsExists
  <2>4a. PICK n \in Nat : n = Len(xs)
    BY <2>3 DEF Grows
  <2>4b. PICK ps : ps = places(c, t)
    OBVIOUS
  <2>4. n = Len(xs) /\ ps = places(c, t)
    BY <2>4a, <2>4b
  <2>5. n = Len(ps) /\ n = needed(c, t) /\ Nodes(c) \subseteq Nodes(t)
    BY <2>3, <2>4 DEF Grows, needed
  <2>6. n = total_blocks(s) - total_blocks(z)
    <3>1. total_blocks(s) = t + Tables(t) /\ total_blocks(z) = c + Tables(c)
      BY <1>2, <2>1, TotalBlocks
    <3>2. QED
      BY <2>5, <3>1 DEF needed
  <2>7. PICK got : got = alloc_data(n)
    OBVIOUS
  <2>8. PICK start : start = [same EXCEPT !.ino.size = s,
                                          !.bits = data_bitmap \cup {b - 1 : b \in ToSet(got)}]
    OBVIOUS
  <2>9. d = IF n > Cardinality(free_bits) \/ Len(ps) > n THEN [same EXCEPT !.ok = FALSE]
            ELSE place_all(start, ps, got)
    <3>1. ps = places(data_blocks(ino.size), data_blocks(s)) /\ n = total_blocks(s) - total_blocks(ino.size)
      BY <1>1, <1>2, <2>1, <2>4, <2>6
    <3>2. ~(s < ino.size)
      BY <1>1, <1>7
    <3>3. QED
      BY <1>4, <2>7, <2>8, <3>1, <3>2, Zenon DEF increase_size
  <2>10. CASE n > Cardinality(free_bits)
    <3>1. d = [same EXCEPT !.ok = FALSE]
      BY <2>9, <2>10
    <3>2. Fails(d)
      BY <1>4, <3>1 DEF Fails
    <3>3. ~Roomy(c, t)
      <4>1. Cardinality(free_bits) \in Nat
        BY FreeBits
      <4>2. QED
        BY <2>5, <2>10, <4>1 DEF Roomy
    <3>4. QED
      BY <1>1, <1>2, <2>1, <2>2, <3>2, <3>3
  <2>11. CASE ~(n > Cardinality(free_bits))
    <3>1. d = place_all(start, ps, got)
      BY <2>4, <2>5, <2>9, <2>11
    <3>2. Allocated(got, n) /\ got \in Seq(Int) /\ Len(got) = n
      <4>1. n <= Cardinality(free_bits)
        BY <2>11, FreeBits
      <4>2. QED
        BY <2>7, <4>1, AllocData
    <3>3. PICK B : Given(B, xs, c, t, C, got)
      BY <1>3, <2>1, <2>3, <2>4, <3>2, NewBlocks
    <3>4. PICK bits : bits = data_bitmap \cup {b - 1 : b \in ToSet(got)}
      OBVIOUS
    <3>5. \A b : b \in bits <=> b \in data_bitmap \/ \E i \in 1 .. n : b = got[i] - 1
      BY <3>2, <3>4 DEF ToSet
    <3>6. bits \in SUBSET Int
      <4>1. \A i \in 1 .. n : got[i] \in Int
        BY <3>2
      <4>2. ASSUME NEW b \in bits PROVE b \in Int
        <5>1. CASE b \in data_bitmap
          BY <5>1
        <5>2. CASE \E i \in 1 .. n : b = got[i] - 1
          BY <4>1, <5>2
        <5>3. QED
          BY <3>5, <5>1, <5>2
      <4>3. QED
        BY <4>2
    <3>7. PICK i0 : i0 = [ino EXCEPT !.size = s]
      OBVIOUS
    <3>8. start = [ino |-> i0, store |-> store, bits |-> bits, ok |-> TRUE]
      BY <1>4, <2>8, <3>4, <3>7
    <3>9. /\ i0 \in DiskInode /\ i0.size = s /\ i0.direct = ino.direct
          /\ i0.indirect1 = ino.indirect1 /\ i0.indirect2 = ino.indirect2
      BY <1>3, <3>7 DEF DiskInode
    <3>10. start \in Outcome /\ start.ok = TRUE /\ start.ino = i0 /\ start.store = store /\ start.bits = bits
      BY <3>6, <3>8, <3>9 DEF Outcome
    <3>11. /\ \A x \in Nodes(c) : B[x] = C[x]
           /\ \A i \in 1 .. n : B[xs[i]] = got[i]
           /\ \A x \in Nodes(t) : x \in Nodes(c) \/
                /\ B[x] \in Int /\ B[x] - 1 \in free_bits
                /\ Cardinality(under(free_bits, B[x] - 1)) < n
           /\ \A x \in Nodes(t) : B[x] \in Int
           /\ \A x, y \in Nodes(t) : B[x] = B[y] => x = y
      BY <2>4, <3>3, Zenon DEF Given
    <3>12. Tree(start.ino, start.store, Nodes(c), B)
      <4>1. SUFFICES ASSUME NEW x \in Nodes(c)
                     PROVE  /\ inner(x) => /\ above(x) \in Nodes(c) /\ B[above(x)] \in Device /\ slot(x) \in Cell
                                           /\ store[B[above(x)]][slot(x)] = B[x]
                            /\ ~inner(x) => outer(i0, x) = B[x]
        BY <3>10 DEF Tree
      <4>2. outer(i0, x) = outer(ino, x)
        BY <3>9 DEF outer
      <4>3. QED
        BY <1>3, <3>11, <4>2 DEF Tree
    <3>13. /\ Fails(d) \/ PlacedAll(d, start, Nodes(t), B)
           /\ Reachable(Nodes(t), B) => ~Fails(d)
      <4>1. d = place_all(start, places(c, t), got)
        BY <2>4, <3>1
      <4>2. \A i \in 1 .. Len(xs) : got[i] = B[xs[i]]
        BY <2>4, <3>11
      <4>3. /\ \A x, y \in Nodes(t) : B[x] = B[y] => x = y
            /\ \A x \in Nodes(t) : B[x] \in Int
        BY <3>11
      <4>4. PlaceResult(d, start, t, B)
        <5>1. c \in Nat /\ t \in Nat /\ c <= t /\ Grows(xs, c, t)
          BY <2>1, <2>3
        <5>2. start \in Outcome /\ start.ok = TRUE
          BY <3>10
        <5>3. QED
          BY ONLY <3>12, <4>1, <4>2, <4>3, <5>1, <5>2, PlaceAll, Zenon
      <4>5. QED
        BY <4>4 DEF PlaceResult
    <3>14. ASSUME ~Fails(d) PROVE Increased(d, ino, C, s, B)
      <4>1. PlacedAll(d, start, Nodes(t), B)
        BY <3>13, <3>14
      <4>2. /\ d \in Outcome /\ d.ok = TRUE /\ d.ino.size = s /\ d.bits = bits
            /\ Tree(d.ino, d.store, Nodes(t), B)
            /\ \A b \in Device : (\A y \in Nodes(t) : y < 0 => B[y] # b) => d.store[b] = store[b]
        BY <3>9, <3>10, <4>1 DEF PlacedAll
      <4>3. ASSUME NEW b \in Int
            PROVE  b \in bits <=> b \in data_bitmap \/ \E x \in Nodes(t) : b = B[x] - 1
        <5>1. ASSUME b \in bits, b \notin data_bitmap PROVE \E x \in Nodes(t) : b = B[x] - 1
          <6>1. PICK i \in 1 .. n : b = got[i] - 1
            BY <3>5, <5>1
          <6>2. xs[i] \in Nodes(t)
            BY <2>3, <2>4 DEF Grows
          <6>3. QED
            BY <3>11, <6>1, <6>2
        <5>2. ASSUME NEW x \in Nodes(t), b = B[x] - 1 PROVE b \in bits
          <6>1. CASE x \in Nodes(c)
            BY <1>3, <3>5, <3>11, <5>2, <6>1
          <6>2. CASE x \notin Nodes(c)
            <7>1. PICK i \in 1 .. n : xs[i] = x
              BY <2>3, <2>4, <5>2, <6>2 DEF Grows
            <7>2. QED
              BY <3>5, <3>11, <5>2, <7>1
          <6>3. QED
            BY <6>1, <6>2
        <5>3. QED
          BY <3>5, <5>1, <5>2
      <4>4. larger(ino.size, s) = s /\ data_blocks(ino.size) = c /\ data_blocks(s) = t
        BY <1>1, <1>2, <2>1, <2>2
      <4>5. QED
        BY <2>1, <2>5, <3>11, <4>2, <4>3, <4>4 DEF Increased
    <3>15. ASSUME Roomy(c, t) PROVE Reachable(Nodes(t), B)
      <4>1. SUFFICES ASSUME NEW x \in Nodes(t), inner(x)
                     PROVE  B[above(x)] \in Device /\ slot(x) \in Cell
        BY DEF Reachable
      <4>2. t <= INDIRECT2_BOUND /\ \A b \in free_bits :
               Cardinality(under(free_bits, b)) < n => b + 1 \in Device
        BY <2>5, <3>15 DEF Roomy
      <4>3. above(x) \in Nodes(t) /\ above(x) < 0 /\ slot(x) \in Cell
        BY <2>1, <4>1, <4>2, NodesClosed
      <4>4. PICK y \in Nodes(t) : y = above(x)
        BY <4>3
      <4>5. CASE y \notin Nodes(c)
        <5>1. B[y] \in Int /\ B[y] - 1 \in free_bits /\ Cardinality(under(free_bits, B[y] - 1)) < n
          BY <3>11, <4>5
        <5>2. (B[y] - 1) + 1 = B[y]
          BY <5>1
        <5>3. QED
          BY <4>2, <4>3, <4>4, <5>1, <5>2
      <4>6. CASE y \in Nodes(c)
        <5>1. \E l \in Nodes(c) : inner(l) /\ above(l) = y
          BY <1>2, <4>1, <4>3, <4>4, <4>6, HasChild
        <5>2. C[y] \in Device
          BY <1>3, <5>1 DEF Tree
        <5>3. QED
          BY <3>11, <4>3, <4>4, <4>6, <5>2
      <4>7. QED
        BY <4>5, <4>6
    <3>16. QED
      BY <1>1, <1>2, <2>1, <2>2, <3>13, <3>14, <3>15
  <2>12. QED
    BY <2>10, <2>11
<1>8. QED
  BY <1>6, <1>7

-------------------------------------------------------------------------------
\* The block and the cell of cell i of a buffer that is written at offset.
block_at(offset, i) == (offset + i - 1) \div PerBlock
cell_at(offset, i) == (offset + i - 1) % PerBlock

\* Cell number i of the buffer is in one of the blocks that are written.
LEMMA BufferCells ==
  ASSUME NEW offset \in Nat, NEW n \in Nat, NEW i \in 1 .. n, NEW s \in Nat, offset + n <= s
  PROVE  /\ block_at(offset, i) \in Nat /\ cell_at(offset, i) \in Cell
         /\ offset + i - 1 = PerBlock * block_at(offset, i) + cell_at(offset, i)
         /\ block_at(offset, i) \in blocks_of(offset, n)
         /\ block_at(offset, i) < data_blocks(s)
<1>1. PICK P \in Nat \ {0} : P = PerBlock
  BY Sizes
<1>2. PICK a \in Nat, m \in Nat : a = offset + i - 1 /\ m = offset + n - 1 /\ offset <= a /\ a <= m /\ a < s
  OBVIOUS
<1>3. ASSUME NEW u \in Nat, NEW v \in Nat, u <= v
      PROVE  u \div P <= v \div P
  <2>1. PICK q1 \in Nat, r1 \in 0 .. P - 1 : q1 = u \div P /\ u = P * q1 + r1
    BY DivMod
  <2>2. PICK q2 \in Nat, r2 \in 0 .. P - 1 : q2 = v \div P /\ v = P * q2 + r2
    BY DivMod
  <2>3. SUFFICES ASSUME q2 < q1 PROVE FALSE
    BY <2>1, <2>2
  <2>4. PICK w1 \in Nat, w2 \in Nat : w1 = P * q1 /\ w2 = P * q2 /\ w2 + P <= w1
    BY <2>1, <2>2, <2>3, Times
  <2>5. QED
    BY <1>1, <1>3, <2>1, <2>2, <2>4
<1>4. PICK q \in Nat, lo \in Nat, hi \in Nat :
        q = a \div P /\ lo = offset \div P /\ hi = m \div P /\ lo <= q /\ q <= hi
  <2>1. offset \div P \in Nat /\ a \div P \in Nat /\ m \div P \in Nat
    BY <1>2, DivMod
  <2>2. offset \div P <= a \div P /\ a \div P <= m \div P
    BY <1>2, <1>3
  <2>3. QED
    BY <2>1, <2>2
<1>5. blocks_of(offset, n) = lo .. hi
  <2>1. n # 0
    OBVIOUS
  <2>2. QED
    BY <1>1, <1>2, <1>4, <2>1 DEF blocks_of
<1>6. block_at(offset, i) = q /\ cell_at(offset, i) = a % P
  BY <1>1, <1>2, <1>4 DEF block_at, cell_at
<1>7. a % P \in Cell /\ a = PerBlock * q + (a % P) /\ q < data_blocks(s)
  BY <1>1, <1>2, <1>4, CellOf
<1>8. QED
  BY <1>2, <1>4, <1>5, <1>6, <1>7

\* A write that is not empty only touches blocks of the file.
LEMMA BlocksWritten ==
  ASSUME NEW offset \in Nat, NEW n \in Nat \ {0}, NEW s \in Nat, offset + n <= s,
         NEW l \in blocks_of(offset, n)
  PROVE  l \in Nat /\ l < data_blocks(s)
<1>1. PICK m \in Nat : m = offset + n - 1 /\ m < s
  OBVIOUS
<1>2. blocks_of(offset, n) = offset \div PerBlock .. m \div PerBlock
  BY <1>1 DEF blocks_of
<1>3. m \div PerBlock \in Nat /\ offset \div PerBlock \in Nat /\ m \div PerBlock < data_blocks(s)
  BY <1>1, CellOf
<1>4. PICK lo \in Nat, hi \in Nat : lo = offset \div PerBlock /\ hi = m \div PerBlock /\ hi < data_blocks(s)
  BY <1>3
<1>5. data_blocks(s) \in Nat
  BY DataBlocksOf
<1>6. l \in lo .. hi
  BY <1>2, <1>4
<1>7. QED
  BY <1>4, <1>5, <1>6

\* Two cells in the same place are the same cell.
LEMMA SameCell ==
  ASSUME NEW offset \in Nat, NEW n \in Nat, NEW i \in 1 .. n, NEW j \in 1 .. n,
         block_at(offset, i) = block_at(offset, j), cell_at(offset, i) = cell_at(offset, j)
  PROVE  i = j
<1>1. offset + n \in Nat /\ offset + n <= offset + n
  OBVIOUS
<1>2. /\ offset + i - 1 = PerBlock * block_at(offset, i) + cell_at(offset, i)
      /\ offset + j - 1 = PerBlock * block_at(offset, j) + cell_at(offset, j)
  BY <1>1, BufferCells
<1>3. offset + i - 1 = offset + j - 1
  BY <1>2
<1>4. QED
  BY <1>3

\* Blocks st2 are st with buf written at offset of the file that B gives.
Overwrites(st2, st, B, offset, buf) ==
    /\ st2 \in Blocks
    /\ \A i \in 1 .. Len(buf) :
          /\ B[block_at(offset, i)] \in Device
          /\ st2[B[block_at(offset, i)]][cell_at(offset, i)] = buf[i]
    /\ \A b \in Device, k \in Cell :
          \/ \E i \in 1 .. Len(buf) : b = B[block_at(offset, i)] /\ k = cell_at(offset, i)
          \/ st2[b][k] = st[b][k]

WriteResult(e, d, B, offset, buf) ==
    /\ \/ Fails(e)
       \/ /\ e \in Outcome /\ e.ino = d.ino /\ e.bits = d.bits /\ e.ok = TRUE
          /\ Overwrites(e.store, d.store, B, offset, buf)
    /\ buf # <<>> /\ (\A l \in blocks_of(offset, Len(buf)) : B[l] \in Device) => ~Fails(e)

\* write_cells after a panic.
LEMMA WriteFails ==
  ASSUME NEW d, Fails(d), NEW offset, NEW buf
  PROVE  Fails(write_cells(d, offset, buf))
<1>1. PICK e : e = write_cells(d, offset, buf)
  OBVIOUS
<1>2. e = [d EXCEPT !["ok"] = FALSE] \/ \E st : e = [d EXCEPT !["store"] = st]
  BY <1>1 DEF write_cells
<1>3. CASE e = [d EXCEPT !["ok"] = FALSE]
  BY <1>1, <1>3 DEF Fails
<1>4. CASE \E st : e = [d EXCEPT !["store"] = st]
  <2>1. PICK st : e = [d EXCEPT !["store"] = st]
    BY <1>4
  <2>2. QED
    BY <1>1, <2>1 DEF Fails
<1>5. QED
  BY <1>2, <1>3, <1>4

\* write_cells writes the buffer into blocks of the file, and nothing else.
LEMMA WriteCells ==
  ASSUME NEW d \in Outcome, d.ok = TRUE, NEW t \in Nat, t = data_blocks(d.ino.size), NEW B,
         Tree(d.ino, d.store, Nodes(t), B), \A x, y \in Nodes(t) : B[x] = B[y] => x = y,
         NEW offset \in Nat, NEW buf \in Seq(Value), offset + Len(buf) <= d.ino.size,
         NEW e, e = write_cells(d, offset, buf)
  PROVE  WriteResult(e, d, B, offset, buf)
<1>1a. PICK n \in Nat, z \in Nat : n = Len(buf) /\ z = d.ino.size
  BY DEF Outcome, DiskInode
<1>1b. PICK st, S : st = d.store /\ S = blocks_of(offset, n)
  OBVIOUS
<1>1. n = Len(buf) /\ z = d.ino.size /\ st = d.store /\ S = blocks_of(offset, n)
  BY <1>1a, <1>1b
<1>2. /\ d = [ino |-> d.ino, store |-> st, bits |-> d.bits, ok |-> TRUE]
      /\ st \in Blocks /\ d.ino \in DiskInode /\ d.bits \in SUBSET Int
  BY <1>1 DEF Outcome
<1>3. /\ t = data_blocks(z) /\ offset + n <= z /\ \A i \in 1 .. n : buf[i] \in Value
  BY <1>1
<1>4. ASSUME NEW l \in Nat, l < t
      PROVE  l \in Nodes(t) /\ get_block_id(st, d.ino, l) = B[l]
  <2>1. l \in Nodes(t)
    BY <1>4, NodesOf
  <2>2. Nodes(t) \in SUBSET Int
    BY DEF Nodes
  <2>3. pointer(st, d.ino, l) = B[l]
    BY <1>1, <2>1, <2>2, TreePointer
  <2>4. QED
    BY <1>4, <2>1, <2>3 DEF pointer
<1> DEFINE L(i) == block_at(offset, i)
           K(i) == cell_at(offset, i)
<1>5. ASSUME NEW i \in 1 .. n
      PROVE  /\ L(i) \in Nat /\ K(i) \in Cell /\ L(i) \in S /\ L(i) \in Nodes(t)
             /\ get_block_id(st, d.ino, L(i)) = B[L(i)]
  <2>1. L(i) \in Nat /\ K(i) \in Cell /\ L(i) \in S /\ L(i) < t
    BY <1>1, <1>3, BufferCells
  <2>2. QED
    BY <1>4, <2>1
<1>6. ASSUME NEW i \in 1 .. n, NEW j \in 1 .. n, B[L(i)] = B[L(j)], K(i) = K(j)
      PROVE  i = j
  <2>1. L(i) = L(j)
    BY <1>5, <1>6
  <2>2. QED
    BY <1>6, <2>1, SameCell
<1>7. ASSUME NEW l \in S, n # 0 PROVE l \in Nodes(t) /\ get_block_id(st, d.ino, l) = B[l]
  <2>1. l \in Nat /\ l < t
    BY <1>1, <1>3, <1>7, BlocksWritten
  <2>2. QED
    BY <1>4, <2>1
<1> DEFINE block == [l \in S |-> get_block_id(st, d.ino, l)]
           at == [i \in 1 .. n |-> <<block[L(i)], K(i)>>]
           written(b, c) == {i \in DOMAIN at : at[i] = <<b, c>>}
           st2 == [b \in Device |->
                     IF \A i \in DOMAIN at : at[i][1] # b THEN st[b]
                     ELSE [c \in Cell |-> IF written(b, c) = {} THEN st[b][c]
                                          ELSE buf[CHOOSE i \in written(b, c) : TRUE]]]
<1>8. e = IF \E l \in S : block[l] \notin Device THEN [d EXCEPT !.ok = FALSE]
          ELSE [d EXCEPT !.store = st2]
  <2> DEFINE block0 == [l \in blocks_of(offset, Len(buf)) |-> get_block_id(d.store, d.ino, l)]
             at0 == [i \in 1 .. Len(buf) |->
                       <<block0[(offset + i - 1) \div PerBlock], (offset + i - 1) % PerBlock>>]
             written0(b, c) == {i \in DOMAIN at0 : at0[i] = <<b, c>>}
  <2>1. block0 = block
    BY <1>1
  <2>2. at0 = at
    <3> HIDE DEF block, block0
    <3>1. \A i \in 1 .. n : (offset + i - 1) \div PerBlock = L(i) /\ (offset + i - 1) % PerBlock = K(i)
      BY DEF block_at, cell_at
    <3>2. QED
      BY <1>1, <2>1, <3>1
  <2>3. e = IF \E l \in DOMAIN block0 : block0[l] \notin Device THEN [d EXCEPT !.ok = FALSE]
            ELSE [d EXCEPT !.store = [b \in Device |->
                    IF \A i \in DOMAIN at0 : at0[i][1] # b THEN d.store[b]
                    ELSE [c \in Cell |-> IF written0(b, c) = {} THEN d.store[b][c]
                                         ELSE buf[CHOOSE i \in written0(b, c) : TRUE]]]]
    BY DEF write_cells
  <2>4. DOMAIN block = S
    OBVIOUS
  <2> HIDE DEF block, block0, at, at0
  <2>5. QED
    BY <1>1, <2>1, <2>2, <2>3, <2>4
<1>9. \A i \in 1 .. n : at[i] = <<B[L(i)], K(i)>>
  BY <1>5
<1>10. DOMAIN at = 1 .. n /\ DOMAIN block = S
  OBVIOUS
<1>11. CASE \E l \in S : block[l] \notin Device
  <2>1. e = [d EXCEPT !.ok = FALSE]
    BY <1>8, <1>11
  <2>2. Fails(e)
    BY <1>2, <2>1 DEF Fails
  <2>3. buf # <<>> => n # 0
    BY <1>1
  <2>4. ~(buf # <<>> /\ \A l \in S : B[l] \in Device)
    BY <1>7, <1>11, <2>3
  <2>5. QED
    BY <1>1, <2>2, <2>4 DEF WriteResult
<1>12. CASE ~(\E l \in S : block[l] \notin Device)
  <2>1. e = [d EXCEPT !.store = st2]
    BY <1>8, <1>12, Zenon
  <2>2. \A i \in 1 .. n : B[L(i)] \in Device
    BY <1>5, <1>12
  <2>3. ASSUME NEW b \in Device, NEW k \in Cell
        PROVE  /\ \A i \in 1 .. n : b = B[L(i)] /\ k = K(i) => st2[b][k] = buf[i]
               /\ (\A i \in 1 .. n : ~(b = B[L(i)] /\ k = K(i))) => st2[b][k] = st[b][k]
    <3>1. \A i : i \in written(b, k) <=> i \in 1 .. n /\ b = B[L(i)] /\ k = K(i)
      BY <1>9, <1>10
    <3>2. (\A i \in DOMAIN at : at[i][1] # b) => \A i \in 1 .. n : b # B[L(i)]
      BY <1>9, <1>10
    <3>3. ASSUME NEW i \in 1 .. n, b = B[L(i)], k = K(i) PROVE st2[b][k] = buf[i]
      <4>1. i \in written(b, k) /\ written(b, k) = {i}
        BY <1>6, <3>1, <3>3
      <4>2. (CHOOSE j \in written(b, k) : TRUE) = i
        BY <4>1
      <4>3. ~(\A j \in DOMAIN at : at[j][1] # b)
        BY <3>2, <3>3
      <4>4. st2[b] = [c \in Cell |-> IF written(b, c) = {} THEN st[b][c]
                                     ELSE buf[CHOOSE j \in written(b, c) : TRUE]]
        BY <4>3, Zenon
      <4> HIDE DEF at, written, st2
      <4>5. st2[b][k] = IF written(b, k) = {} THEN st[b][k]
                        ELSE buf[CHOOSE j \in written(b, k) : TRUE]
        BY <4>4
      <4>6. QED
        BY <4>1, <4>2, <4>5
    <3>4. ASSUME \A i \in 1 .. n : ~(b = B[L(i)] /\ k = K(i)) PROVE st2[b][k] = st[b][k]
      <4>1. written(b, k) = {}
        BY <3>1, <3>4
      <4>2. st2[b] = IF \A i \in DOMAIN at : at[i][1] # b THEN st[b]
                     ELSE [c \in Cell |-> IF written(b, c) = {} THEN st[b][c]
                                          ELSE buf[CHOOSE j \in written(b, c) : TRUE]]
        BY Zenon
      <4> HIDE DEF at, written, st2
      <4>3. QED
        BY <4>1, <4>2
    <3>5. QED
      BY <3>3, <3>4
  <2>4. st2 \in Blocks
    <3>1. ASSUME NEW b \in Device PROVE st2[b] \in [Cell -> Value]
      <4>1. st[b] \in [Cell -> Value]
        BY <1>2 DEF Blocks
      <4>2. CASE \A i \in DOMAIN at : at[i][1] # b
        <5>1. st2[b] = st[b]
          BY <4>2, Zenon
        <5>2. QED
          BY <4>1, <5>1
      <4>3. CASE ~(\A i \in DOMAIN at : at[i][1] # b)
        <5>1. st2[b] = [c \in Cell |-> IF written(b, c) = {} THEN st[b][c]
                                       ELSE buf[CHOOSE j \in written(b, c) : TRUE]]
          BY <4>3, Zenon
        <5>2. \A k \in Cell : st2[b][k] \in Value
          <6>1. SUFFICES ASSUME NEW k \in Cell PROVE st2[b][k] \in Value
            OBVIOUS
          <6>2. CASE \E i \in 1 .. n : b = B[L(i)] /\ k = K(i)
            <7> HIDE DEF at, written, st2, L, K
            <7>1. QED
              BY <1>3, <2>3, <6>2
          <6>3. CASE ~(\E i \in 1 .. n : b = B[L(i)] /\ k = K(i))
            <7> HIDE DEF at, written, st2, L, K
            <7>1. QED
              BY <2>3, <4>1, <6>3
          <6>4. QED
            BY <6>2, <6>3
        <5> HIDE DEF st2
        <5>3. st2[b] = [k \in Cell |-> st2[b][k]]
          BY <5>1
        <5>4. QED
          BY <5>2, <5>3
      <4>4. QED
        BY <4>2, <4>3
    <3>2. st2 = [b \in Device |-> st2[b]]
      BY Zenon
    <3> HIDE DEF st2
    <3>3. QED
      BY <3>1, <3>2 DEF Blocks
  <2> HIDE DEF at, written, st2, block
  <2>5. Overwrites(st2, st, B, offset, buf)
    <3>1. \A i \in 1 .. n : B[L(i)] \in Device /\ st2[B[L(i)]][K(i)] = buf[i]
      BY <1>5, <2>2, <2>3
    <3>2. \A b \in Device, k \in Cell :
            (\E i \in 1 .. n : b = B[L(i)] /\ k = K(i)) \/ st2[b][k] = st[b][k]
      BY <2>3
    <3>3. QED
      BY <1>1, <2>4, <3>1, <3>2, Zenon DEF Overwrites
  <2>6. e = [ino |-> d.ino, store |-> st2, bits |-> d.bits, ok |-> TRUE]
    BY <1>2, <2>1
  <2>7. e \in Outcome /\ e.ino = d.ino /\ e.bits = d.bits /\ e.ok = TRUE /\ e.store = st2
    BY <1>2, <2>4, <2>6 DEF Outcome
  <2>8. ~Fails(e)
    BY <2>7 DEF Fails
  <2>9. QED
    BY <1>1, <2>5, <2>7, <2>8 DEF WriteResult
<1>13. QED
  BY <1>11, <1>12

-------------------------------------------------------------------------------
\* The k elements of v are the blocks that C gives for X, every one of them.
Covers(v, C, X, k) ==
    /\ v \in Seq(Int) /\ Len(v) = k
    /\ \A i \in 1 .. k : \E x \in X : v[i] = C[x]
    /\ \A x \in X : \E i \in 1 .. k : v[i] = C[x]

\* Two lists of blocks, one behind the other.
LEMMA CoversConcat ==
  ASSUME NEW C, NEW X, NEW Y, NEW k \in Nat, NEW m \in Nat, NEW u, NEW v,
         Covers(u, C, X, k), Covers(v, C, Y, m)
  PROVE  Covers(u \o v, C, X \cup Y, k + m)
<1>1. PICK w : w = u \o v
  OBVIOUS
<1>2. /\ u \in Seq(Int) /\ v \in Seq(Int) /\ Len(u) = k /\ Len(v) = m
      /\ \A i \in 1 .. k : \E x \in X : u[i] = C[x]
      /\ \A x \in X : \E i \in 1 .. k : u[i] = C[x]
      /\ \A i \in 1 .. m : \E x \in Y : v[i] = C[x]
      /\ \A x \in Y : \E i \in 1 .. m : v[i] = C[x]
  BY DEF Covers
<1>3. Joins(w, u, v, k, m, Int)
  BY <1>1, <1>2, Elements, Zenon
<1>4. /\ w \in Seq(Int) /\ Len(w) = k + m
      /\ \A i \in 1 .. k : w[i] = u[i]
      /\ \A j \in 1 .. m : w[k + j] = v[j]
  BY <1>3 DEF Joins
<1>5. ASSUME NEW i \in 1 .. k + m PROVE \E x \in X \cup Y : w[i] = C[x]
  <2>1. CASE i <= k
    <3>1. i \in 1 .. k
      BY <2>1
    <3>2. PICK x \in X : u[i] = C[x]
      BY <1>2, <3>1
    <3>3. QED
      BY <1>4, <3>1, <3>2
  <2>2. CASE ~(i <= k)
    <3>1. PICK j \in 1 .. m : i = k + j
      <4>1. i - k \in 1 .. m /\ i = k + (i - k)
        BY <2>2
      <4>2. QED
        BY <4>1
    <3>2. PICK x \in Y : v[j] = C[x]
      BY <1>2, <3>1
    <3>3. QED
      BY <1>4, <3>1, <3>2
  <2>3. QED
    BY <2>1, <2>2
<1>6. ASSUME NEW x \in X \cup Y PROVE \E i \in 1 .. k + m : w[i] = C[x]
  <2>1. CASE x \in X
    <3>1. PICK i \in 1 .. k : u[i] = C[x]
      BY <1>2, <2>1
    <3>2. i \in 1 .. k + m /\ w[i] = C[x]
      BY <1>4, <3>1
    <3>3. QED
      BY <3>2
  <2>2. CASE x \in Y
    <3>1. PICK j \in 1 .. m : v[j] = C[x]
      BY <1>2, <2>2
    <3>2. k + j \in 1 .. k + m /\ w[k + j] = C[x]
      BY <1>4, <3>1
    <3>3. QED
      BY <3>2
  <2>3. QED
    BY <2>1, <2>2
<1>7. QED
  BY <1>1, <1>4, <1>5, <1>6 DEF Covers

\* A run of blocks.
LEMMA CoversRun ==
  ASSUME NEW C, NEW lo \in Int, NEW k \in Nat, NEW f,
         \A i \in 1 .. k : f[i] = C[lo + i - 1] /\ C[lo + i - 1] \in Int
  PROVE  Covers([i \in 1 .. k |-> f[i]], C, lo .. lo + k - 1, k)
<1>1. PICK v : v = [i \in 1 .. k |-> f[i]]
  OBVIOUS
<1>2. v = first(f, k)
  BY <1>1 DEF first
<1>3. \A i \in 1 .. k : f[i] \in Int
  OBVIOUS
<1>4. Lists(v, f, k, Int)
  BY <1>2, <1>3, FirstIsSeq
<1>5. v \in Seq(Int) /\ Len(v) = k /\ \A i \in 1 .. k : v[i] = C[lo + i - 1]
  BY <1>4 DEF Lists
<1>6. ASSUME NEW i \in 1 .. k PROVE \E x \in lo .. lo + k - 1 : v[i] = C[x]
  <2>1. lo + i - 1 \in lo .. lo + k - 1
    OBVIOUS
  <2>2. QED
    BY <1>5, <2>1
<1>7. ASSUME NEW x \in lo .. lo + k - 1 PROVE \E i \in 1 .. k : v[i] = C[x]
  <2>1. x - lo + 1 \in 1 .. k /\ lo + (x - lo + 1) - 1 = x
    OBVIOUS
  <2>2. QED
    BY <1>5, <2>1
<1>8. QED
  BY <1>1, <1>5, <1>6, <1>7 DEF Covers

\* One block, and none.
LEMMA CoversOne ==
  ASSUME NEW C, NEW x, C[x] \in Int
  PROVE  Covers(<<C[x]>>, C, {x}, 1) /\ Covers(<<>>, C, {}, 0)
BY DEF Covers

\* The pointer to a block is in the block above it.
LEMMA TreeCell ==
  ASSUME NEW N, NEW C, NEW ino, NEW st, Tree(ino, st, N, C), NEW x \in N, inner(x)
  PROVE  cell(st, C[above(x)], slot(x)) = C[x]
BY DEF Tree, cell

\* The first k pointers of table a are those to the data blocks of row a.
LEMMA RowCells ==
  ASSUME NEW n \in Nat, NEW C, NEW ino, Tree(ino, store, Nodes(n), C),
         \A x \in Nodes(n) : C[x] \in Int, NEW a \in Nat, NEW k \in Nat, k <= PerBlock, NEW u \in Nat,
         u = PerBlock * a, INDIRECT1_BOUND + u + k <= n, k > 0
  PROVE  /\ cell(store, ino.indirect2, a) = C[-3 - a]
         /\ Covers(<<cell(store, ino.indirect2, a)>> \o children(cell(store, ino.indirect2, a), k), C,
                   {-3 - a} \cup (INDIRECT1_BOUND + u .. INDIRECT1_BOUND + u + k - 1), 1 + k)
<1>1. PICK D \in Nat \ {0}, P \in Nat \ {0}, B \in Nat :
        D = DirectCount /\ P = PerBlock /\ B = INDIRECT1_BOUND /\ B = D + P /\ Cell = 0 .. P - 1
  BY Sizes
<1>2. n > B
  BY <1>1
<1>3. ASSUME NEW c \in 1 .. k
      PROVE  LET x == B + u + c - 1
             IN  /\ x \in Nodes(n) /\ inner(x) /\ above(x) = -3 - a /\ slot(x) = c - 1
                 /\ -3 - a \in Nodes(n)
  <2>1. PICK x \in Nat : x = B + u + c - 1 /\ x >= B /\ x < n /\ x >= D
    BY <1>1
  <2>2. x - B = P * a + (c - 1) /\ c - 1 \in 0 .. P - 1
    BY <1>1, <2>1
  <2>3. row(x) = a /\ col(x) = c - 1
    <3>0. PICK g \in 0 .. P - 1 : g = c - 1
      BY <2>2
    <3>0a. (P * a + g) \div P = a /\ (P * a + g) % P = g
      BY <1>1, DivModOf
    <3>1. (P * a + (c - 1)) \div P = a /\ (P * a + (c - 1)) % P = c - 1
      BY <3>0, <3>0a
    <3>2. QED
      BY <1>1, <2>2, <3>1 DEF row, col
  <2>4. x \in Nodes(n)
    BY <2>1, NodesOf
  <2>5. inner(x) /\ above(x) = -3 - a /\ slot(x) = c - 1
    BY <1>1, <2>1, <2>3 DEF inner, above, slot
  <2>6. -3 - a \in Nodes(n)
    BY <2>4, <2>5, NodesClosed
  <2>7. QED
    BY <2>1, <2>4, <2>5, <2>6
<1>4. -3 - a \in Nodes(n)
  <2>1. 1 \in 1 .. k
    OBVIOUS
  <2>2. QED
    BY <1>3, <2>1
<1>5. cell(store, ino.indirect2, a) = C[-3 - a]
  <2>1. PICK y \in Nodes(n) : y = -3 - a
    BY <1>4
  <2>2. Nodes(n) \in SUBSET Int
    BY DEF Nodes
  <2>3. pointer(store, ino, y) = C[y]
    BY <2>2, TreePointer
  <2>4. y # -1 /\ y # -2 /\ ~(y >= 0) /\ -3 - y = a
    BY <2>1
  <2>5. QED
    BY <2>1, <2>3, <2>4 DEF pointer
<1>6. PICK b : b = C[-3 - a] /\ b \in Int
  BY <1>4
<1>7. Covers(children(b, k), C, B + u .. B + u + k - 1, k)
  <2> DEFINE f == [c \in 1 .. k |-> cell(store, b, c - 1)]
  <2>1. ASSUME NEW c \in 1 .. k
        PROVE  f[c] = C[(B + u) + c - 1] /\ C[(B + u) + c - 1] \in Int
    <3>1. PICK x \in Nodes(n) : x = (B + u) + c - 1 /\ inner(x) /\ above(x) = -3 - a /\ slot(x) = c - 1
      BY <1>3
    <3>2. cell(store, b, c - 1) = C[x]
      <4>1. cell(store, C[above(x)], slot(x)) = C[x]
        BY <3>1, TreeCell
      <4>2. QED
        BY <1>6, <3>1, <4>1
    <3>3. QED
      BY <3>1, <3>2
  <2>2. children(b, k) = [c \in 1 .. k |-> f[c]]
    BY DEF children
  <2> HIDE DEF f
  <2>3. B + u \in Int
    OBVIOUS
  <2>4. Covers([c \in 1 .. k |-> f[c]], C, B + u .. B + u + k - 1, k)
    BY <2>1, <2>3, CoversRun
  <2>5. QED
    BY <2>2, <2>4
<1>8. Covers(<<b>>, C, {-3 - a}, 1)
  BY <1>6, CoversOne
<1>9. Covers(<<b>> \o children(b, k), C, {-3 - a} \cup (B + u .. B + u + k - 1), 1 + k)
  BY <1>7, <1>8, CoversConcat
<1>10. QED
  BY <1>1, <1>5, <1>6, <1>9

\* The blocks of the first m rows, and how clear_size lists them.
rows_of(m) == (-2 - m .. -3) \cup (INDIRECT1_BOUND .. INDIRECT1_BOUND + PerBlock * m - 1)
row_lists(ino, m) ==
    [a \in 1 .. m |-> <<cell(store, ino.indirect2, a - 1)>>
                      \o children(cell(store, ino.indirect2, a - 1), PerBlock)]

\* The full rows below the double indirect block, as clear_size lists them.
LEMMA FlattenRows ==
  ASSUME NEW n \in Nat, NEW C, NEW ino, Tree(ino, store, Nodes(n), C),
         \A x \in Nodes(n) : C[x] \in Int, NEW m \in Nat, INDIRECT1_BOUND + PerBlock * m <= n
  PROVE  Covers(FlattenSeq(row_lists(ino, m)), C, rows_of(m), PerBlock * m + m)
<1>1. PICK D \in Nat \ {0}, P \in Nat \ {0}, B \in Nat :
        D = DirectCount /\ P = PerBlock /\ B = INDIRECT1_BOUND /\ B = D + P /\ Cell = 0 .. P - 1
  BY Sizes
<1>2. PICK f : f = row_lists(ino, m)
  OBVIOUS
<1>3. ASSUME NEW a \in 0 .. m - 1
      PROVE  Covers(f[a + 1], C, {-3 - a} \cup (B + P * a .. B + P * a + P - 1), 1 + P)
  <2>1. a \in Nat /\ a < m /\ a + 1 \in 1 .. m /\ (a + 1) - 1 = a
    BY <1>3
  <2>2. PICK u \in Nat, v \in Nat : u = P * a /\ v = P * m /\ u + P <= v
    BY <1>1, <2>1, Times
  <2>3. B + u + P <= n /\ P > 0 /\ P <= P
    BY <1>1, <2>2
  <2>4. Covers(<<cell(store, ino.indirect2, a)>> \o children(cell(store, ino.indirect2, a), P), C,
               {-3 - a} \cup (B + u .. B + u + P - 1), 1 + P)
    BY <1>1, <2>1, <2>2, <2>3, RowCells
  <2>5. f[a + 1] = <<cell(store, ino.indirect2, a)>> \o children(cell(store, ino.indirect2, a), P)
    BY <1>1, <1>2, <2>1 DEF row_lists
  <2>6. QED
    BY <2>2, <2>4, <2>5
<1>4. \A i \in 1 .. m : f[i] \in Seq(Int)
  <2>1. SUFFICES ASSUME NEW i \in 1 .. m PROVE f[i] \in Seq(Int)
    OBVIOUS
  <2>2. PICK a \in 0 .. m - 1 : i = a + 1
    <3>1. i - 1 \in 0 .. m - 1 /\ i = (i - 1) + 1
      OBVIOUS
    <3>2. QED
      BY <3>1
  <2>3. QED
    BY <1>3, <2>2 DEF Covers
<1>5. ASSUME NEW j \in 0 .. m - 1
      PROVE  /\ FlattenSeq(first(f, j + 1)) = FlattenSeq(first(f, j)) \o f[j + 1]
             /\ FlattenSeq(first(f, 0)) = <<>>
  <2>1. \A i \in 1 .. j + 1 : f[i] \in Seq(Int)
    BY <1>4
  <2>2. j \in Nat
    OBVIOUS
  <2>3. QED
    BY <2>1, <2>2, FlattenNext
<1> DEFINE good(j) == Covers(FlattenSeq(first(f, j)), C, rows_of(j), P * j + j)
<1>6. good(0)
  <2>1. FlattenSeq(first(f, 0)) = <<>>
    <3> DEFINE none == [i \in Nat |-> <<>>]
    <3>1. \A i \in 1 .. 0 + 1 : none[i] \in Seq(Int)
      OBVIOUS
    <3> HIDE DEF none
    <3>2. FlattenSeq(first(none, 0)) = <<>>
      BY <3>1, FlattenNext
    <3>3. first(none, 0) = first(f, 0)
      BY DEF first
    <3>4. QED
      BY <3>2, <3>3
  <2>2. P * 0 = 0
    OBVIOUS
  <2>3. rows_of(0) = {}
    BY <1>1, <2>2 DEF rows_of
  <2>4. Covers(<<>>, C, {}, 0)
    BY DEF Covers
  <2>5. P * 0 + 0 = 0
    BY <2>2
  <2>6. QED
    BY <2>1, <2>3, <2>4, <2>5
<1>7. ASSUME NEW j \in 0 .. m - 1, good(j) PROVE good(j + 1)
  <2>1. j \in Nat /\ j + 1 \in Nat
    OBVIOUS
  <2>2. PICK u \in Nat : u = P * j
    BY <2>1, Times
  <2>3. P * (j + 1) = u + P
    BY <2>1, <2>2
  <2>4. Covers(FlattenSeq(first(f, j)), C, rows_of(j), u + j)
    BY <1>7, <2>2
  <2>5. Covers(f[j + 1], C, {-3 - j} \cup (B + u .. B + u + P - 1), 1 + P)
    BY <1>3, <2>2
  <2>6. PICK X, Y : X = rows_of(j) /\ Y = {-3 - j} \cup (B + u .. B + u + P - 1)
    OBVIOUS
  <2>7. X \cup Y = rows_of(j + 1)
    <3>1. rows_of(j) = (-2 - j .. -3) \cup (B .. B + u - 1)
      BY <1>1, <2>2 DEF rows_of
    <3>2. rows_of(j + 1) = (-2 - (j + 1) .. -3) \cup (B .. B + (u + P) - 1)
      BY <1>1, <2>3 DEF rows_of
    <3>3. QED
      BY <1>1, <2>1, <2>2, <2>6, <3>1, <3>2
  <2>8. PICK k1 \in Nat, k2 \in Nat : k1 = u + j /\ k2 = 1 + P /\ k1 + k2 = P * (j + 1) + (j + 1)
    BY <2>1, <2>2, <2>3
  <2>9. Covers(FlattenSeq(first(f, j)) \o f[j + 1], C, X \cup Y, k1 + k2)
    BY <2>4, <2>5, <2>6, <2>8, CoversConcat
  <2>10. QED
    BY <1>5, <2>7, <2>8, <2>9
<1>8. \A j \in 0 .. m : good(j)
  <2> HIDE DEF good
  <2> DEFINE bad == {i \in 0 .. m : ~good(i)}
  <2>1. SUFFICES ASSUME bad # {} PROVE FALSE
    OBVIOUS
  <2>2. PICK i \in bad : \A j \in bad : i <= j
    <3>1. bad \in SUBSET Nat
      OBVIOUS
    <3> HIDE DEF bad
    <3>2. QED
      BY <2>1, <3>1, LeastOf
  <2>3. i \in 0 .. m /\ i # 0
    BY <1>6, <2>2
  <2>4. i - 1 \in 0 .. m - 1 /\ (i - 1) + 1 = i /\ i - 1 \in 0 .. m
    BY <2>3
  <2>5. good(i - 1)
    BY <2>2, <2>4
  <2>6. good((i - 1) + 1)
    BY <1>7, <2>4, <2>5, Zenon
  <2>7. QED
    BY <2>2, <2>4, <2>6
<1>9. good(m)
  <2> HIDE DEF good
  <2>1. m \in 0 .. m
    OBVIOUS
  <2>2. QED
    BY <1>8, <2>1, Zenon
<1>10. first(f, m) = f
  BY <1>2 DEF first, row_lists
<1>11. QED
  BY <1>1, <1>2, <1>9, <1>10

\* clear_size lists the blocks of a file, each one once.
LEMMA ClearSize ==
  ASSUME NEW ino, NEW n \in Nat, n = data_blocks(ino.size), NEW C, Tree(ino, store, Nodes(n), C),
         \A x \in Nodes(n) : C[x] \in Int
  PROVE  Covers(clear_size(ino), C, Nodes(n), n + Tables(n))
<1>1. PICK D \in Nat \ {0}, P \in Nat \ {0}, B \in Nat :
        D = DirectCount /\ P = PerBlock /\ B = INDIRECT1_BOUND /\ B = D + P /\ Cell = 0 .. P - 1
  BY Sizes
<1>2. PICK n1 \in Nat, n2 \in Nat, m0 \in Nat, m1 \in Nat :
        /\ n1 = beyond(n, D) /\ n2 = beyond(n, B) /\ m0 = minimum(n, D) /\ m1 = minimum(n1, P)
        /\ n1 = (IF n > D THEN n - D ELSE 0) /\ n2 = (IF n > B THEN n - B ELSE 0)
        /\ m0 = (IF n < D THEN n ELSE D) /\ m1 = (IF n1 < P THEN n1 ELSE P)
  BY <1>1 DEF beyond, minimum
<1>3. PICK a1 \in Nat, b1 \in 0 .. P - 1 : a1 = n2 \div P /\ b1 = n2 % P /\ n2 = P * a1 + b1
  <2>1. n2 \div P \in Nat /\ n2 % P \in 0 .. P - 1 /\ n2 = P * (n2 \div P) + (n2 % P)
    BY <1>2, DivMod
  <2>2. QED
    BY <2>1
<1>4. PICK u \in Nat : u = P * a1 /\ n2 = u + b1
  BY <1>1, <1>3, Times
<1> DEFINE table(a) == cell(store, ino.indirect2, a)
           s0 == [k \in 1 .. m0 |-> ino.direct[k - 1]]
           s1 == IF n1 = 0 THEN <<>> ELSE <<ino.indirect1>> \o children(ino.indirect1, m1)
           rest == IF b1 = 0 THEN <<>> ELSE <<table(a1)>> \o children(table(a1), b1)
           s2 == IF n2 = 0 THEN <<>>
                 ELSE <<ino.indirect2>> \o FlattenSeq(row_lists(ino, a1)) \o rest
<1>5. clear_size(ino) = s0 \o s1 \o s2
  BY <1>1, <1>2, <1>3, Zenon DEF clear_size, row_lists
<1>6. Nodes(n) \in SUBSET Int
  BY DEF Nodes
<1>7. Covers(s0, C, 0 .. m0 - 1, m0)
  <2> DEFINE f == [k \in 1 .. m0 |-> ino.direct[k - 1]]
  <2>0. PICK lo \in Int : lo = 0
    OBVIOUS
  <2>1. ASSUME NEW k \in 1 .. m0 PROVE f[k] = C[lo + k - 1] /\ C[lo + k - 1] \in Int
    <3>1. PICK x \in Nat : x = k - 1 /\ x < D /\ x < n /\ x = lo + k - 1
      BY <1>2, <2>0
    <3>2. x \in Nodes(n) /\ ~inner(x)
      BY <1>1, <3>1, NodesOf DEF inner
    <3>3. outer(ino, x) = C[x]
      BY <3>2 DEF Tree
    <3>4. outer(ino, x) = ino.direct[x]
      BY <3>1 DEF outer
    <3>5. QED
      BY <3>1, <3>2, <3>3, <3>4
  <2>2. s0 = [k \in 1 .. m0 |-> f[k]]
    OBVIOUS
  <2> HIDE DEF f, s0
  <2>3. Covers([k \in 1 .. m0 |-> f[k]], C, lo .. lo + m0 - 1, m0)
    BY <2>1, CoversRun, Zenon
  <2>4. lo .. lo + m0 - 1 = 0 .. m0 - 1
    BY <2>0
  <2>5. QED
    BY <2>2, <2>3, <2>4
<1>8. PICK X1 : X1 = IF n > D THEN {-1} \cup (D .. D + m1 - 1) ELSE {}
  OBVIOUS
<1>8a. PICK k1 \in Nat : k1 = IF n > D THEN 1 + m1 ELSE 0
  OBVIOUS
<1>9. Covers(s1, C, X1, k1)
  <2>1. CASE ~(n > D)
    <3>1. n1 = 0
      BY <1>2, <2>1
    <3>2. s1 = <<>>
      BY <3>1, Zenon
    <3>3. Covers(<<>>, C, {}, 0)
      BY DEF Covers
    <3>4. X1 = {} /\ k1 = 0
      BY <1>8, <1>8a, <2>1
    <3> HIDE DEF s1
    <3>5. QED
      BY <3>2, <3>3, <3>4
  <2>2. CASE n > D
    <3>1. n1 # 0 /\ m1 <= P /\ D + m1 <= n /\ m1 > 0
      BY <1>1, <1>2, <2>2
    <3>2. -1 \in Nodes(n)
      BY <1>1, <2>2, NodesOf
    <3>3. ino.indirect1 = C[-1] /\ C[-1] \in Int
      <4>1. ~inner(-1) /\ ~(-1 >= 0)
        BY <1>1 DEF inner
      <4>2. outer(ino, -1) = C[-1]
        BY <3>2, <4>1 DEF Tree
      <4>3. QED
        BY <3>2, <4>1, <4>2 DEF outer
    <3>4. PICK b : b = C[-1] /\ b = ino.indirect1
      BY <3>3
    <3>5. Covers(children(b, m1), C, D .. D + m1 - 1, m1)
      <4> DEFINE f == [c \in 1 .. m1 |-> cell(store, b, c - 1)]
      <4>1. ASSUME NEW c \in 1 .. m1 PROVE f[c] = C[D + c - 1] /\ C[D + c - 1] \in Int
        <5>1. PICK x \in Nat : x = D + c - 1 /\ x < n /\ x >= D /\ x < B /\ x - D = c - 1
          BY <1>1, <3>1
        <5>2. x \in Nodes(n)
          BY <5>1, NodesOf
        <5>3. inner(x) /\ above(x) = -1 /\ slot(x) = c - 1
          BY <1>1, <5>1 DEF inner, above, slot
        <5>4. cell(store, C[above(x)], slot(x)) = C[x]
          BY <5>2, <5>3, TreeCell
        <5>5. cell(store, b, c - 1) = C[x]
          BY <3>4, <5>3, <5>4
        <5>6. QED
          BY <5>1, <5>2, <5>5
      <4>2. children(b, m1) = [c \in 1 .. m1 |-> f[c]]
        BY DEF children
      <4> HIDE DEF f
      <4>3. QED
        <5>1. D \in Int /\ m1 \in Nat /\ \A c \in 1 .. m1 : f[c] = C[D + c - 1] /\ C[D + c - 1] \in Int
          BY <4>1
        <5>2. Covers([c \in 1 .. m1 |-> f[c]], C, D .. D + m1 - 1, m1)
          BY ONLY <5>1, CoversRun, Zenon
        <5>3. QED
          BY <4>2, <5>2
    <3>6. Covers(<<b>>, C, {-1}, 1)
      BY <3>3, <3>4, CoversOne
    <3>7. Covers(<<b>> \o children(b, m1), C, {-1} \cup (D .. D + m1 - 1), 1 + m1)
      BY <3>5, <3>6, CoversConcat
    <3>8. s1 = <<b>> \o children(b, m1)
      BY <3>1, <3>4
    <3> HIDE DEF s1
    <3>9. QED
      BY <1>8, <1>8a, <2>2, <3>7, <3>8
  <2>3. QED
    BY <2>1, <2>2
<1>10a. PICK X3 : X3 = IF b1 = 0 THEN {} ELSE {-3 - a1} \cup (B + u .. B + u + b1 - 1)
  OBVIOUS
<1>10b. PICK k3 \in Nat : k3 = IF b1 = 0 THEN 0 ELSE 1 + b1
  BY <1>3
<1>10c. PICK X2 : X2 = IF n > B THEN {-2} \cup rows_of(a1) \cup X3 ELSE {}
  OBVIOUS
<1>10. PICK k2 \in Nat : k2 = IF n > B THEN 1 + (u + a1) + k3 ELSE 0
  OBVIOUS
<1>11. Covers(s2, C, X2, k2)
  <2>1. CASE ~(n > B)
    <3>1. n2 = 0
      BY <1>2, <2>1
    <3>2. s2 = <<>>
      BY <3>1, Zenon
    <3>3. Covers(<<>>, C, {}, 0)
      BY DEF Covers
    <3>4. X2 = {} /\ k2 = 0
      BY <1>10, <1>10c, <2>1
    <3> HIDE DEF s2
    <3>5. QED
      BY <3>2, <3>3, <3>4
  <2>2. CASE n > B
    <3>1. n2 # 0 /\ n = B + u + b1
      BY <1>1, <1>2, <1>4, <2>2
    <3>2. -2 \in Nodes(n)
      BY <1>1, <2>2, NodesOf
    <3>3. ino.indirect2 = C[-2] /\ C[-2] \in Int
      <4>1. ~inner(-2) /\ ~(-2 >= 0) /\ -2 # -1
        BY <1>1 DEF inner
      <4>2. outer(ino, -2) = C[-2]
        BY <3>2, <4>1 DEF Tree
      <4>3. QED
        BY <3>2, <4>1, <4>2 DEF outer
    <3>4. Covers(<<ino.indirect2>>, C, {-2}, 1)
      <4>1. Covers(<<C[-2]>>, C, {-2}, 1)
        BY <3>3, CoversOne
      <4>2. QED
        BY <3>3, <4>1
    <3>5. Covers(FlattenSeq(row_lists(ino, a1)), C, rows_of(a1), u + a1)
      <4>1. B + PerBlock * a1 <= n
        BY <1>1, <1>4, <3>1
      <4>2. Covers(FlattenSeq(row_lists(ino, a1)), C, rows_of(a1), PerBlock * a1 + a1)
        BY <1>1, <4>1, FlattenRows
      <4>3. QED
        BY <1>1, <1>4, <4>2
    <3>7. Covers(rest, C, X3, k3)
      <4>1. CASE b1 = 0
        <5>1. Covers(<<>>, C, {}, 0)
          BY DEF Covers
        <5>2. QED
          BY <1>10a, <1>10b, <4>1, <5>1
      <4>2. CASE b1 # 0
        <5>1. b1 \in Nat /\ b1 > 0 /\ b1 <= P /\ B + u + b1 <= n
          BY <1>3, <3>1, <4>2
        <5>2. Covers(<<table(a1)>> \o children(table(a1), b1), C,
                     {-3 - a1} \cup (B + u .. B + u + b1 - 1), 1 + b1)
          BY <1>1, <1>4, <5>1, RowCells
        <5>3. QED
          BY <1>10a, <1>10b, <4>2, <5>2
      <4>3. QED
        BY <4>1, <4>2
    <3> HIDE DEF rest
    <3>8. Covers(<<ino.indirect2>> \o FlattenSeq(row_lists(ino, a1)), C, {-2} \cup rows_of(a1), 1 + (u + a1))
      BY <3>4, <3>5, CoversConcat
    <3>9. 1 + (u + a1) \in Nat
      OBVIOUS
    <3>10. Covers((<<ino.indirect2>> \o FlattenSeq(row_lists(ino, a1))) \o rest, C,
                  ({-2} \cup rows_of(a1)) \cup X3, (1 + (u + a1)) + k3)
      BY <3>7, <3>8, <3>9, CoversConcat
    <3>11. s2 = (<<ino.indirect2>> \o FlattenSeq(row_lists(ino, a1))) \o rest
      BY <3>1
    <3>12. X2 = ({-2} \cup rows_of(a1)) \cup X3 /\ k2 = (1 + (u + a1)) + k3
      BY <1>10, <1>10c, <2>2
    <3> HIDE DEF s2
    <3>13. QED
      BY <3>10, <3>11, <3>12
  <2>3. QED
    BY <2>1, <2>2
<1> HIDE DEF s0, s1, s2
<1>12. Covers(s0 \o s1 \o s2, C, ((0 .. m0 - 1) \cup X1) \cup X2, (m0 + k1) + k2)
  <2>1. Covers(s0 \o s1, C, (0 .. m0 - 1) \cup X1, m0 + k1)
    BY <1>7, <1>9, CoversConcat
  <2>2. m0 + k1 \in Nat
    OBVIOUS
  <2>3. QED
    BY <1>11, <2>1, <2>2, CoversConcat
<1>13. PICK T \in Nat : T = Tables(n) /\ Nodes(n) = -T .. n - 1
  BY TablesOf DEF Nodes
<1>14. T = IF n <= D THEN 0 ELSE IF n <= B THEN 1 ELSE 2 + a1 + (IF b1 = 0 THEN 0 ELSE 1)
  <2>1. CASE n <= B
    BY <1>1, <1>13, <2>1 DEF Tables
  <2>2. CASE ~(n <= B)
    <3>1. n > B /\ n = B + u + b1
      BY <1>1, <1>2, <1>4, <2>2
    <3>2. T = 3 + row(n - 1) /\ row(n - 1) \in Nat
      BY <1>1, <1>13, <3>1, TablesOf
    <3>3. row(n - 1) = IF b1 = 0 THEN a1 - 1 ELSE a1
      <4>1. CASE b1 = 0
        <5>1. a1 # 0
          BY <1>1, <1>4, <3>1, <4>1
        <5>2. PICK q \in Nat : q = a1 - 1
          BY <5>1
        <5>3. PICK w \in Nat : w = P * q /\ u = w + P
          <6>1. P * a1 = P * q + P /\ P * q \in Nat
            BY <1>1, <5>2
          <6>2. QED
            BY <1>4, <6>1
        <5>4. PICK g \in 0 .. P - 1 : g = P - 1
          BY <1>1
        <5>5. (n - 1) - B = P * q + g
          BY <1>1, <3>1, <4>1, <5>3, <5>4
        <5>6. (P * q + g) \div P = q
          BY <1>1, <5>2, DivModOf
        <5>7. QED
          BY <1>1, <4>1, <5>2, <5>5, <5>6 DEF row
      <4>2. CASE b1 # 0
        <5>1. PICK g \in 0 .. P - 1 : g = b1 - 1
          BY <1>3, <4>2
        <5>2. (n - 1) - B = P * a1 + g
          BY <1>1, <1>4, <3>1, <5>1
        <5>3. (P * a1 + g) \div P = a1
          BY <1>1, <5>1, DivModOf
        <5>4. QED
          BY <1>1, <4>2, <5>2, <5>3 DEF row
      <4>3. QED
        BY <4>1, <4>2
    <3>4. QED
      BY <1>1, <2>2, <3>2, <3>3
  <2>3. QED
    BY <2>1, <2>2
<1>15. rows_of(a1) = (-2 - a1 .. -3) \cup (B .. B + u - 1)
  BY <1>1, <1>4 DEF rows_of
<1>16. (m0 + k1) + k2 = n + T
  <2>1. CASE n <= D
    <3>1. m0 = n /\ k1 = 0 /\ k2 = 0 /\ T = 0
      BY <1>1, <1>2, <1>8a, <1>10, <1>14, <2>1
    <3>2. QED
      BY <3>1
  <2>2. CASE n > D /\ n <= B
    <3>1. m0 = D /\ k1 = 1 + (n - D) /\ k2 = 0 /\ T = 1
      BY <1>1, <1>2, <1>8a, <1>10, <1>14, <2>2
    <3>2. QED
      BY <1>1, <3>1
  <2>3. CASE n > B
    <3>1. m0 = D /\ k1 = 1 + P /\ n = B + u + b1
      BY <1>1, <1>2, <1>4, <1>8a, <2>3
    <3>2. k2 = 1 + (u + a1) + k3 /\ T = 2 + a1 + (IF b1 = 0 THEN 0 ELSE 1)
      BY <1>1, <1>10, <1>14, <2>3
    <3>3. QED
      <4>1. CASE b1 = 0
        <5>1. k3 = 0 /\ T = 2 + a1
          BY <1>10b, <3>2, <4>1
        <5>2. QED
          BY ONLY <1>1, <3>1, <3>2, <4>1, <5>1, D \in Nat, P \in Nat, a1 \in Nat, u \in Nat
      <4>2. CASE b1 # 0
        <5>1. k3 = 1 + b1 /\ T = 3 + a1 /\ b1 \in Nat
          BY <1>10b, <3>2, <4>2
        <5>2. QED
          BY ONLY <1>1, <3>1, <3>2, <5>1, D \in Nat, P \in Nat, a1 \in Nat, u \in Nat
      <4>3. QED
        BY <4>1, <4>2
  <2>4. QED
    BY <1>1, <2>1, <2>2, <2>3
<1>17. ((0 .. m0 - 1) \cup X1) \cup X2 = -T .. n - 1
  <2>1. CASE n <= D
    <3>1. m0 = n /\ X1 = {} /\ X2 = {} /\ T = 0
      BY <1>1, <1>2, <1>8, <1>10c, <1>14, <2>1
    <3>2. QED
      BY <3>1
  <2>2. CASE n > D /\ n <= B
    <3>1. m0 = D /\ m1 = n - D /\ X2 = {} /\ T = 1
      BY <1>1, <1>2, <1>10c, <1>14, <2>2
    <3>2. X1 = {-1} \cup (D .. n - 1)
      BY <1>1, <1>8, <2>2, <3>1
    <3>3. (0 .. D - 1) \cup ({-1} \cup (D .. n - 1)) = -1 .. n - 1
      BY <1>1, <2>2
    <3>4. QED
      BY <3>1, <3>2, <3>3
  <2>3. CASE n > B
    <3>1. m0 = D /\ m1 = P /\ n = B + u + b1 /\ n > D
      BY <1>1, <1>2, <1>4, <2>3
    <3>2. X1 = {-1} \cup (D .. D + P - 1)
      BY <1>8, <3>1
    <3>3. CASE b1 = 0
      <4>1. X2 = {-2} \cup ((-2 - a1 .. -3) \cup (B .. B + u - 1)) /\ T = 2 + a1
        BY <1>1, <1>10a, <1>10c, <1>14, <1>15, <2>3, <3>1, <3>3
      <4>2. QED
        BY <1>1, <3>1, <3>2, <3>3, <4>1
    <3>4. CASE b1 # 0
      <4>1. X2 = {-2} \cup ((-2 - a1 .. -3) \cup (B .. B + u - 1)) \cup ({-3 - a1} \cup (B + u .. B + u + b1 - 1))
            /\ T = 3 + a1
        BY <1>1, <1>10a, <1>10c, <1>14, <1>15, <2>3, <3>1, <3>4
      <4>2. QED
        <5>1. PICK W : W = ((0 .. m0 - 1) \cup X1) \cup X2
          OBVIOUS
        <5>2. \A x \in W : x \in -T .. n - 1
          <6>1. SUFFICES ASSUME NEW x \in W PROVE x \in -T .. n - 1
            OBVIOUS
          <6>2. x \in Int
            BY <1>3, <3>2, <4>1, <5>1
          <6>3. \/ x \in 0 .. D - 1 \/ x = -1 \/ x \in D .. D + P - 1 \/ x = -2 \/ x \in -2 - a1 .. -3
                \/ x \in B .. B + u - 1 \/ x = -3 - a1 \/ x \in B + u .. B + u + b1 - 1
            BY <3>1, <3>2, <4>1, <5>1, <6>1
          <6>4. b1 \in Nat /\ b1 > 0 /\ n = B + u + b1 /\ T = 3 + a1
            BY <1>3, <3>1, <3>4, <4>1
          <6>5. QED
            BY <1>1, <6>2, <6>3, <6>4
        <5>3. ASSUME NEW x \in -T .. n - 1 PROVE x \in W
          <6>1. x \in Int /\ x >= -3 - a1 /\ x <= B + u + b1 - 1
            BY <1>1, <1>3, <3>1, <4>1, <5>3
          <6>2. \/ x \in 0 .. D - 1 \/ x = -1 \/ x \in D .. D + P - 1 \/ x = -2 \/ x \in -2 - a1 .. -3
                \/ x \in B .. B + u - 1 \/ x = -3 - a1 \/ x \in B + u .. B + u + b1 - 1
            BY <1>1, <1>3, <6>1
          <6>3. QED
            BY <3>1, <3>2, <4>1, <5>1, <6>2
        <5>4. QED
          BY <5>1, <5>2, <5>3
    <3>5. QED
      BY <3>3, <3>4
  <2>4. QED
    BY <1>1, <2>1, <2>2, <2>3
<1>18. QED
  BY <1>5, <1>12, <1>13, <1>16, <1>17

-------------------------------------------------------------------------------
\* f counts T by the numbers from a to b.
Counts(f, a, b, T) ==
    /\ \A x \in a .. b : f[x] \in T
    /\ \A y \in T : \E x \in a .. b : f[x] = y
    /\ \A x, y \in a .. b : f[x] = f[y] => x = y

\* What an interval counts has as many elements.
LEMMA CountedBy ==
  ASSUME NEW a \in Int, NEW b \in Int, NEW f, NEW T, b - a + 1 >= 0, Counts(f, a, b, T)
  PROVE  IsFiniteSet(T) /\ Cardinality(T) = b - a + 1
<1>1. PICK S : S = a .. b
  OBVIOUS
<1>2. IsFiniteSet(S) /\ Cardinality(S) = b - a + 1
  <2>1. IsFiniteSet(a .. b) /\ Cardinality(a .. b) = IF a > b THEN 0 ELSE b - a + 1
    BY FS_Interval
  <2>2. QED
    BY <1>1, <2>1
<1>3. PICK g : g = [x \in S |-> f[x]]
  OBVIOUS
<1>4. /\ g \in [S -> T] /\ \A x, y \in S : g[x] = g[y] => x = y
      /\ \A y \in T : \E x \in S : g[x] = y
  BY <1>1, <1>3 DEF Counts
<1>5. g \in Bijection(S, T)
  <2>1. g \in Injection(S, T)
    BY <1>4 DEF Injection, IsInjective
  <2>2. g \in Surjection(S, T)
    BY <1>4, Zenon DEF Surjection
  <2>3. QED
    BY <2>1, <2>2, Zenon DEF Bijection
<1>6. ExistsBijection(S, T)
  BY <1>5 DEF ExistsBijection
<1>7. QED
  BY <1>2, <1>6, FS_Bijection

\* The blocks C gives for a file, and how many they are.
image(C, n) == {C[x] : x \in Nodes(n)}

\* A file has one block for each number.
LEMMA TreeCount ==
  ASSUME NEW n \in Nat, NEW C, \A x, y \in Nodes(n) : C[x] = C[y] => x = y
  PROVE  IsFiniteSet(image(C, n)) /\ Cardinality(image(C, n)) = n + Tables(n)
<1>1. PICK T \in Nat : T = Tables(n) /\ Nodes(n) = -T .. n - 1
  BY TablesOf DEF Nodes
<1>2. PICK a \in Int, b \in Int : a = -T /\ b = n - 1 /\ b - a + 1 = n + T /\ b - a + 1 >= 0
  BY <1>1
<1>3. PICK U : U = image(C, n)
  OBVIOUS
<1>4. /\ \A x \in a .. b : C[x] \in U
      /\ \A y \in U : \E x \in a .. b : C[x] = y
      /\ \A x, y \in a .. b : C[x] = C[y] => x = y
  BY <1>1, <1>2, <1>3 DEF image
<1>4a. Counts(C, a, b, U)
  BY <1>4, Zenon DEF Counts
<1>5. IsFiniteSet(U) /\ Cardinality(U) = b - a + 1
  BY <1>2, <1>4a, CountedBy
<1>6. QED
  BY <1>1, <1>2, <1>3, <1>5

\* tree_size counts the blocks of a file of n data blocks.
LEMMA TreeSize ==
  ASSUME NEW n \in Nat
  PROVE  tree_size(n) = n + Tables(n)
<1>1. PICK T \in Nat : T = Tables(n) /\ Nodes(n) = -T .. n - 1
  BY TablesOf DEF Nodes
<1>2. PICK D \in Nat \ {0}, P \in Nat \ {0}, B \in Nat :
        D = DirectCount /\ P = PerBlock /\ B = INDIRECT1_BOUND /\ B = D + P
  BY Sizes
<1>3. PICK U : U = UNION {tables_over(l) : l \in 0 .. n - 1}
  OBVIOUS
<1>4. PICK f : f = [x \in Int |-> place(x)]
  OBVIOUS
<1>5. /\ f[-1] = <<"indirect1">> /\ f[-2] = <<"indirect2">>
      /\ \A a \in Nat : f[-3 - a] = <<"indirect2", a>>
  <2>1. ~(-1 >= B) /\ ~(-1 >= D) /\ ~(-1 >= 0) /\ ~(-2 >= B) /\ ~(-2 >= D) /\ ~(-2 >= 0) /\ -2 # -1
    BY <1>2
  <2>2. f[-1] = place(-1) /\ f[-2] = place(-2)
    BY <1>4
  <2>3. place(-1) = <<"indirect1">>
    BY <1>2, <2>1, Zenon DEF place
  <2>4. place(-2) = <<"indirect2">>
    BY <1>2, <2>1, Zenon DEF place
  <2>5. ASSUME NEW a \in Nat PROVE f[-3 - a] = <<"indirect2", a>>
    <3>1. PICK x \in Int : x = -3 - a /\ -3 - x = a
      OBVIOUS
    <3>2. ~(x >= B) /\ ~(x >= D) /\ ~(x >= 0) /\ x # -1 /\ x # -2
      BY <1>2, <3>1
    <3>3. f[x] = place(x)
      BY <1>4
    <3>4. place(x) = <<"indirect2", -3 - x>>
      BY <1>2, <3>2, Zenon DEF place
    <3>5. QED
      BY <3>1, <3>3, <3>4
  <2>6. QED
    BY <2>2, <2>3, <2>4, <2>5
<1>6. ASSUME NEW x \in Int, x < 0, NEW y \in Int, y < 0, f[x] = f[y] PROVE x = y
  <2>1. <<"indirect1">> # <<"indirect2">>
    OBVIOUS
  <2>2. \A a \in Nat : <<"indirect1">> # <<"indirect2", a>> /\ <<"indirect2">> # <<"indirect2", a>>
    <3>1. ASSUME NEW a \in Nat PROVE <<"indirect1">> # <<"indirect2", a>> /\ <<"indirect2">> # <<"indirect2", a>>
      <4>1. Len(<<"indirect1">>) = 1 /\ Len(<<"indirect2">>) = 1 /\ Len(<<"indirect2", a>>) = 2
        OBVIOUS
      <4>2. QED
        BY <4>1
    <3>2. QED
      BY <3>1
  <2>3. \A a, b \in Nat : <<"indirect2", a>> = <<"indirect2", b>> => a = b
    OBVIOUS
  <2>4. \A z \in Int : z < 0 => z = -1 \/ z = -2 \/ \E a \in Nat : z = -3 - a
    <3>1. ASSUME NEW z \in Int, z < 0, z # -1, z # -2 PROVE -3 - z \in Nat /\ z = -3 - (-3 - z)
      BY <3>1
    <3>2. QED
      BY <3>1
  <2>5. CASE x = -1
    BY <1>5, <1>6, <2>1, <2>2, <2>4, <2>5
  <2>6. CASE x = -2
    BY <1>5, <1>6, <2>1, <2>2, <2>4, <2>6
  <2>7. CASE x # -1 /\ x # -2
    <3>1. PICK a \in Nat : x = -3 - a
      BY <1>6, <2>4, <2>7
    <3>2. f[x] = <<"indirect2", a>>
      BY <1>5, <3>1
    <3>3. y # -1 /\ y # -2
      BY <1>5, <1>6, <2>2, <3>2
    <3>4. PICK b \in Nat : y = -3 - b
      BY <1>6, <2>4, <3>3
    <3>5. f[y] = <<"indirect2", b>>
      BY <1>5, <3>4
    <3>6. a = b
      BY <1>6, <2>3, <3>2, <3>5
    <3>7. QED
      BY <3>1, <3>4, <3>6
  <2>8. QED
    BY <2>5, <2>6, <2>7
<1>7. ASSUME NEW l \in 0 .. n - 1
      PROVE  tables_over(l) = IF l < D THEN {} ELSE IF l < B THEN {f[-1]} ELSE {f[-2], f[-3 - row(l)]}
  <2>1. l \in Nat
    OBVIOUS
  <2>2. l >= B => row(l) \in Nat
    BY <1>2, <2>1, Rows
  <2>3. CASE l < D
    BY <1>2, <2>3 DEF tables_over
  <2>4. CASE ~(l < D) /\ l < B
    BY <1>2, <1>5, <2>4, Zenon DEF tables_over
  <2>5. CASE ~(l < D) /\ ~(l < B)
    <3>1. f[-3 - row(l)] = <<"indirect2", row(l)>>
      BY <1>2, <1>5, <2>1, <2>2, <2>5
    <3>2. tables_over(l) = {<<"indirect2">>, <<"indirect2", row(l)>>}
      BY <1>2, <2>5, Zenon DEF tables_over, row
    <3>3. QED
      BY <1>5, <2>5, <3>1, <3>2
  <2>6. QED
    BY <2>3, <2>4, <2>5
<1>8. ASSUME NEW y \in U PROVE \E x \in -T .. -1 : f[x] = y
  <2>1. PICK l \in 0 .. n - 1 : y \in tables_over(l)
    BY <1>3
  <2>2. l \in Nat /\ l < n /\ ~(l < D)
    BY <1>7, <2>1
  <2>3. PICK x \in Int : x < 0 /\ f[x] = y /\ x \in Nodes(n)
    <3>1. CASE l < B
      <4>1. -1 \in Nodes(n)
        BY <1>2, <2>2, NodesOf
      <4>2. QED
        BY <1>7, <2>1, <2>2, <3>1, <4>1
    <3>2. CASE ~(l < B)
      <4>1. PICK r \in Nat : r = row(l)
        BY <1>2, <2>2, <3>2, Rows
      <4>2. n - 1 \in Nat /\ l <= n - 1 /\ n > B
        BY <1>2, <2>2, <3>2
      <4>3. r <= row(n - 1)
        BY <1>2, <2>2, <3>2, <4>1, <4>2, RowOrder
      <4>4. -2 \in Nodes(n) /\ -3 - r \in Nodes(n) /\ -3 - r < 0
        BY <1>2, <4>1, <4>2, <4>3, NodesOf
      <4>5. y = f[-2] \/ y = f[-3 - r]
        BY <1>7, <2>1, <2>2, <3>2, <4>1
      <4>6. QED
        BY <4>4, <4>5
    <3>3. QED
      BY <3>1, <3>2
  <2>4. QED
    BY <1>1, <2>3
<1>9. ASSUME NEW x \in -T .. -1 PROVE f[x] \in U
  <2>1. x \in Nodes(n) /\ x \in Int /\ x < 0
    BY <1>1
  <2>2. PICK l \in 0 .. n - 1 : f[x] \in tables_over(l)
    <3>1. CASE x = -1
      <4>1. n > D
        BY <1>2, <2>1, <3>1, NodesOf
      <4>2. D \in 0 .. n - 1 /\ ~(D < D) /\ D < B
        BY <1>2, <4>1
      <4>3. QED
        BY <1>7, <3>1, <4>2
    <3>2. CASE x = -2
      <4>1. n > B
        BY <1>2, <2>1, <3>2, NodesOf
      <4>2. B \in 0 .. n - 1 /\ ~(B < D) /\ ~(B < B)
        BY <1>2, <4>1
      <4>3. QED
        BY <1>7, <3>2, <4>2
    <3>3. CASE x <= -3
      <4>1. PICK l \in Nodes(n) : inner(l) /\ above(l) = x
        BY <2>1, HasChild
      <4>2. l \in Int
        BY <1>1
      <4>3. l >= B
        <5>1. SUFFICES ASSUME l < B PROVE FALSE
          BY <1>2, <4>2
        <5>2. above(l) = -2 \/ above(l) = -1
          BY <1>2, <4>2, <5>1 DEF above
        <5>3. QED
          BY <3>3, <4>1, <5>2
      <4>4. l \in 0 .. n - 1 /\ ~(l < D) /\ ~(l < B)
        BY <1>1, <1>2, <4>2, <4>3
      <4>5. x = -3 - row(l)
        <5>1. ~(l <= -3)
          BY <1>2, <4>2, <4>3
        <5>2. QED
          BY <1>2, <4>1, <4>4, <5>1 DEF above
      <4>6. QED
        BY <1>7, <4>4, <4>5
    <3>4. QED
      BY <2>1, <3>1, <3>2, <3>3
  <2>3. QED
    BY <1>3, <2>2
<1>10. Cardinality(U) = T
  <2>1. PICK a \in Int, b \in Int : a = -T /\ b = -1 /\ b - a + 1 = T /\ b - a + 1 >= 0
    BY <1>1
  <2>2. /\ \A x \in a .. b : f[x] \in U
        /\ \A y \in U : \E x \in a .. b : f[x] = y
    BY <1>8, <1>9, <2>1
  <2>3. \A x, y \in a .. b : f[x] = f[y] => x = y
    <3>1. \A x \in a .. b : x \in Int /\ x < 0
      BY <2>1
    <3>2. QED
      BY <1>6, <3>1
  <2>4. IsFiniteSet(U) /\ Cardinality(U) = b - a + 1
    <3>1. Counts(f, a, b, U)
      BY <2>2, <2>3, Zenon DEF Counts
    <3>2. QED
      BY <2>1, <3>1, CountedBy
  <2>5. QED
    BY <2>1, <2>4
<1>11. QED
  BY <1>1, <1>3, <1>10 DEF tree_size

-------------------------------------------------------------------------------
\* e is inode ino, whose blocks C gives, with buf written at offset: B gives
\* its blocks then.
Wrote(e, ino, C, B, offset, buf) ==
    LET s == offset + Len(buf)
        c == data_blocks(ino.size)
        t == data_blocks(larger(ino.size, s))
    IN  /\ e \in Outcome /\ e.ok = TRUE /\ e.ino.size = larger(ino.size, s)
        /\ c <= t /\ Nodes(c) \subseteq Nodes(t)
        /\ Tree(e.ino, e.store, Nodes(t), B)
        /\ \A x \in Nodes(c) : B[x] = C[x]
        /\ \A x \in Nodes(t) : B[x] \in Int /\ (x \in Nodes(c) \/ B[x] - 1 \in free_bits)
        /\ \A x, y \in Nodes(t) : B[x] = B[y] => x = y
        /\ \A b \in Int : b \in e.bits <=> b \in data_bitmap \/ \E x \in Nodes(t) : b = B[x] - 1
        /\ \A b \in Device, k \in Cell :
              (\A x \in Nodes(t) : B[x] # b) => e.store[b][k] = store[b][k]
        /\ \A l \in Nodes(t), k \in Cell : l >= 0 /\ B[l] \in Device =>
              IF PerBlock * l + k >= offset /\ PerBlock * l + k < s
              THEN e.store[B[l]][k] = buf[(PerBlock * l + k) - offset + 1]
              ELSE e.store[B[l]][k] = store[B[l]][k]
        /\ \A i \in 1 .. Len(buf) : B[block_at(offset, i)] \in Device

WroteResult(e, ino, C, offset, buf) ==
    LET c == data_blocks(ino.size)
        t == data_blocks(larger(ino.size, offset + Len(buf)))
    IN  /\ Fails(e) \/ \E B : Wrote(e, ino, C, B, offset, buf)
        /\ (/\ Roomy(c, t) /\ buf # <<>>
            /\ \A l \in blocks_of(offset, Len(buf)) : l \in Nodes(c) => C[l] \in Device)
           => ~Fails(e)

\* Cell j of a file, which is cell k of block l, in a buffer of n cells.
InBuffer(offset, n, l, k, j) ==
    /\ j >= offset /\ j < offset + n =>
         /\ j - offset + 1 \in 1 .. n
         /\ block_at(offset, j - offset + 1) = l /\ cell_at(offset, j - offset + 1) = k
    /\ \A i \in 1 .. n : block_at(offset, i) = l /\ cell_at(offset, i) = k =>
         j = offset + i - 1 /\ j >= offset /\ j < offset + n

\* A cell of a file is in the buffer exactly when its place is.
LEMMA CellAt ==
  ASSUME NEW offset \in Nat, NEW n \in Nat, NEW l \in Nat, NEW k \in Cell, NEW j \in Nat,
         j = PerBlock * l + k
  PROVE  InBuffer(offset, n, l, k, j)
<1>1. PICK P \in Nat \ {0} : P = PerBlock /\ Cell = 0 .. P - 1
  BY Sizes
<1>2. j \div P = l /\ j % P = k
  BY <1>1, DivModOf
<1>3. ASSUME j >= offset, j < offset + n
      PROVE  /\ j - offset + 1 \in 1 .. n
             /\ block_at(offset, j - offset + 1) = l /\ cell_at(offset, j - offset + 1) = k
  <2>1. j - offset + 1 \in 1 .. n /\ offset + (j - offset + 1) - 1 = j
    BY <1>3
  <2>2. QED
    BY <1>1, <1>2, <2>1 DEF block_at, cell_at
<1>4. ASSUME NEW i \in 1 .. n, block_at(offset, i) = l, cell_at(offset, i) = k
      PROVE  j = offset + i - 1 /\ j >= offset /\ j < offset + n
  <2>1. offset + n \in Nat /\ offset + n <= offset + n
    OBVIOUS
  <2>2. offset + i - 1 = PerBlock * block_at(offset, i) + cell_at(offset, i)
    BY <2>1, BufferCells
  <2>3. j = offset + i - 1
    BY <1>4, <2>2
  <2>4. QED
    BY <2>3
<1>5. QED
  BY <1>3, <1>4 DEF InBuffer

\* increase_size and write_at of the disk inode, together.
LEMMA Writes ==
  ASSUME NEW ino, NEW C, HasBlocks(ino, C), store \in Blocks, data_bitmap \in SUBSET Int,
         NEW offset \in Nat, NEW buf \in Seq(Value), NEW e,
         e = write_cells(increase_size(ino, offset + Len(buf)), offset, buf)
  PROVE  WroteResult(e, ino, C, offset, buf)
<1>1. PICK n \in Nat, s \in Nat, z \in Nat : n = Len(buf) /\ s = offset + n /\ z = ino.size
  <2>1. Len(buf) \in Nat /\ offset + Len(buf) \in Nat /\ ino.size \in Nat
    BY DEF HasBlocks, DiskInode
  <2>2. QED
    BY <2>1
<1>2. PICK d : d = increase_size(ino, s) /\ e = write_cells(d, offset, buf)
  BY <1>1
<1>3. IncreaseResult(d, ino, C, s)
  BY <1>2, Increase, Zenon
<1>4. PICK c \in Nat, m \in Nat, t \in Nat :
        c = data_blocks(z) /\ m = larger(z, s) /\ t = data_blocks(m) /\ s <= m
  <2>1. larger(z, s) \in Nat /\ s <= larger(z, s)
    BY DEF larger
  <2>2. QED
    BY <2>1, DataBlocksOf
<1>5. /\ Fails(d) \/ \E B : Increased(d, ino, C, s, B)
      /\ Roomy(c, t) => ~Fails(d)
  BY <1>1, <1>3, <1>4 DEF IncreaseResult
<1>6. CASE Fails(d)
  <2>1. Fails(e)
    BY <1>2, <1>6, WriteFails
  <2>2. ~Roomy(c, t)
    BY <1>5, <1>6
  <2>3. QED
    BY <1>1, <1>4, <2>1, <2>2 DEF WroteResult
<1>7. CASE ~Fails(d)
  <2>1. PICK B : Increased(d, ino, C, s, B)
    BY <1>5, <1>7
  <2>2. /\ d \in Outcome /\ d.ok = TRUE /\ d.ino.size = m
        /\ c <= t /\ Nodes(c) \subseteq Nodes(t)
        /\ Tree(d.ino, d.store, Nodes(t), B)
        /\ \A x \in Nodes(c) : B[x] = C[x]
        /\ \A x \in Nodes(t) : x \in Nodes(c) \/
              /\ B[x] \in Int /\ B[x] - 1 \in free_bits
              /\ Cardinality(under(free_bits, B[x] - 1)) < needed(c, t)
        /\ \A x, y \in Nodes(t) : B[x] = B[y] => x = y
        /\ \A b \in Int : b \in d.bits <=> b \in data_bitmap \/ \E x \in Nodes(t) : b = B[x] - 1
        /\ \A b \in Device : (\A y \in Nodes(t) : y < 0 => B[y] # b) => d.store[b] = store[b]
    BY <1>1, <1>4, <2>1, Zenon DEF Increased
  <2>3. Nodes(t) \in SUBSET Int
    BY DEF Nodes
  <2>4. \A x \in Nodes(t) : B[x] \in Int
    <3>1. \A x \in Nodes(c) : C[x] \in Int
      BY <1>1, <1>4 DEF HasBlocks
    <3>2. QED
      BY <2>2, <3>1
  <2>5. WriteResult(e, d, B, offset, buf)
    <3>1. t = data_blocks(d.ino.size) /\ offset + Len(buf) <= d.ino.size
      BY <1>1, <1>4, <2>2
    <3>2. d \in Outcome /\ d.ok = TRUE /\ Tree(d.ino, d.store, Nodes(t), B)
          /\ \A x, y \in Nodes(t) : B[x] = B[y] => x = y
      BY <2>2
    <3>3. t \in Nat /\ offset \in Nat /\ buf \in Seq(Value) /\ e = write_cells(d, offset, buf)
      BY <1>2
    <3>4. QED
      BY ONLY <3>1, <3>2, <3>3, WriteCells, Zenon
  <2>6. ASSUME ~Fails(e) PROVE Wrote(e, ino, C, B, offset, buf)
    <3>1. /\ e \in Outcome /\ e.ino = d.ino /\ e.bits = d.bits /\ e.ok = TRUE
          /\ Overwrites(e.store, d.store, B, offset, buf)
      BY <2>5, <2>6 DEF WriteResult
    <3>2. PICK st2, st1 : st2 = e.store /\ st1 = d.store
      OBVIOUS
    <3>3. /\ st2 \in Blocks
          /\ \A i \in 1 .. n : /\ B[block_at(offset, i)] \in Device
                               /\ st2[B[block_at(offset, i)]][cell_at(offset, i)] = buf[i]
          /\ \A b \in Device, k \in Cell :
                \/ \E i \in 1 .. n : b = B[block_at(offset, i)] /\ k = cell_at(offset, i)
                \/ st2[b][k] = st1[b][k]
      BY <1>1, <3>1, <3>2 DEF Overwrites
    <3>4. ASSUME NEW i \in 1 .. n
          PROVE  /\ block_at(offset, i) \in Nat /\ cell_at(offset, i) \in Cell
                 /\ block_at(offset, i) \in Nodes(t)
      <4>1. offset + n <= m
        BY <1>1, <1>4
      <4>2. /\ block_at(offset, i) \in Nat /\ cell_at(offset, i) \in Cell
            /\ block_at(offset, i) < t
        BY <1>4, <4>1, BufferCells
      <4>3. QED
        BY <4>2, NodesOf
    <3>5. ASSUME NEW b \in Device, NEW k \in Cell, \A x \in Nodes(t) : x >= 0 => B[x] # b
          PROVE  st2[b][k] = st1[b][k]
      BY <3>3, <3>4, <3>5
    <3>6. ASSUME NEW b \in Device, NEW k \in Cell, \A x \in Nodes(t) : B[x] # b
          PROVE  st2[b][k] = store[b][k]
      <4>1. st1[b] = store[b]
        BY <2>2, <3>2, <3>6
      <4>2. QED
        BY <3>5, <3>6, <4>1
    <3>7. Tree(e.ino, st2, Nodes(t), B)
      <4>1. SUFFICES ASSUME NEW x \in Nodes(t)
                     PROVE  /\ inner(x) => /\ above(x) \in Nodes(t) /\ B[above(x)] \in Device
                                           /\ slot(x) \in Cell /\ st2[B[above(x)]][slot(x)] = B[x]
                            /\ ~inner(x) => outer(e.ino, x) = B[x]
        BY DEF Tree
      <4>2. /\ inner(x) => /\ above(x) \in Nodes(t) /\ B[above(x)] \in Device
                           /\ slot(x) \in Cell /\ st1[B[above(x)]][slot(x)] = B[x]
            /\ ~inner(x) => outer(e.ino, x) = B[x]
        BY <2>2, <3>1, <3>2 DEF Tree
      <4>3. ASSUME inner(x) PROVE st2[B[above(x)]][slot(x)] = st1[B[above(x)]][slot(x)]
        <5>1. PICK y \in Nodes(t) : y = above(x)
          BY <4>2, <4>3
        <5>2. y < 0
          BY <2>3, <4>3, <5>1, AboveNegative
        <5>3. \A w \in Nodes(t) : w >= 0 => B[w] # B[y]
          BY <2>2, <2>3, <5>2
        <5>4. QED
          BY <3>5, <4>2, <4>3, <5>1, <5>3
      <4>4. QED
        BY <4>2, <4>3
    <3>8. ASSUME NEW l \in Nodes(t), NEW k \in Cell, l >= 0, B[l] \in Device
          PROVE  IF PerBlock * l + k >= offset /\ PerBlock * l + k < s
                 THEN st2[B[l]][k] = buf[(PerBlock * l + k) - offset + 1]
                 ELSE st2[B[l]][k] = store[B[l]][k]
      <4>1. l \in Nat
        BY <2>3, <3>8
      <4>2. PICK j \in Nat : j = PerBlock * l + k
        <5>1. PICK w \in Nat : w = PerBlock * l
          BY <4>1, Sizes, Times
        <5>2. k \in Nat
          BY Sizes
        <5>3. QED
          BY <5>1, <5>2
      <4>3. /\ j >= offset /\ j < s =>
              /\ j - offset + 1 \in 1 .. n
              /\ block_at(offset, j - offset + 1) = l /\ cell_at(offset, j - offset + 1) = k
            /\ \A i \in 1 .. n : block_at(offset, i) = l /\ cell_at(offset, i) = k =>
              j = offset + i - 1 /\ j >= offset /\ j < s
        <5>1. InBuffer(offset, n, l, k, j)
          BY <4>1, <4>2, CellAt, Zenon
        <5>2. QED
          BY <1>1, <5>1, Zenon DEF InBuffer
      <4>4. CASE j >= offset /\ j < s
        <5>1. PICK i \in 1 .. n : i = j - offset + 1 /\ block_at(offset, i) = l /\ cell_at(offset, i) = k
          BY <4>3, <4>4
        <5>2. st2[B[l]][k] = buf[i]
          BY <3>3, <5>1
        <5>3. (PerBlock * l + k) - offset + 1 = i
          BY <4>2, <5>1, Zenon
        <5>4. QED
          BY <4>2, <4>4, <5>2, <5>3, Zenon
      <4>5. CASE ~(j >= offset /\ j < s)
        <5>1. ~\E i \in 1 .. n : B[l] = B[block_at(offset, i)] /\ k = cell_at(offset, i)
          <6>1. SUFFICES ASSUME NEW i \in 1 .. n, B[l] = B[block_at(offset, i)], k = cell_at(offset, i)
                         PROVE  FALSE
            OBVIOUS
          <6>2. block_at(offset, i) = l
            BY <2>2, <3>4, <6>1
          <6>3. QED
            BY <4>3, <4>5, <6>1, <6>2
        <5>2. st2[B[l]][k] = st1[B[l]][k]
          BY <3>3, <3>8, <5>1
        <5>3. \A y \in Nodes(t) : y < 0 => B[y] # B[l]
          BY <2>2, <2>3, <3>8
        <5>4. st1[B[l]] = store[B[l]]
          BY <2>2, <3>2, <3>8, <5>3
        <5>5. QED
          BY <4>2, <4>5, <5>2, <5>4
      <4>6. QED
        BY <4>4, <4>5
    <3>9. /\ e.ok = TRUE /\ e.ino.size = larger(ino.size, offset + Len(buf))
          /\ data_blocks(ino.size) = c /\ data_blocks(larger(ino.size, offset + Len(buf))) = t
      BY <1>1, <1>4, <2>2, <3>1
    <3>10. /\ \A x \in Nodes(t) : B[x] \in Int /\ (x \in Nodes(c) \/ B[x] - 1 \in free_bits)
           /\ \A b \in Int : b \in e.bits <=> b \in data_bitmap \/ \E x \in Nodes(t) : b = B[x] - 1
      BY <2>2, <2>4, <3>1
    <3>11. /\ \A b \in Device, k \in Cell :
                (\A x \in Nodes(t) : B[x] # b) => e.store[b][k] = store[b][k]
           /\ \A l \in Nodes(t), k \in Cell : l >= 0 /\ B[l] \in Device =>
                IF PerBlock * l + k >= offset /\ PerBlock * l + k < offset + Len(buf)
                THEN e.store[B[l]][k] = buf[(PerBlock * l + k) - offset + 1]
                ELSE e.store[B[l]][k] = store[B[l]][k]
           /\ \A i \in 1 .. Len(buf) : B[block_at(offset, i)] \in Device
           /\ Tree(e.ino, e.store, Nodes(t), B)
      BY <1>1, <3>2, <3>3, <3>6, <3>7, <3>8, Zenon
    <3>12. /\ e \in Outcome /\ c <= t /\ Nodes(c) \subseteq Nodes(t)
           /\ \A x \in Nodes(c) : B[x] = C[x]
           /\ \A x, y \in Nodes(t) : B[x] = B[y] => x = y
      BY <2>2, <3>1
    <3>13. QED
      BY ONLY <3>9, <3>10, <3>11, <3>12, Zenon DEF Wrote
  <2>7. ASSUME Roomy(c, t), buf # <<>>,
               \A l \in blocks_of(offset, Len(buf)) : l \in Nodes(c) => C[l] \in Device
        PROVE  ~Fails(e)
    <3>1. ASSUME NEW l \in blocks_of(offset, Len(buf)) PROVE B[l] \in Device
      <4>1. l \in Nodes(t)
        <5>1. n \in Nat \ {0} /\ offset + n <= m
          BY <1>1, <1>4, <2>7
        <5>2. l \in Nat /\ l < t
          BY <1>1, <1>4, <5>1, BlocksWritten
        <5>3. QED
          BY <5>2, NodesOf
      <4>2. CASE l \in Nodes(c)
        BY <2>2, <2>7, <4>2
      <4>3. CASE l \notin Nodes(c)
        <5>1. B[l] \in Int /\ B[l] - 1 \in free_bits /\ Cardinality(under(free_bits, B[l] - 1)) < needed(c, t)
          BY <2>2, <4>1, <4>3
        <5>2. (B[l] - 1) + 1 \in Device
          BY <2>7, <5>1 DEF Roomy
        <5>3. QED
          BY <5>1, <5>2
      <4>4. QED
        BY <4>2, <4>3
    <3>2. QED
      BY <2>5, <2>7, <3>1 DEF WriteResult
  <2>8. QED
    BY <1>1, <1>4, <2>6, <2>7 DEF WroteResult
<1>8. QED
  BY <1>6, <1>7

-------------------------------------------------------------------------------
\* The invariant: A[f] gives the blocks of file f.
blocks(f) == Nodes(data_blocks(inodes[f].size))

Types ==
    /\ inode_bitmap \in SUBSET Inode /\ Root \in inode_bitmap
    /\ data_bitmap \in SUBSET (0 .. BitmapBits - 1)
    /\ inodes \in [Inode -> DiskInode]
    /\ store \in Blocks

\* Every file has its blocks, no two files have the same one, and all that the
\* bitmap says are used are those of a file.
OwnBlocks(A) == \A f \in Inode : HasBlocks(inodes[f], A[f])
Disjoint(A) ==
    \A f, g \in Inode : f # g => \A x \in blocks(f), y \in blocks(g) : A[f][x] # A[g][y]
AllOwned(A) == \A b \in data_bitmap : \E f \in Inode : \E x \in blocks(f) : A[f][x] = b + 1

FreeZero == \A b \in Device \ {0} : b - 1 \notin data_bitmap => \A c \in Cell : store[b][c] = 0

\* Entry i of the directory, and the directory: every file that is not the
\* root has one entry, and every entry a name of its own.
item(A, i) == store[A[Root][i \div PerBlock]][i % PerBlock]
Item == 0 .. inodes[Root].size - 1
Listed(A) ==
    /\ \A i \in Item :
          /\ A[Root][i \div PerBlock] \in Device /\ item(A, i) \in Entry
          /\ item(A, i).inode_number \in inode_bitmap \ {Root}
    /\ \A i, j \in Item :
          \/ item(A, i).name = item(A, j).name
          \/ item(A, i).inode_number = item(A, j).inode_number
          => i = j
    /\ \A f \in inode_bitmap \ {Root} : \E i \in Item : item(A, i).inode_number = f

Unused == \A f \in Inode : f \notin inode_bitmap => inodes[f].size = 0

\* Nothing is behind the end of a file in its last block.
TailOf(f, C) ==
    \A l \in blocks(f) : l >= 0 /\ C[l] \in Device =>
        \A k \in Cell : PerBlock * l + k >= inodes[f].size => store[C[l]][k] = 0
ZeroTail(A) == \A f \in Inode \ {Root} : TailOf(f, A[f])

Layout(A) ==
    /\ Types /\ OwnBlocks(A) /\ Disjoint(A) /\ AllOwned(A) /\ FreeZero
    /\ Listed(A) /\ Unused /\ ZeroTail(A)

Consistent == \E A : Layout(A)

\* The blocks of a file are those the pointers lead to.
LEMMA TreeIs ==
  ASSUME NEW f, NEW C, HasBlocks(inodes[f], C), NEW n, n = data_blocks(inodes[f].size)
  PROVE  tree(f) = image(C, n) /\ n \in Nat
<1>1. PICK D \in Nat \ {0}, P \in Nat \ {0}, B \in Nat :
        D = DirectCount /\ P = PerBlock /\ B = INDIRECT1_BOUND /\ B = D + P
  BY Sizes
<1>2. PICK ino : ino = inodes[f]
  OBVIOUS
<1>3. n \in Nat /\ Tree(ino, store, Nodes(n), C)
  <2>1. ino.size \in Nat
    BY <1>2 DEF HasBlocks, DiskInode
  <2>2. QED
    BY <1>2, <2>1, DataBlocksOf DEF HasBlocks
<1>4. Nodes(n) \in SUBSET Int
  BY DEF Nodes
<1>5. \A x \in Nodes(n) : pointer(store, ino, x) = C[x]
  BY <1>3, <1>4, TreePointer
<1>6. \A l \in 0 .. n - 1 : l \in Nodes(n) /\ get_block_id(store, ino, l) = C[l]
  <2>1. SUFFICES ASSUME NEW l \in 0 .. n - 1
                 PROVE  l \in Nodes(n) /\ get_block_id(store, ino, l) = C[l]
    OBVIOUS
  <2>2. l \in Nodes(n) /\ l >= 0
    BY <1>3, NodesOf
  <2>3. QED
    BY <1>5, <2>2 DEF pointer
<1>7. n > D => -1 \in Nodes(n) /\ ino.indirect1 = C[-1]
  <2>1. n > D => -1 \in Nodes(n) /\ ~(-1 >= 0)
    BY <1>1, <1>3, NodesOf
  <2>2. QED
    BY <1>5, <2>1 DEF pointer
<1>8. n > B => -2 \in Nodes(n) /\ ino.indirect2 = C[-2]
  <2>1. n > B => -2 \in Nodes(n) /\ ~(-2 >= 0) /\ -2 # -1
    BY <1>1, <1>3, NodesOf
  <2>2. QED
    BY <1>5, <2>1 DEF pointer
<1>9. ASSUME NEW y \in Nodes(n), y <= -3
      PROVE  cell(store, ino.indirect2, -3 - y) = C[y]
  <2>1. ~(y >= 0) /\ y # -1 /\ y # -2
    BY <1>4, <1>9
  <2>2. QED
    BY <1>5, <2>1 DEF pointer
<1>10. ASSUME NEW l \in B .. n - 1
       PROVE  /\ row(l) \in Nat /\ -3 - row(l) \in Nodes(n)
              /\ cell(store, ino.indirect2, row(l)) = C[-3 - row(l)]
  <2>1. l \in Nat /\ l >= B /\ l <= n - 1 /\ n > B /\ n - 1 \in Nat /\ n - 1 >= B
    BY <1>1, <1>3
  <2>2. PICK r \in Nat : r = row(l)
    BY <1>1, <2>1, Rows
  <2>3. r <= row(n - 1)
    BY <1>1, <2>1, <2>2, RowOrder
  <2>4. PICK y \in Int : y = -3 - r /\ y <= -3 /\ -3 - y = r
    BY <2>2
  <2>5. y \in Nodes(n)
    BY <1>1, <1>3, <2>1, <2>3, <2>4, NodesOf
  <2>6. cell(store, ino.indirect2, r) = C[y]
    BY <1>9, <2>4, <2>5
  <2>7. QED
    BY <2>2, <2>4, <2>5, <2>6
<1>11. PICK R : R = {cell(store, ino.indirect2, (l - B) \div P) : l \in B .. n - 1}
  OBVIOUS
<1>12. R = {cell(store, ino.indirect2, row(l)) : l \in B .. n - 1}
  BY <1>1, <1>11 DEF row
<1>13. tables(f) = (IF n > D THEN {ino.indirect1} ELSE {}) \cup (IF n > B THEN {ino.indirect2} ELSE {}) \cup R
  BY <1>1, <1>2, <1>11, Zenon DEF tables
<1>14. contents(f) = {get_block_id(store, ino, l) : l \in 0 .. n - 1}
  BY <1>2 DEF contents
<1>15. ASSUME NEW b \in tree(f) PROVE b \in image(C, n)
  <2>1. CASE b \in contents(f)
    BY <1>6, <1>14, <2>1 DEF image
  <2>2. CASE b \in R
    <3>1. PICK l \in B .. n - 1 : b = cell(store, ino.indirect2, row(l))
      BY <1>12, <2>2
    <3>2. QED
      BY <1>10, <3>1 DEF image
  <2>3. CASE n > D /\ b = ino.indirect1
    BY <1>7, <2>3 DEF image
  <2>4. CASE n > B /\ b = ino.indirect2
    BY <1>8, <2>4 DEF image
  <2>5. QED
    BY <1>13, <1>15, <2>1, <2>2, <2>3, <2>4 DEF tree
<1>16. ASSUME NEW x \in Nodes(n) PROVE C[x] \in tree(f)
  <2>1. x \in Int
    BY <1>4
  <2>2. CASE x >= 0
    <3>1. x \in 0 .. n - 1
      BY <1>3, <2>1, <2>2, NodesOf
    <3>2. QED
      BY <1>6, <1>14, <3>1 DEF tree
  <2>3. CASE x = -1
    <3>1. n > D
      BY <1>1, <1>3, <2>1, <2>3, NodesOf
    <3>2. QED
      BY <1>7, <1>13, <2>3, <3>1 DEF tree
  <2>4. CASE x = -2
    <3>1. n > B
      BY <1>1, <1>3, <2>1, <2>4, NodesOf
    <3>2. QED
      BY <1>8, <1>13, <2>4, <3>1 DEF tree
  <2>5. CASE x <= -3
    <3>1. PICK l \in Nodes(n) : inner(l) /\ above(l) = x
      BY <1>3, <2>1, <2>5, HasChild
    <3>2. l \in Int
      BY <1>4
    <3>3. l >= B
      <4>1. SUFFICES ASSUME l < B PROVE FALSE
        BY <1>1, <3>2
      <4>2. above(l) = -2 \/ above(l) = -1
        BY <1>1, <3>2, <4>1 DEF above
      <4>3. QED
        BY <2>5, <3>1, <4>2
    <3>4. l \in B .. n - 1 /\ x = -3 - row(l)
      <4>1. ~(l <= -3) /\ ~(l < B) /\ l < n
        BY <1>1, <1>3, <3>1, <3>2, <3>3, NodesOf
      <4>2. QED
        BY <1>1, <1>3, <3>1, <3>2, <3>3, <4>1 DEF above
    <3>5. C[x] = cell(store, ino.indirect2, row(l))
      BY <1>10, <3>4
    <3>6. QED
      BY <1>12, <1>13, <3>4, <3>5 DEF tree
  <2>6. QED
    BY <2>1, <2>2, <2>3, <2>4, <2>5
<1>17. QED
  BY <1>3, <1>15, <1>16 DEF image

\* The directory is what its blocks hold.
LEMMA DirentIs ==
  ASSUME NEW A, Layout(A), NEW i \in Item
  PROVE  dirent(i) = item(A, i)
<1>1. HasBlocks(inodes[Root], A[Root]) /\ A[Root][i \div PerBlock] \in Device
      /\ inodes[Root].size \in Nat
  <2>1. Root \in Inode
    BY EasyAssumption DEF Root, Inode
  <2>2. QED
    BY <2>1 DEF Layout, OwnBlocks, Listed, HasBlocks, DiskInode
<1>2. PICK l \in Nat : l = i \div PerBlock /\ l < data_blocks(inodes[Root].size) /\ i % PerBlock \in Cell
  <2>1. i \in Nat /\ i < inodes[Root].size
    BY <1>1 DEF Item
  <2>2. QED
    BY <1>1, <2>1, CellOf
<1>3. PICK n \in Nat : n = data_blocks(inodes[Root].size)
  BY <1>1, DataBlocksOf
<1>4. Tree(inodes[Root], store, Nodes(n), A[Root])
  BY <1>1, <1>3 DEF HasBlocks
<1>5. l \in Nodes(n) /\ Nodes(n) \in SUBSET Int
  BY <1>2, <1>3, NodesOf DEF Nodes
<1>6. pointer(store, inodes[Root], l) = A[Root][l]
  BY <1>4, <1>5, TreePointer
<1>7. get_block_id(store, inodes[Root], l) = A[Root][l]
  BY <1>6 DEF pointer
<1>8. QED
  BY <1>1, <1>2, <1>7 DEF dirent, cell, item

\* The invariant has what BlocksAccounted says.
LEMMA LayoutAccounts ==
  ASSUME NEW A, Layout(A)
  PROVE  BlocksAccounted
<1>1. /\ OwnBlocks(A) /\ Disjoint(A) /\ AllOwned(A) /\ FreeZero /\ Types /\ Listed(A)
  BY DEF Layout
<1>2. ASSUME NEW f \in Inode
      PROVE  /\ data_blocks(inodes[f].size) \in Nat
             /\ tree(f) = image(A[f], data_blocks(inodes[f].size))
             /\ HasBlocks(inodes[f], A[f])
  BY <1>1, TreeIs DEF OwnBlocks
<1>3. data_bitmap = {b - 1 : b \in UNION {tree(f) : f \in Inode}}
  <2>1. ASSUME NEW a \in data_bitmap PROVE a \in {b - 1 : b \in UNION {tree(f) : f \in Inode}}
    <3>1. PICK f \in Inode : \E x \in blocks(f) : A[f][x] = a + 1
      BY <1>1 DEF AllOwned
    <3>2. a + 1 \in tree(f)
      BY <1>2, <3>1 DEF blocks, image
    <3>3. a \in Int /\ a = (a + 1) - 1
      BY <1>1 DEF Types
    <3>4. QED
      BY <3>2, <3>3
  <2>2. ASSUME NEW f \in Inode, NEW b \in tree(f) PROVE b - 1 \in data_bitmap
    BY <1>2 DEF HasBlocks, image
  <2>3. QED
    BY <2>1, <2>2
<1>4. inode_bitmap = {Root} \cup {dirents[i].inode_number : i \in DOMAIN dirents}
  <2>0. inodes[Root].size \in Nat
    <3>1. Root \in Inode
      BY EasyAssumption DEF Root, Inode
    <3>2. QED
      BY <1>1, <3>1 DEF Types, DiskInode
  <2>1. DOMAIN dirents = 1 .. inodes[Root].size /\ \A i \in 1 .. inodes[Root].size : dirents[i] = dirent(i - 1)
    BY DEF dirents
  <2>2. ASSUME NEW i \in Item PROVE i + 1 \in DOMAIN dirents /\ dirents[i + 1] = item(A, i)
    <3>1. i + 1 \in 1 .. inodes[Root].size /\ (i + 1) - 1 = i
      BY <2>0 DEF Item
    <3>2. dirent(i) = item(A, i)
      BY DirentIs
    <3>3. QED
      BY <2>1, <3>1, <3>2
  <2>3. ASSUME NEW g \in inode_bitmap, g # Root PROVE \E i \in DOMAIN dirents : dirents[i].inode_number = g
    <3>1. PICK i \in Item : item(A, i).inode_number = g
      BY <1>1, <2>3 DEF Listed
    <3>2. QED
      BY <2>2, <3>1
  <2>4. ASSUME NEW i \in DOMAIN dirents PROVE dirents[i].inode_number \in inode_bitmap
    <3>1. PICK j \in Item : i = j + 1
      <4>1. i - 1 \in Item /\ i = (i - 1) + 1
        BY <2>0, <2>1 DEF Item
      <4>2. QED
        BY <4>1
    <3>2. QED
      BY <1>1, <2>2, <3>1 DEF Listed
  <2>5. QED
    BY <1>1, <2>3, <2>4 DEF Types
<1>5. ASSUME NEW f \in Inode
      PROVE  Cardinality(tree(f)) = tree_size(data_blocks(inodes[f].size))
  <2>1. PICK n \in Nat : n = data_blocks(inodes[f].size)
    BY <1>2
  <2>2. \A x, y \in Nodes(n) : A[f][x] = A[f][y] => x = y
    BY <1>2, <2>1 DEF HasBlocks
  <2>3. Cardinality(image(A[f], n)) = n + Tables(n)
    BY <2>2, TreeCount
  <2>4. QED
    BY <1>2, <2>1, <2>3, TreeSize
<1>6. ASSUME NEW f \in Inode, NEW g \in Inode \ {f} PROVE tree(f) \cap tree(g) = {}
  BY <1>1, <1>2 DEF Disjoint, blocks, image
<1>7. QED
  BY <1>1, <1>3, <1>4, <1>5, <1>6 DEF BlocksAccounted, FreeZero

-------------------------------------------------------------------------------
\* A file of no cells has no blocks.
LEMMA NoBlocks ==
  /\ data_blocks(0) = 0 /\ Nodes(0) = {}
  /\ \A ino \in DiskInode : ino.size = 0 => Nodes(data_blocks(ino.size)) = {}
<1>1. data_blocks(0) = 0
  <2>1. PICK n \in Nat : n = data_blocks(0)
    BY DataBlocksOf
  <2>2. ~(0 < n)
    <3>1. PerBlock * 0 = 0
      BY Sizes
    <3>2. 0 < n <=> PerBlock * 0 < 0
      BY <2>1, DataBlocksOf
    <3>3. QED
      BY <3>1, <3>2
  <2>3. QED
    BY <2>1, <2>2
<1>2. Nodes(0) = {}
  BY Sizes DEF Nodes, Tables
<1>3. QED
  BY <1>1, <1>2

\* The disk as EasyFileSystem::create leaves it.
LEMMA InitLayout ==
  ASSUME Init
  PROVE  Consistent
<1>1. PICK A : A = [f \in Inode |-> [x \in {} |-> 0]]
  OBVIOUS
<1>2. Root \in Inode /\ 0 \in Nat
  BY EasyAssumption DEF Root, Inode
<1>3. new_inode \in DiskInode /\ new_inode.size = 0
  <2>1. [k \in 0 .. DirectCount - 1 |-> 0] \in [0 .. DirectCount - 1 -> Int]
    OBVIOUS
  <2>2. QED
    BY <2>1 DEF new_inode, DiskInode
<1>4. \A f \in Inode : inodes[f] = new_inode /\ inodes[f].size = 0 /\ blocks(f) = {}
  BY <1>3, NoBlocks DEF Init, blocks
<1>5. store \in Blocks
  <2>1. Magic \in Value /\ 0 \in Value
    BY EasyAssumption DEF Value
  <2>2. QED
    BY <2>1 DEF Init, Blocks
<1>6. Types
  BY <1>2, <1>3, <1>5 DEF Init, Types
<1>7. OwnBlocks(A) /\ Disjoint(A)
  <2>1. ASSUME NEW f \in Inode PROVE HasBlocks(inodes[f], A[f])
    <3>1. inodes[f] \in DiskInode /\ Nodes(data_blocks(inodes[f].size)) = {}
      BY <1>3, <1>4 DEF blocks
    <3>2. QED
      BY <3>1 DEF HasBlocks, Tree
  <2>2. QED
    BY <1>4, <2>1 DEF OwnBlocks, Disjoint
<1>8. AllOwned(A) /\ Unused
  BY <1>4 DEF AllOwned, Unused, Init
<1>9. FreeZero
  BY DEF FreeZero, Init
<1>10. Listed(A)
  <2>1. Item = {}
    BY <1>2, <1>4 DEF Item
  <2>2. QED
    BY <2>1 DEF Listed, Init
<1>11. ZeroTail(A)
  BY <1>4 DEF ZeroTail, TailOf
<1>12. QED
  BY <1>6, <1>7, <1>8, <1>9, <1>10, <1>11 DEF Consistent, Layout

\* A call that only looks at the disk.
LEMMA SameLayout ==
  ASSUME NEW A, Layout(A), UNCHANGED disk
  PROVE  Layout(A)'
<1>1. /\ inode_bitmap' = inode_bitmap /\ data_bitmap' = data_bitmap
      /\ inodes' = inodes /\ store' = store
  BY DEF disk
<1>2. Types'
  BY <1>1 DEF Layout, Types
<1>3. OwnBlocks(A)' /\ Disjoint(A)' /\ AllOwned(A)'
  BY <1>1 DEF Layout, OwnBlocks, HasBlocks, Disjoint, AllOwned, blocks
<1>4. FreeZero' /\ Unused'
  BY <1>1 DEF Layout, FreeZero, Unused
<1>5. Listed(A)' /\ ZeroTail(A)'
  BY <1>1 DEF Layout, Listed, Item, item, ZeroTail, TailOf, blocks
<1>6. QED
  BY <1>2, <1>3, <1>4, <1>5 DEF Layout

\* What a call did that wrote to file f: e is what it left, B its blocks.
Rewritten(f, e, A, B, A2) ==
    /\ store' = e.store /\ data_bitmap' = e.bits
    /\ inodes' \in [Inode -> DiskInode] /\ inodes'[f] = e.ino
    /\ \A g \in Inode : g # f =>
          inodes'[g] = inodes[g] \/ (inodes'[g].size = 0 /\ inodes[g].size = 0)
    /\ A2 = [g \in Inode |-> IF g = f THEN B ELSE A[g]]

\* The blocks of the other files, and what they hold, are as before.
OthersKept(f, A) ==
    \A g \in Inode : g # f =>
        /\ inodes'[g].size = inodes[g].size /\ blocks(g)' = blocks(g)
        /\ \A x \in blocks(g) : A[g][x] \in Device => \A k \in Cell : store'[A[g][x]][k] = store[A[g][x]][k]

\* After a write the files have their blocks, and no two of them the same one.
LEMMA RewriteBlocks ==
  ASSUME NEW A, Layout(A), NEW f \in Inode, NEW e, NEW B, NEW offset \in Nat, NEW buf \in Seq(Value),
         Wrote(e, inodes[f], A[f], B, offset, buf), NEW A2, Rewritten(f, e, A, B, A2)
  PROVE  /\ OthersKept(f, A) /\ OwnBlocks(A2)' /\ Disjoint(A2)' /\ AllOwned(A2)' /\ FreeZero'
         /\ store' \in Blocks /\ data_bitmap' \in SUBSET (0 .. BitmapBits - 1)
<1>1. Types /\ OwnBlocks(A) /\ Disjoint(A) /\ AllOwned(A) /\ FreeZero
  BY DEF Layout
<1>2. PICK z \in Nat : z = inodes[f].size
  BY <1>1 DEF Types, DiskInode
<1>3. PICK c \in Nat, m \in Nat, t \in Nat :
        c = data_blocks(z) /\ m = larger(z, offset + Len(buf)) /\ t = data_blocks(m)
  <2>1. larger(z, offset + Len(buf)) \in Nat
    BY DEF larger
  <2>2. QED
    BY <2>1, DataBlocksOf
<1>4. /\ e \in Outcome /\ e.ino.size = m
      /\ c <= t /\ Nodes(c) \subseteq Nodes(t)
      /\ Tree(e.ino, e.store, Nodes(t), B)
      /\ \A x \in Nodes(c) : B[x] = A[f][x]
      /\ \A x \in Nodes(t) : B[x] \in Int /\ (x \in Nodes(c) \/ B[x] - 1 \in free_bits)
      /\ \A x, y \in Nodes(t) : B[x] = B[y] => x = y
      /\ \A b \in Int : b \in e.bits <=> b \in data_bitmap \/ \E x \in Nodes(t) : b = B[x] - 1
      /\ \A b \in Device, k \in Cell : (\A x \in Nodes(t) : B[x] # b) => e.store[b][k] = store[b][k]
  BY <1>2, <1>3, Zenon DEF Wrote
<1>5. /\ store' = e.store /\ data_bitmap' = e.bits
      /\ inodes' \in [Inode -> DiskInode] /\ inodes'[f] = e.ino
      /\ \A g \in Inode : g # f =>
            inodes'[g] = inodes[g] \/ (inodes'[g].size = 0 /\ inodes[g].size = 0)
      /\ A2[f] = B /\ \A g \in Inode : g # f => A2[g] = A[g]
  BY DEF Rewritten
<1>6. blocks(f) = Nodes(c) /\ blocks(f)' = Nodes(t)
  BY <1>2, <1>3, <1>4, <1>5 DEF blocks
<1>7. /\ \A b \in free_bits : b \in 0 .. BitmapBits - 1 /\ b \notin data_bitmap
      /\ data_bitmap \in SUBSET (0 .. BitmapBits - 1)
  BY <1>1 DEF free_bits, Types
<1>8. ASSUME NEW g \in Inode, g # f
      PROVE  inodes'[g].size = inodes[g].size /\ blocks(g)' = blocks(g)
  BY <1>5, <1>8 DEF blocks
<1>9. ASSUME NEW g \in Inode, g # f, NEW x \in blocks(g), NEW y \in Nodes(t)
      PROVE  B[y] # A[g][x]
  <2>1. A[g][x] - 1 \in data_bitmap
    BY <1>1 DEF OwnBlocks, HasBlocks, blocks
  <2>2. CASE y \in Nodes(c)
    <3>1. y \in blocks(f) /\ B[y] = A[f][y]
      BY <1>4, <1>6, <2>2
    <3>2. QED
      BY <1>1, <1>9, <3>1 DEF Disjoint
  <2>3. CASE y \notin Nodes(c)
    BY <1>4, <1>7, <1>9, <2>1, <2>3
  <2>4. QED
    BY <2>2, <2>3
<1>10. ASSUME NEW g \in Inode, g # f, NEW x \in blocks(g), A[g][x] \in Device, NEW k \in Cell
       PROVE  store'[A[g][x]][k] = store[A[g][x]][k]
  <2>1. \A y \in Nodes(t) : B[y] # A[g][x]
    BY <1>9, <1>10
  <2>2. QED
    BY <1>4, <1>5, <1>10, <2>1
<1>11. OthersKept(f, A)
  BY <1>8, <1>10 DEF OthersKept
<1>12. store' \in Blocks
  BY <1>4, <1>5 DEF Outcome
<1>13. \A x \in Nodes(c) : A[f][x] \in Int /\ A[f][x] - 1 \in data_bitmap
  BY <1>1, <1>6 DEF OwnBlocks, HasBlocks, blocks
<1>14. \A b \in data_bitmap' : b \in Int
  BY <1>4, <1>5 DEF Outcome
<1>15. data_bitmap' \in SUBSET (0 .. BitmapBits - 1)
  <2>1. SUFFICES ASSUME NEW b \in data_bitmap' PROVE b \in 0 .. BitmapBits - 1
    OBVIOUS
  <2>2. CASE b \in data_bitmap
    BY <1>7, <2>2
  <2>3. CASE b \notin data_bitmap
    <3>1. PICK x \in Nodes(t) : b = B[x] - 1
      BY <1>4, <1>5, <1>14, <2>3
    <3>2. x \notin Nodes(c)
      BY <1>4, <1>13, <2>3, <3>1
    <3>3. QED
      BY <1>4, <1>7, <3>1, <3>2
  <2>4. QED
    BY <2>2, <2>3
<1>16. data_bitmap \subseteq data_bitmap'
  <2>1. SUFFICES ASSUME NEW b \in data_bitmap PROVE b \in data_bitmap'
    OBVIOUS
  <2>2. b \in Int
    BY <1>7
  <2>3. QED
    BY <1>4, <1>5, <2>2
<1>17. \A x \in Nodes(t) : B[x] \in Int /\ B[x] - 1 \in data_bitmap'
  BY <1>4, <1>5
<1>18. OwnBlocks(A2)'
  <2>1. ASSUME NEW g \in Inode PROVE HasBlocks(inodes[g], A2[g])'
    <3>1. CASE g = f
      <4>1. /\ inodes'[g] \in DiskInode /\ inodes'[g] = e.ino /\ A2[g] = B
            /\ data_blocks(inodes'[g].size) = t
        BY <1>3, <1>4, <1>5, <3>1
      <4>2. QED
        BY <1>4, <1>5, <1>17, <4>1 DEF HasBlocks
    <3>2. CASE g # f
      <4>1. PICK n : n = data_blocks(inodes[g].size) /\ n = data_blocks(inodes'[g].size) /\ Nodes(n) = blocks(g)
        BY <1>8, <3>2 DEF blocks
      <4>2. /\ Tree(inodes[g], store, Nodes(n), A[g])
            /\ \A x \in Nodes(n) : A[g][x] \in Int /\ A[g][x] - 1 \in data_bitmap
            /\ \A x, y \in Nodes(n) : A[g][x] = A[g][y] => x = y
        BY <1>1, <4>1 DEF OwnBlocks, HasBlocks
      <4>3. inodes'[g] \in DiskInode /\ A2[g] = A[g]
        BY <1>5, <3>2
      <4>4. Tree(inodes'[g], store', Nodes(n), A[g])
        <5>1. SUFFICES ASSUME NEW x \in Nodes(n)
                       PROVE  /\ inner(x) => /\ above(x) \in Nodes(n) /\ A[g][above(x)] \in Device
                                             /\ slot(x) \in Cell /\ store'[A[g][above(x)]][slot(x)] = A[g][x]
                              /\ ~inner(x) => outer(inodes'[g], x) = A[g][x]
          BY DEF Tree
        <5>2. /\ inner(x) => /\ above(x) \in Nodes(n) /\ A[g][above(x)] \in Device
                             /\ slot(x) \in Cell /\ store[A[g][above(x)]][slot(x)] = A[g][x]
              /\ ~inner(x) => outer(inodes[g], x) = A[g][x]
          BY <4>2 DEF Tree
        <5>3. inodes'[g] = inodes[g]
          <6>1. inodes[g].size # 0
            <7>1. inodes[g] \in DiskInode
              BY <1>1 DEF Types
            <7>2. QED
              BY <4>1, <5>1, <7>1, NoBlocks
          <6>2. QED
            BY <1>5, <3>2, <6>1
        <5>4. inner(x) => store'[A[g][above(x)]][slot(x)] = store[A[g][above(x)]][slot(x)]
          BY <1>10, <3>2, <4>1, <5>2
        <5>5. QED
          BY <5>2, <5>3, <5>4
      <4>5. QED
        BY <1>16, <4>1, <4>2, <4>3, <4>4 DEF HasBlocks
    <3>3. QED
      BY <3>1, <3>2
  <2>2. QED
    BY <2>1 DEF OwnBlocks
<1>19. Disjoint(A2)'
  <2>1. SUFFICES ASSUME NEW g \in Inode, NEW h \in Inode, g # h, NEW x \in blocks(g)', NEW y \in blocks(h)'
                 PROVE  A2[g][x] # A2[h][y]
    BY DEF Disjoint
  <2>2. CASE g # f /\ h # f
    BY <1>1, <1>5, <1>8, <2>1, <2>2 DEF Disjoint
  <2>3. CASE g = f
    BY <1>5, <1>6, <1>8, <1>9, <2>1, <2>3
  <2>4. CASE h = f
    BY <1>5, <1>6, <1>8, <1>9, <2>1, <2>4
  <2>5. QED
    BY <2>2, <2>3, <2>4
<1>20. AllOwned(A2)'
  <2>1. SUFFICES ASSUME NEW b \in data_bitmap' PROVE \E g \in Inode : \E x \in blocks(g)' : A2[g][x] = b + 1
    BY DEF AllOwned
  <2>2. CASE b \in data_bitmap
    <3>0. PICK g \in Inode : \E x \in blocks(g) : A[g][x] = b + 1
      BY <1>1, <2>2 DEF AllOwned
    <3>1. PICK x \in blocks(g) : A[g][x] = b + 1
      BY <3>0
    <3>2. CASE g = f
      BY <1>4, <1>5, <1>6, <3>1, <3>2
    <3>3. CASE g # f
      BY <1>5, <1>8, <3>1, <3>3
    <3>4. QED
      BY <3>2, <3>3
  <2>3. CASE b \notin data_bitmap
    <3>1. PICK x \in Nodes(t) : b = B[x] - 1
      BY <1>4, <1>5, <1>14, <2>3
    <3>2. B[x] = b + 1
      BY <1>4, <3>1
    <3>3. QED
      BY <1>5, <1>6, <3>1, <3>2
  <2>4. QED
    BY <2>2, <2>3
<1>21. FreeZero'
  <2>1. SUFFICES ASSUME NEW b \in Device \ {0}, b - 1 \notin data_bitmap', NEW k \in Cell
                 PROVE  store'[b][k] = 0
    BY DEF FreeZero
  <2>2. \A x \in Nodes(t) : B[x] # b
    BY <1>17, <2>1
  <2>3. b - 1 \notin data_bitmap
    BY <1>16, <2>1
  <2>4. QED
    BY <1>1, <1>4, <1>5, <2>2, <2>3 DEF FreeZero
<1>22. QED
  BY <1>11, <1>12, <1>15, <1>18, <1>19, <1>20, <1>21

\* Nothing is behind the end of the files that a call did not write to.
LEMMA OthersTail ==
  ASSUME NEW A, ZeroTail(A), NEW f \in Inode, OthersKept(f, A), NEW A2,
         \A g \in Inode : g # f => A2[g] = A[g], NEW g \in Inode \ {Root}, g # f
  PROVE  TailOf(g, A2[g])'
<1>1. SUFFICES ASSUME NEW l \in blocks(g)', l >= 0, A2[g][l] \in Device,
                      NEW k \in Cell, PerBlock * l + k >= inodes'[g].size
               PROVE  store'[A2[g][l]][k] = 0
  BY DEF TailOf
<1>2. /\ inodes'[g].size = inodes[g].size /\ l \in blocks(g) /\ A2[g][l] = A[g][l]
      /\ store'[A[g][l]][k] = store[A[g][l]][k]
  BY <1>1 DEF OthersKept
<1>3. store[A[g][l]][k] = 0
  BY <1>1, <1>2 DEF ZeroTail, TailOf
<1>4. QED
  BY <1>2, <1>3

\* Nothing is behind the end of the file that was written to.
LEMMA OwnTail ==
  ASSUME NEW A, Layout(A), NEW f \in Inode \ {Root}, NEW e, NEW B, NEW offset \in Nat,
         NEW buf \in Seq(Value), Wrote(e, inodes[f], A[f], B, offset, buf),
         NEW A2, Rewritten(f, e, A, B, A2)
  PROVE  TailOf(f, B)'
<1>1. SUFFICES ASSUME NEW l \in blocks(f)', l >= 0, B[l] \in Device,
                      NEW k \in Cell, PerBlock * l + k >= inodes'[f].size
               PROVE  store'[B[l]][k] = 0
  BY DEF TailOf
<1>2. Types /\ OwnBlocks(A) /\ FreeZero /\ ZeroTail(A)
  BY DEF Layout
<1>3. PICK z \in Nat, n \in Nat : z = inodes[f].size /\ n = Len(buf)
  <2>1. inodes[f].size \in Nat
    BY <1>2 DEF Types, DiskInode
  <2>2. QED
    BY <2>1
<1>4. PICK c \in Nat, m \in Nat, t \in Nat :
        /\ c = data_blocks(z) /\ m = larger(z, offset + Len(buf)) /\ t = data_blocks(m)
        /\ m >= z /\ m >= offset + n
  <2>1. larger(z, offset + n) \in Nat /\ larger(z, offset + n) >= z /\ larger(z, offset + n) >= offset + n
    BY DEF larger
  <2>2. QED
    BY <1>3, <2>1, DataBlocksOf
<1>5. /\ e.ino.size = m
      /\ \A x \in Nodes(c) : B[x] = A[f][x]
      /\ \A x \in Nodes(t) : B[x] \in Int /\ (x \in Nodes(c) \/ B[x] - 1 \in free_bits)
      /\ \A y \in Nodes(t), j \in Cell : y >= 0 /\ B[y] \in Device =>
            IF PerBlock * y + j >= offset /\ PerBlock * y + j < offset + Len(buf)
            THEN e.store[B[y]][j] = buf[(PerBlock * y + j) - offset + 1]
            ELSE e.store[B[y]][j] = store[B[y]][j]
  BY <1>3, <1>4, Zenon DEF Wrote
<1>6. store' = e.store /\ inodes'[f] = e.ino /\ l \in Nodes(t)
  BY <1>4, <1>5 DEF Rewritten, blocks
<1>7. PICK p \in Int : p = PerBlock * l + k /\ p >= m
  <2>1. l \in Int /\ k \in Int /\ PerBlock \in Int
    BY <1>6, Sizes DEF Nodes, Cell
  <2>2. QED
    BY <1>1, <1>5, <1>6, <2>1
<1>8. e.store[B[l]][k] = store[B[l]][k]
  BY <1>1, <1>3, <1>4, <1>5, <1>6, <1>7
<1>9. CASE l \in Nodes(c)
  <2>1. l \in blocks(f) /\ B[l] = A[f][l] /\ p >= inodes[f].size
    BY <1>3, <1>4, <1>5, <1>7, <1>9 DEF blocks
  <2>2. store[A[f][l]][k] = 0
    BY <1>1, <1>2, <1>7, <2>1 DEF ZeroTail, TailOf
  <2>3. QED
    BY <1>6, <1>8, <2>1, <2>2
<1>10. CASE l \notin Nodes(c)
  <2>1. B[l] \in Int /\ B[l] - 1 \in free_bits
    BY <1>5, <1>6, <1>10
  <2>2. B[l] # 0 /\ B[l] - 1 \notin data_bitmap
    BY <2>1 DEF free_bits
  <2>3. QED
    BY <1>1, <1>2, <1>6, <1>8, <2>2 DEF FreeZero
<1>11. QED
  BY <1>9, <1>10

\* The directory is as before when another file was written to.
LEMMA ListedKept ==
  ASSUME NEW A, Layout(A), NEW f \in Inode \ {Root}, OthersKept(f, A),
         inode_bitmap' = inode_bitmap, NEW A2, A2[Root] = A[Root]
  PROVE  Listed(A2)' /\ Item' = Item /\ \A i \in Item : item(A2, i)' = item(A, i)
<1>1. Types /\ Listed(A) /\ Root \in Inode /\ Root # f
  BY EasyAssumption DEF Layout, Root, Inode
<1>2. PICK z \in Nat : z = inodes[Root].size
  BY <1>1 DEF Types, DiskInode
<1>3. inodes'[Root].size = z
  BY <1>1, <1>2 DEF OthersKept
<1>4. Item' = Item
  BY <1>2, <1>3 DEF Item
<1>5. ASSUME NEW i \in Item
      PROVE  /\ item(A2, i)' = item(A, i) /\ A2[Root][i \div PerBlock] = A[Root][i \div PerBlock]
  <2>1. i \in Nat /\ i < z
    BY <1>2 DEF Item
  <2>2. PICK l \in Nat : l = i \div PerBlock /\ l < data_blocks(z) /\ i % PerBlock \in Cell
    BY <2>1, CellOf
  <2>3. l \in blocks(Root)
    <3>1. PICK n \in Nat : n = data_blocks(z)
      BY DataBlocksOf
    <3>2. QED
      BY <1>2, <2>2, <3>1, NodesOf DEF blocks
  <2>4. A[Root][l] \in Device
    BY <1>1, <2>2 DEF Listed
  <2>5. store'[A[Root][l]][i % PerBlock] = store[A[Root][l]][i % PerBlock]
    BY <1>1, <2>2, <2>3, <2>4 DEF OthersKept
  <2>6. QED
    BY <2>2, <2>5 DEF item
<1>6. Listed(A2)'
  <2>1. ASSUME NEW i \in Item'
        PROVE  /\ A2[Root][i \div PerBlock] \in Device /\ item(A2, i)' \in Entry
               /\ item(A2, i)'.inode_number \in inode_bitmap \ {Root}
    BY <1>1, <1>4, <1>5 DEF Listed
  <2>2. ASSUME NEW i \in Item', NEW j \in Item',
               \/ item(A2, i)'.name = item(A2, j)'.name
               \/ item(A2, i)'.inode_number = item(A2, j)'.inode_number
        PROVE  i = j
    BY <1>1, <1>4, <1>5, <2>2 DEF Listed
  <2>3. ASSUME NEW g \in inode_bitmap \ {Root}
        PROVE  \E i \in Item' : item(A2, i)'.inode_number = g
    BY <1>1, <1>4, <1>5 DEF Listed
  <2>4. QED
    BY <2>1, <2>2, <2>3 DEF Listed
<1>7. QED
  BY <1>4, <1>5, <1>6

\* The call that wrote to file f left a consistent disk.
Leaves(f, e, A, B) == \E A2 : Rewritten(f, e, A, B, A2) /\ Layout(A2)'

\* Inode::write_at that does not panic.
LEMMA WriteLayout ==
  ASSUME NEW A, Layout(A), NEW f \in File, f \in inode_bitmap, NEW offset \in Nat,
         NEW buf \in Seq(Value), NEW e, NEW B, Wrote(e, inodes[f], A[f], B, offset, buf), Keep(f, e)
  PROVE  Leaves(f, e, A, B)
<1>1. Types /\ Unused /\ ZeroTail(A) /\ f \in Inode /\ f \in Inode \ {Root} /\ Root \in Inode
  BY EasyAssumption DEF Layout, File, Root, Inode
<1>2. PICK A2 : A2 = [g \in Inode |-> IF g = f THEN B ELSE A[g]]
  OBVIOUS
<1>3. /\ store' = e.store /\ data_bitmap' = e.bits /\ inode_bitmap' = inode_bitmap
      /\ inodes' = [inodes EXCEPT ![f] = e.ino]
  BY DEF Keep
<1>4. e.ino \in DiskInode
  BY DEF Wrote, Outcome
<1>5. Rewritten(f, e, A, B, A2)
  <2>1. inodes \in [Inode -> DiskInode]
    BY <1>1 DEF Types
  <2>2. /\ inodes' \in [Inode -> DiskInode] /\ inodes'[f] = e.ino
        /\ \A g \in Inode : g # f => inodes'[g] = inodes[g]
    BY <1>1, <1>3, <1>4, <2>1
  <2>3. QED
    BY <1>2, <1>3, <2>2 DEF Rewritten
<1>6. /\ OthersKept(f, A) /\ OwnBlocks(A2)' /\ Disjoint(A2)' /\ AllOwned(A2)' /\ FreeZero'
      /\ store' \in Blocks /\ data_bitmap' \in SUBSET (0 .. BitmapBits - 1)
  BY <1>1, <1>5, RewriteBlocks
<1>7. Types'
  BY <1>1, <1>3, <1>5, <1>6 DEF Types, Rewritten
<1>8. Unused'
  BY <1>1, <1>3, <1>6 DEF Unused, OthersKept
<1>9. A2[f] = B /\ A2[Root] = A[Root] /\ \A g \in Inode : g # f => A2[g] = A[g]
  BY <1>1, <1>2
<1>10. Listed(A2)'
  BY <1>1, <1>3, <1>6, <1>9, ListedKept
<1>11. ZeroTail(A2)'
  <2>1. TailOf(f, A2[f])'
    BY <1>1, <1>5, <1>9, OwnTail
  <2>2. ASSUME NEW g \in Inode \ {Root}, g # f PROVE TailOf(g, A2[g])'
    BY <1>1, <1>6, <1>9, <2>2, OthersTail
  <2>3. QED
    BY <2>1, <2>2 DEF ZeroTail
<1>12. Layout(A2)'
  BY <1>6, <1>7, <1>8, <1>10, <1>11 DEF Layout
<1>13. QED
  BY <1>5, <1>12 DEF Leaves

\* The directory has a new entry at its end, for a new file that is empty.
Added(A, name, id) ==
    \E A2 : /\ Layout(A2)' /\ OthersKept(Root, A) /\ \A g \in Inode : g # Root => A2[g] = A[g]
            /\ id \in Inode /\ id # Root /\ inodes'[id].size = 0
            /\ name \in Name \cup FullName /\ \A i \in Item : item(A, i).name # name
            /\ \E z : /\ Item' = Item \cup {z} /\ item(A2, z)' = entry(name, id)
                      /\ \A i \in Item : item(A2, i)' = item(A, i)

\* Inode::create of a name that the directory does not have.
LEMMA CreateLayout ==
  ASSUME NEW A, Layout(A), NEW name \in Name \cup FullName, NEW id \in Inode \ inode_bitmap,
         \A i \in Item : item(A, i).name # name,
         NEW e, NEW B, Wrote(e, inodes[Root], A[Root], B, inodes[Root].size, <<entry(name, id)>>),
         inode_bitmap' = inode_bitmap \cup {id}, store' = e.store, data_bitmap' = e.bits,
         inodes' = [inodes EXCEPT ![Root] = e.ino, ![id] = new_inode]
  PROVE  Added(A, name, id)
<1>1. Types /\ Unused /\ ZeroTail(A) /\ Listed(A) /\ Root \in Inode
  BY EasyAssumption DEF Layout, Root, Inode
<1>2. PICK A2 : A2 = [g \in Inode |-> IF g = Root THEN B ELSE A[g]]
  OBVIOUS
<1>3. PICK z \in Nat : z = inodes[Root].size
  BY <1>1 DEF Types, DiskInode
<1>4. PICK en : en = entry(name, id)
  OBVIOUS
<1>5. en \in Entry /\ en \in Value /\ en.name = name /\ en.inode_number = id
  BY <1>4 DEF entry, Entry, Value
<1>6. PICK buf : buf = <<en>>
  OBVIOUS
<1>7. buf \in Seq(Value) /\ Len(buf) = 1 /\ buf[1] = en
  BY <1>5, <1>6
<1>8. Wrote(e, inodes[Root], A[Root], B, z, buf)
  BY <1>3, <1>4, <1>6
<1>9. id \in Inode /\ id # Root /\ new_inode \in DiskInode /\ new_inode.size = 0
  <2>1. [k \in 0 .. DirectCount - 1 |-> 0] \in [0 .. DirectCount - 1 -> Int]
    OBVIOUS
  <2>2. new_inode \in DiskInode /\ new_inode.size = 0
    BY <2>1 DEF new_inode, DiskInode
  <2>3. QED
    BY <1>1, <2>2 DEF Types
<1>10. e.ino \in DiskInode
  BY DEF Wrote, Outcome
<1>11. /\ inodes' \in [Inode -> DiskInode] /\ inodes'[Root] = e.ino
      /\ \A g \in Inode : g # Root =>
            inodes'[g] = inodes[g] \/ (inodes'[g].size = 0 /\ inodes[g].size = 0)
  <2>1. inodes \in [Inode -> DiskInode]
    BY <1>1 DEF Types
  <2>2. inodes[id].size = 0
    BY <1>1 DEF Unused
  <2>3. /\ inodes' \in [Inode -> DiskInode] /\ inodes'[Root] = e.ino /\ inodes'[id] = new_inode
        /\ \A g \in Inode : g # Root /\ g # id => inodes'[g] = inodes[g]
    BY <1>1, <1>9, <1>10, <2>1
  <2>4. QED
    BY <1>9, <2>2, <2>3
<1>12. Rewritten(Root, e, A, B, A2)
  BY <1>2, <1>11 DEF Rewritten
<1>13. /\ OthersKept(Root, A) /\ OwnBlocks(A2)' /\ Disjoint(A2)' /\ AllOwned(A2)' /\ FreeZero'
      /\ store' \in Blocks /\ data_bitmap' \in SUBSET (0 .. BitmapBits - 1)
  BY <1>1, <1>3, <1>8, <1>12, <1>7, RewriteBlocks
<1>14. A2[Root] = B /\ \A g \in Inode : g # Root => A2[g] = A[g]
  BY <1>1, <1>2
<1>15. Types'
  BY <1>1, <1>9, <1>11, <1>13 DEF Types
<1>16. Unused'
  <2>1. SUFFICES ASSUME NEW g \in Inode, g \notin inode_bitmap' PROVE inodes'[g].size = 0
    BY DEF Unused
  <2>2. g \notin inode_bitmap /\ g # Root
    BY <1>1, <2>1 DEF Types
  <2>3. QED
    BY <1>1, <1>11, <2>2 DEF Unused
<1>17. ZeroTail(A2)'
  <2>1. ASSUME NEW g \in Inode \ {Root} PROVE TailOf(g, A2[g])'
    BY <1>1, <1>13, <1>14, OthersTail
  <2>2. QED
    BY <2>1 DEF ZeroTail
<1>18. PICK m \in Nat : m = larger(z, z + Len(buf))
  BY <1>7 DEF larger
<1>19. PICK c \in Nat, t \in Nat : c = data_blocks(z) /\ t = data_blocks(m)
  BY DataBlocksOf
<1>20. m = z + 1
  BY <1>18, <1>7 DEF larger
<1>21. /\ e.ino.size = m
       /\ \A x \in Nodes(c) : B[x] = A[Root][x]
       /\ \A y \in Nodes(t), j \in Cell : y >= 0 /\ B[y] \in Device =>
             IF PerBlock * y + j >= z /\ PerBlock * y + j < z + Len(buf)
             THEN e.store[B[y]][j] = buf[(PerBlock * y + j) - z + 1]
             ELSE e.store[B[y]][j] = store[B[y]][j]
       /\ \A i \in 1 .. Len(buf) : B[block_at(z, i)] \in Device
  BY <1>3, <1>8, <1>18, <1>19, Zenon DEF Wrote
<1>22. ASSUME NEW i \in Nat, i <= z
       PROVE  \E l \in Nat : /\ l = i \div PerBlock /\ l \in Nodes(t) /\ (i < z => l \in Nodes(c))
                             /\ i % PerBlock \in Cell /\ PerBlock * l + (i % PerBlock) = i
  <2>1. PICK l \in Nat : /\ l = i \div PerBlock /\ i % PerBlock \in Cell
                         /\ i = PerBlock * l + (i % PerBlock)
                         /\ (i < z => l < c) /\ l < t
    <3>1. i < z + 1 /\ z + 1 \in Nat
      BY <1>22
    <3>2. /\ i \div PerBlock \in Nat /\ i % PerBlock \in Cell
          /\ i = PerBlock * (i \div PerBlock) + (i % PerBlock)
          /\ (i < z => i \div PerBlock < data_blocks(z))
      BY CellOf
    <3>3. i \div PerBlock < data_blocks(z + 1)
      BY <3>1, CellOf
    <3>4. PICK l \in Nat : l = i \div PerBlock
      BY <3>2
    <3>5. QED
      BY <1>19, <1>20, <3>2, <3>3, <3>4
  <2>2. QED
    BY <1>19, <1>20, <2>1, NodesOf
<1>23. Item = 0 .. z - 1 /\ Item' = 0 .. z
  BY <1>3, <1>11, <1>21, <1>20 DEF Item
<1>24. ASSUME NEW i \in Item
       PROVE  A2[Root][i \div PerBlock] = A[Root][i \div PerBlock] /\ item(A2, i)' = item(A, i)
  <2>1. i \in Nat /\ i < z
    BY <1>23
  <2>2. PICK l \in Nat, k \in Cell : /\ l = i \div PerBlock /\ l \in Nodes(t) /\ l \in Nodes(c)
                                     /\ k = i % PerBlock /\ PerBlock * l + k = i
    BY <1>22, <2>1
  <2>3. B[l] = A[Root][l] /\ A[Root][l] \in Device
    BY <1>1, <1>21, <2>2 DEF Listed
  <2>4. e.store[B[l]][k] = store[B[l]][k]
    BY <1>21, <2>1, <2>2, <2>3
  <2>5. QED
    BY <1>14, <2>2, <2>3, <2>4 DEF item
<1>25. z \in Item' /\ A2[Root][z \div PerBlock] \in Device /\ item(A2, z)' = en
  <2>1. PICK l \in Nat, k \in Cell : /\ l = z \div PerBlock /\ l \in Nodes(t)
                                     /\ k = z % PerBlock /\ PerBlock * l + k = z
    BY <1>22
  <2>2. block_at(z, 1) = l
    <3>1. z + 1 - 1 = z
      OBVIOUS
    <3>2. QED
      BY <2>1, <3>1 DEF block_at
  <2>3. B[l] \in Device
    BY <1>21, <1>7, <2>2
  <2>4. e.store[B[l]][k] = buf[1]
    <3>1. (PerBlock * l + k) - z + 1 = 1 /\ PerBlock * l + k >= z /\ PerBlock * l + k < z + Len(buf)
      BY <1>7, <2>1
    <3>2. QED
      BY <1>21, <2>1, <2>3, <3>1
  <2>5. QED
    BY <1>14, <1>23, <1>7, <2>1, <2>3, <2>4 DEF item
<1>26. \A i \in Item' : i \in Item \/ i = z
  BY <1>23
<1>27. Listed(A2)'
  <2>1. ASSUME NEW i \in Item'
        PROVE  /\ A2[Root][i \div PerBlock] \in Device /\ item(A2, i)' \in Entry
               /\ item(A2, i)'.inode_number \in inode_bitmap' \ {Root}
    <3>1. CASE i = z
      BY <1>9, <1>25, <1>5, <3>1
    <3>2. CASE i \in Item
      BY <1>1, <1>24, <3>2 DEF Listed
    <3>3. QED
      BY <1>26, <3>1, <3>2
  <2>2. ASSUME NEW i \in Item
        PROVE  item(A2, i)'.name # name /\ item(A2, i)'.inode_number # id
    BY <1>1, <1>24 DEF Listed
  <2>3. ASSUME NEW i \in Item', NEW j \in Item',
               \/ item(A2, i)'.name = item(A2, j)'.name
               \/ item(A2, i)'.inode_number = item(A2, j)'.inode_number
        PROVE  i = j
    <3>1. CASE i \in Item /\ j \in Item
      BY <1>1, <1>24, <2>3, <3>1 DEF Listed
    <3>2. CASE i = z /\ j \in Item
      BY <1>25, <1>5, <2>2, <2>3, <3>2
    <3>3. CASE i \in Item /\ j = z
      BY <1>25, <1>5, <2>2, <2>3, <3>3
    <3>4. QED
      BY <1>26, <3>1, <3>2, <3>3
  <2>4. ASSUME NEW g \in inode_bitmap' \ {Root}
        PROVE  \E i \in Item' : item(A2, i)'.inode_number = g
    <3>1. CASE g = id
      BY <1>25, <1>5, <3>1
    <3>2. CASE g # id
      <4>1. PICK i \in Item : item(A, i).inode_number = g
        BY <1>1, <3>2 DEF Listed
      <4>2. i \in Item'
        BY <1>23
      <4>3. QED
        BY <1>24, <4>1, <4>2
    <3>3. QED
      BY <3>1, <3>2
  <2>5. QED
    BY <2>1, <2>3, <2>4 DEF Listed
<1>28. Layout(A2)'
  BY <1>13, <1>15, <1>16, <1>17, <1>27 DEF Layout
<1>29. QED
  <2>1. inodes'[id].size = 0
    <3>1. inodes \in [Inode -> DiskInode]
      BY <1>1 DEF Types
    <3>2. QED
      BY <1>9, <3>1
  <2>2. Item' = Item \cup {z} /\ item(A2, z)' = entry(name, id)
    BY <1>23, <1>25, <1>4
  <2>3. QED
    BY <1>9, <1>13, <1>14, <1>24, <1>28, <2>1, <2>2, Zenon DEF Added

\* The inode that clear_size leaves.
LEMMA ClearedInode ==
  ASSUME NEW ino \in DiskInode
  PROVE  cleared(ino) \in DiskInode /\ cleared(ino).size = 0
<1>1. ino.direct \in [0 .. DirectCount - 1 -> Int] /\ ino.indirect1 \in Int /\ ino.indirect2 \in Int
  BY DEF DiskInode
<1>2. PICK n : n = data_blocks(ino.size)
  OBVIOUS
<1>3. PICK d : d = [k \in DOMAIN ino.direct |-> IF k < n THEN 0 ELSE ino.direct[k]]
  OBVIOUS
<1>4. d \in [0 .. DirectCount - 1 -> Int]
  <2>1. PICK r : r = ino.direct
    OBVIOUS
  <2>2. r \in [0 .. DirectCount - 1 -> Int] /\ DOMAIN r = 0 .. DirectCount - 1
    BY <1>1, <2>1
  <2>3. d = [k \in 0 .. DirectCount - 1 |-> IF k < n THEN 0 ELSE r[k]]
    BY <1>3, <2>1, <2>2, Zenon
  <2>4. \A k \in 0 .. DirectCount - 1 : (IF k < n THEN 0 ELSE r[k]) \in Int
    BY <2>2
  <2>5. QED
    BY <2>3, <2>4
<1>5. PICK i1 \in Int, i2 \in Int : /\ i1 = (IF n > DirectCount THEN 0 ELSE ino.indirect1)
                                    /\ i2 = (IF n > INDIRECT1_BOUND THEN 0 ELSE ino.indirect2)
  BY <1>1
<1>6. cleared(ino) = [size |-> 0, direct |-> d, indirect1 |-> i1, indirect2 |-> i2]
  BY <1>2, <1>3, <1>5 DEF cleared
<1>7. QED
  BY <1>4, <1>6 DEF DiskInode

\* Inode::clear gives back exactly the blocks of the file.
LEMMA ClearBlocks ==
  ASSUME NEW A, Layout(A), NEW f \in Inode
  PROVE  /\ clear_size(inodes[f]) \in Seq(Int)
         /\ Len(clear_size(inodes[f])) = total_blocks(inodes[f].size)
         /\ ToSet(clear_size(inodes[f])) = {A[f][x] : x \in blocks(f)}
         /\ Cardinality(ToSet(clear_size(inodes[f]))) = Len(clear_size(inodes[f]))
<1>1. HasBlocks(inodes[f], A[f])
  BY DEF Layout, OwnBlocks
<1>2. PICK z \in Nat : z = inodes[f].size
  BY <1>1 DEF HasBlocks, DiskInode
<1>3. PICK n \in Nat : n = data_blocks(z)
  BY DataBlocksOf
<1>4. /\ Tree(inodes[f], store, Nodes(n), A[f])
      /\ \A x \in Nodes(n) : A[f][x] \in Int
      /\ \A x, y \in Nodes(n) : A[f][x] = A[f][y] => x = y
  BY <1>1, <1>2, <1>3 DEF HasBlocks
<1>5. PICK v : v = clear_size(inodes[f])
  OBVIOUS
<1>6. Covers(v, A[f], Nodes(n), n + Tables(n))
  BY <1>2, <1>3, <1>4, <1>5, ClearSize
<1>7. /\ v \in Seq(Int) /\ Len(v) = n + Tables(n)
      /\ \A i \in 1 .. n + Tables(n) : \E x \in Nodes(n) : v[i] = A[f][x]
      /\ \A x \in Nodes(n) : \E i \in 1 .. n + Tables(n) : v[i] = A[f][x]
  BY <1>6, Zenon DEF Covers
<1>8. ToSet(v) = {A[f][x] : x \in Nodes(n)}
  <2>1. DOMAIN v = 1 .. n + Tables(n)
    BY <1>7
  <2>2. ToSet(v) = {v[i] : i \in 1 .. n + Tables(n)}
    BY <2>1, Zenon DEF ToSet
  <2>3. ASSUME NEW b \in ToSet(v) PROVE b \in {A[f][x] : x \in Nodes(n)}
    <3>1. PICK i \in 1 .. n + Tables(n) : b = v[i]
      BY <2>2, Zenon
    <3>2. QED
      BY <1>7, <3>1, Zenon
  <2>4. ASSUME NEW x \in Nodes(n) PROVE A[f][x] \in ToSet(v)
    BY <1>7, <2>2, Zenon
  <2>5. QED
    BY <2>3, <2>4
<1>9. Cardinality(ToSet(v)) = n + Tables(n)
  BY <1>4, <1>8, TreeCount DEF image
<1>10. total_blocks(z) = n + Tables(n)
  BY <1>3, TotalBlocks
<1>11. blocks(f) = Nodes(n)
  BY <1>2, <1>3 DEF blocks
<1>12. QED
  BY <1>2, <1>5, <1>7, <1>8, <1>9, <1>10, <1>11

\* Inode::clear that does not panic.
LEMMA ClearLayout ==
  ASSUME NEW A, Layout(A), NEW f \in File, f \in inode_bitmap,
         NEW bs, bs = ToSet(clear_size(inodes[f])),
         inodes' = [inodes EXCEPT ![f] = cleared(inodes[f])], store' = dealloc_data(bs),
         data_bitmap' = data_bitmap \ {b - 1 : b \in bs}, inode_bitmap' = inode_bitmap
  PROVE  Layout(A)' /\ OthersKept(f, A) /\ inodes'[f].size = 0
<1>1. /\ Types /\ OwnBlocks(A) /\ Disjoint(A) /\ AllOwned(A) /\ FreeZero /\ Unused /\ ZeroTail(A)
      /\ f \in Inode /\ f \in Inode \ {Root} /\ Root \in Inode
  BY EasyAssumption DEF Layout, File, Root, Inode
<1>2. bs = {A[f][x] : x \in blocks(f)}
  BY <1>1, ClearBlocks
<1>3. \A x \in blocks(f) : A[f][x] \in Int
  BY <1>1 DEF OwnBlocks, HasBlocks, blocks
<1>4. /\ inodes' \in [Inode -> DiskInode] /\ inodes'[f].size = 0
      /\ \A g \in Inode : g # f => inodes'[g] = inodes[g]
  <2>1. inodes \in [Inode -> DiskInode]
    BY <1>1 DEF Types
  <2>2. cleared(inodes[f]) \in DiskInode /\ cleared(inodes[f]).size = 0
    BY <1>1, <2>1, ClearedInode
  <2>3. QED
    BY <1>1, <2>1, <2>2
<1>5. blocks(f)' = {} /\ \A g \in Inode : g # f => blocks(g)' = blocks(g)
  BY <1>1, <1>4, NoBlocks DEF blocks
<1>6. ASSUME NEW g \in Inode, g # f, NEW x \in blocks(g)
      PROVE  /\ A[g][x] \in Int /\ A[g][x] \notin bs
             /\ A[g][x] \in Device => store'[A[g][x]] = store[A[g][x]]
             /\ A[g][x] - 1 \in data_bitmap'
  <2>1. A[g][x] \in Int /\ A[g][x] - 1 \in data_bitmap
    BY <1>1 DEF OwnBlocks, HasBlocks, blocks
  <2>2. A[g][x] \notin bs
    BY <1>1, <1>2, <1>6 DEF Disjoint
  <2>3. A[g][x] \in Device => store'[A[g][x]] = store[A[g][x]]
    BY <2>2 DEF dealloc_data
  <2>4. A[g][x] - 1 \notin {b - 1 : b \in bs}
    BY <1>2, <1>3, <2>1, <2>2
  <2>5. QED
    BY <2>1, <2>2, <2>3, <2>4
<1>7. OthersKept(f, A)
  BY <1>4, <1>5, <1>6 DEF OthersKept
<1>8. Types'
  <2>1. store' \in Blocks
    <3>1. 0 \in Value /\ store \in Blocks
      BY <1>1 DEF Types, Value
    <3>2. [k \in Cell |-> 0] \in [Cell -> Value]
      BY <3>1
    <3>3. QED
      BY <3>1, <3>2 DEF dealloc_data, Blocks
  <2>2. QED
    BY <1>1, <1>4, <2>1 DEF Types
<1>9. OwnBlocks(A)'
  <2>1. ASSUME NEW g \in Inode PROVE HasBlocks(inodes[g], A[g])'
    <3>1. CASE g = f
      <4>1. inodes'[g] \in DiskInode /\ Nodes(data_blocks(inodes'[g].size)) = {}
        BY <1>4, <1>5, <3>1 DEF blocks
      <4>2. QED
        BY <4>1 DEF HasBlocks, Tree
    <3>2. CASE g # f
      <4>1. PICK n : n = data_blocks(inodes[g].size) /\ Nodes(n) = blocks(g)
        BY DEF blocks
      <4>2. /\ Tree(inodes[g], store, Nodes(n), A[g])
            /\ inodes[g] \in DiskInode
            /\ \A x, y \in Nodes(n) : A[g][x] = A[g][y] => x = y
        BY <1>1, <4>1 DEF OwnBlocks, HasBlocks
      <4>3. inodes'[g] = inodes[g]
        BY <1>4, <3>2
      <4>4. Tree(inodes[g], store', Nodes(n), A[g])
        <5>1. \A x \in Nodes(n) : A[g][x] \in Device => store'[A[g][x]] = store[A[g][x]]
          BY <1>6, <3>2, <4>1
        <5>2. QED
          BY <4>2, <5>1 DEF Tree
      <4>5. \A x \in Nodes(n) : A[g][x] \in Int /\ A[g][x] - 1 \in data_bitmap'
        BY <1>6, <3>2, <4>1
      <4>6. QED
        BY <4>1, <4>2, <4>3, <4>4, <4>5 DEF HasBlocks
    <3>3. QED
      BY <3>1, <3>2
  <2>2. QED
    BY <2>1 DEF OwnBlocks
<1>10. Disjoint(A)'
  <2>1. SUFFICES ASSUME NEW g \in Inode, NEW h \in Inode, g # h, NEW x \in blocks(g)', NEW y \in blocks(h)'
                 PROVE  A[g][x] # A[h][y]
    BY DEF Disjoint
  <2>2. g # f /\ h # f /\ x \in blocks(g) /\ y \in blocks(h)
    BY <1>5, <2>1
  <2>3. QED
    BY <1>1, <2>1, <2>2 DEF Disjoint
<1>11. AllOwned(A)'
  <2>1. SUFFICES ASSUME NEW b \in data_bitmap' PROVE \E g \in Inode : \E x \in blocks(g)' : A[g][x] = b + 1
    BY DEF AllOwned
  <2>2. PICK g \in Inode : \E x \in blocks(g) : A[g][x] = b + 1
    BY <1>1 DEF AllOwned
  <2>3. PICK x \in blocks(g) : A[g][x] = b + 1
    BY <2>2
  <2>4. g # f
    <3>1. SUFFICES ASSUME g = f PROVE FALSE
      OBVIOUS
    <3>2. b + 1 \in bs /\ b \in Int
      BY <1>1, <1>2, <2>3, <3>1 DEF Types
    <3>3. b = (b + 1) - 1
      BY <3>2
    <3>4. QED
      BY <3>2, <3>3
  <2>5. QED
    BY <1>5, <2>3, <2>4
<1>12. FreeZero'
  <2>1. SUFFICES ASSUME NEW b \in Device \ {0}, b - 1 \notin data_bitmap', NEW k \in Cell
                 PROVE  store'[b][k] = 0
    BY DEF FreeZero
  <2>2. CASE b \in bs
    BY <2>2 DEF dealloc_data
  <2>3. CASE b \notin bs
    <3>1. b - 1 \notin {a - 1 : a \in bs}
      BY <1>2, <1>3, <2>3 DEF Device
    <3>2. b - 1 \notin data_bitmap
      BY <2>1, <3>1
    <3>3. store'[b] = store[b]
      BY <2>3 DEF dealloc_data
    <3>4. QED
      BY <1>1, <3>2, <3>3 DEF FreeZero
  <2>4. QED
    BY <2>2, <2>3
<1>13. Listed(A)'
  BY <1>1, <1>7, ListedKept
<1>14. Unused'
  BY <1>1, <1>4 DEF Unused
<1>15. ZeroTail(A)'
  <2>1. TailOf(f, A[f])'
    BY <1>5 DEF TailOf
  <2>2. ASSUME NEW g \in Inode \ {Root}, g # f PROVE TailOf(g, A[g])'
    BY <1>1, <1>7, <2>2, OthersTail
  <2>3. QED
    BY <2>1, <2>2 DEF ZeroTail
<1>16. Layout(A)'
  BY <1>8, <1>9, <1>10, <1>11, <1>12, <1>13, <1>14, <1>15 DEF Layout
<1>17. QED
  BY <1>4, <1>7, <1>16

-------------------------------------------------------------------------------
\* The entries of the directory, as find_inode_id and ls read them.
LEMMA DirentsAre ==
  ASSUME NEW A, Layout(A)
  PROVE  /\ DOMAIN dirents = {i + 1 : i \in Item}
         /\ \A i \in Item : dirents[i + 1] = item(A, i) /\ item(A, i) \in Entry
<1>1. PICK z \in Nat : z = inodes[Root].size
  <2>1. Root \in Inode
    BY EasyAssumption DEF Root, Inode
  <2>2. QED
    BY <2>1 DEF Layout, Types, DiskInode
<1>2. DOMAIN dirents = 1 .. z /\ \A i \in 1 .. z : dirents[i] = dirent(i - 1)
  BY <1>1 DEF dirents
<1>3. Item = 0 .. z - 1
  BY <1>1 DEF Item
<1>4. 1 .. z = {i + 1 : i \in Item}
  <2>1. ASSUME NEW j \in 1 .. z PROVE j \in {i + 1 : i \in Item}
    <3>1. j - 1 \in Item /\ j = (j - 1) + 1
      BY <1>3
    <3>2. QED
      BY <3>1
  <2>2. QED
    BY <1>3, <2>1, SMTT(30)
<1>5. ASSUME NEW i \in Item PROVE dirents[i + 1] = item(A, i) /\ item(A, i) \in Entry
  <2>1. i + 1 \in 1 .. z /\ (i + 1) - 1 = i
    BY <1>3
  <2>2. dirent(i) = item(A, i)
    BY DirentIs
  <2>3. item(A, i) \in Entry
    BY DEF Layout, Listed
  <2>4. QED
    BY <1>2, <2>1, <2>2, <2>3
<1>6. QED
  BY <1>2, <1>4, <1>5

\* What is written is what a cell can hold.
LEMMA Buffers ==
  ASSUME NEW buf \in Buffer
  PROVE  buf \in Seq(Value)
<1>1. buf \in Seq(Nat)
  BY EasyAssumption
<1>2. PICK n \in Nat : buf \in [1 .. n -> Nat]
  BY <1>1
<1>3. buf \in [1 .. n -> Value]
  BY <1>2 DEF Value
<1>4. QED
  BY <1>3, IsASeq

\* What a write does.
WriteEffect(A, f, offset, buf) ==
    \/ UNCHANGED disk
    \/ /\ f \in inode_bitmap /\ inode_bitmap' = inode_bitmap
       /\ \E e, B : Wrote(e, inodes[f], A[f], B, offset, buf) /\ Leaves(f, e, A, B)

\* Inode::write_at, whether it panics or not.
LEMMA WriteCall ==
  ASSUME NEW A, Layout(A), NEW f \in File, NEW offset \in Offset, NEW buf \in Buffer,
         write_at(f, offset, buf)
  PROVE  WriteEffect(A, f, offset, buf)
<1>1. offset \in Nat /\ buf \in Seq(Value)
  BY EasyAssumption, Buffers
<1>2. PICK e : e = write_cells(increase_size(inodes[f], offset + Len(buf)), offset, buf)
  OBVIOUS
<1>3. HasBlocks(inodes[f], A[f]) /\ store \in Blocks /\ data_bitmap \in SUBSET Int /\ f \in Inode
  BY DEF Layout, OwnBlocks, Types, File
<1>4. f \in inode_bitmap /\ ((Keep(f, e) /\ e.ok) \/ UNCHANGED disk)
  BY <1>2, Zenon DEF write_at, is_open, Panic
<1>5. CASE UNCHANGED disk
  BY <1>5 DEF WriteEffect
<1>6. CASE Keep(f, e) /\ e.ok
  <2>1. WroteResult(e, inodes[f], A[f], offset, buf)
    BY <1>1, <1>2, <1>3, Writes, Zenon
  <2>2. Fails(e) \/ \E B : Wrote(e, inodes[f], A[f], B, offset, buf)
    BY <2>1, Zenon DEF WroteResult
  <2>3. ~Fails(e)
    BY <1>6 DEF Fails
  <2>4. PICK B : Wrote(e, inodes[f], A[f], B, offset, buf)
    BY <2>2, <2>3
  <2>5. QED
    <3>1. Leaves(f, e, A, B)
      BY <1>1, <1>4, <1>6, <2>4, WriteLayout, Zenon
    <3>2. inode_bitmap' = inode_bitmap
      BY <1>6 DEF Keep
    <3>3. QED
      BY <1>4, <2>4, <3>1, <3>2, Zenon DEF WriteEffect
<1>7. QED
  BY <1>4, <1>5, <1>6

\* What a create does.
CreateEffect(A, name) == UNCHANGED disk \/ \E id : Added(A, name, id)

\* Inode::create, whether it panics or not.
LEMMA CreateCall ==
  ASSUME NEW A, Layout(A), NEW name \in Name \cup FullName \cup LongName, create(name)
  PROVE  CreateEffect(A, name)
<1>1. Types /\ Root \in Inode /\ HasBlocks(inodes[Root], A[Root])
  BY EasyAssumption DEF Layout, OwnBlocks, Root, Inode
<1>2. PICK free : free = Inode \ inode_bitmap
  OBVIOUS
<1>3. PICK id : id = CHOOSE f \in free : \A g \in free : f <= g
  OBVIOUS
<1>4. PICK e : e = write_cells(increase_size(inodes[Root], inodes[Root].size + 1), inodes[Root].size,
                               <<entry(name, id)>>)
  OBVIOUS
<1>5. \/ UNCHANGED disk
      \/ /\ found(name) = {} /\ free # {} /\ name \notin LongName /\ e.ok
         /\ inode_bitmap' = inode_bitmap \cup {id}
         /\ inodes' = [inodes EXCEPT ![Root] = e.ino, ![id] = new_inode]
         /\ store' = e.store /\ data_bitmap' = e.bits
  <2>1. \/ UNCHANGED disk
        \/ \E c : found(name) = {} /\ create_new(c, name)
    BY Zenon DEF create, Look
  <2>2. ASSUME NEW c, create_new(c, name)
        PROVE  \/ UNCHANGED disk
               \/ /\ free # {} /\ name \notin LongName /\ e.ok
                  /\ inode_bitmap' = inode_bitmap \cup {id}
                  /\ inodes' = [inodes EXCEPT ![Root] = e.ino, ![id] = new_inode]
                  /\ store' = e.store /\ data_bitmap' = e.bits
    BY <1>2, <1>3, <1>4, <2>2, Zenon DEF create_new, Panic
  <2>3. QED
    BY <2>1, <2>2, Zenon
<1>6. CASE UNCHANGED disk
  BY <1>6 DEF CreateEffect
<1>7. CASE /\ found(name) = {} /\ free # {} /\ name \notin LongName /\ e.ok
           /\ inode_bitmap' = inode_bitmap \cup {id}
           /\ inodes' = [inodes EXCEPT ![Root] = e.ino, ![id] = new_inode]
           /\ store' = e.store /\ data_bitmap' = e.bits
  <2>1. id \in Inode \ inode_bitmap
    <3>1. free \in SUBSET Nat
      BY <1>2 DEF Inode
    <3>2. \E f \in free : \A g \in free : f <= g
      BY <1>7, <3>1, LeastOf
    <3>3. id \in free
      BY <1>3, <3>2
    <3>4. QED
      BY <1>2, <3>3
  <2>2. PICK z \in Nat : z = inodes[Root].size
    BY <1>1 DEF Types, DiskInode
  <2>3. PICK en : en = entry(name, id)
    OBVIOUS
  <2>4. name \in Name \cup FullName
    BY <1>7
  <2>5. en \in Value
    BY <2>1, <2>3, <2>4 DEF entry, Entry, Value
  <2>6. PICK buf : buf = <<en>>
    OBVIOUS
  <2>7. buf \in Seq(Value) /\ Len(buf) = 1
    BY <2>5, <2>6
  <2>8. e = write_cells(increase_size(inodes[Root], z + Len(buf)), z, buf)
    BY <1>4, <2>2, <2>3, <2>6, <2>7
  <2>9. store \in Blocks /\ data_bitmap \in SUBSET Int
    BY <1>1 DEF Types
  <2>10. WroteResult(e, inodes[Root], A[Root], z, buf)
    BY <1>1, <2>2, <2>7, <2>8, <2>9, Writes, Zenon
  <2>11. Fails(e) \/ \E B : Wrote(e, inodes[Root], A[Root], B, z, buf)
    BY <2>10, Zenon DEF WroteResult
  <2>12. ~Fails(e)
    BY <1>7 DEF Fails
  <2>13. PICK B : Wrote(e, inodes[Root], A[Root], B, z, buf)
    BY <2>11, <2>12
  <2>14. Wrote(e, inodes[Root], A[Root], B, inodes[Root].size, <<entry(name, id)>>)
    BY <2>2, <2>3, <2>6, <2>13
  <2>15. ASSUME NEW i \in Item PROVE item(A, i).name # name
    <3>1. i + 1 \in DOMAIN dirents /\ dirents[i + 1] = item(A, i)
      BY DirentsAre
    <3>2. QED
      BY <1>7, <3>1 DEF found
  <2>16. QED
    <3>1. Added(A, name, id)
      BY <1>7, <2>1, <2>4, <2>14, <2>15, CreateLayout, Zenon
    <3>2. QED
      BY <3>1, Zenon DEF CreateEffect
<1>8. QED
  BY <1>5, <1>6, <1>7

\* What a clear does.
ClearEffect(A, f) ==
    \/ UNCHANGED disk
    \/ /\ f \in inode_bitmap /\ inode_bitmap' = inode_bitmap
       /\ Layout(A)' /\ OthersKept(f, A) /\ inodes'[f].size = 0

\* Inode::clear, whether it panics or not.
LEMMA ClearCall ==
  ASSUME NEW A, Layout(A), NEW f \in File, clear(f)
  PROVE  ClearEffect(A, f)
<1>1. PICK bs : bs = ToSet(clear_size(inodes[f]))
  OBVIOUS
<1>2. PICK d : d = [ino |-> cleared(inodes[f]), store |-> dealloc_data(bs),
                    bits |-> data_bitmap \ {b - 1 : b \in bs}]
  OBVIOUS
<1>3. f \in inode_bitmap /\ (UNCHANGED disk \/ Keep(f, d))
  BY <1>1, <1>2, Zenon DEF clear, is_open, Panic
<1>4. CASE UNCHANGED disk
  BY <1>4 DEF ClearEffect
<1>5. CASE Keep(f, d)
  <2>1. /\ inodes' = [inodes EXCEPT ![f] = cleared(inodes[f])] /\ store' = dealloc_data(bs)
        /\ data_bitmap' = data_bitmap \ {b - 1 : b \in bs} /\ inode_bitmap' = inode_bitmap
    BY <1>2, <1>5 DEF Keep
  <2>2. QED
    <3>1. Layout(A)' /\ OthersKept(f, A) /\ inodes'[f].size = 0
      BY <1>1, <1>3, <2>1, ClearLayout, Zenon
    <3>2. QED
      BY <1>3, <2>1, <3>1, Zenon DEF ClearEffect
<1>6. QED
  BY <1>3, <1>4, <1>5

\* No call leaves the disk with a block in two places, or with one that
\* nobody has.
LEMMA NextConsistent ==
  ASSUME Consistent, [Next]_vars
  PROVE  Consistent'
<1>1. PICK A : Layout(A)
  BY DEF Consistent
<1>2. CASE UNCHANGED disk
  BY <1>1, <1>2, SameLayout DEF Consistent
<1>3. ASSUME NEW name \in Name \cup FullName \cup LongName, create(name) PROVE Consistent'
  <2>1. CreateEffect(A, name)
    BY <1>1, <1>3, CreateCall
  <2>2. QED
    BY <1>2, <2>1 DEF CreateEffect, Added, Consistent
<1>4. ASSUME NEW f \in File, NEW offset \in Offset, NEW buf \in Buffer, write_at(f, offset, buf)
      PROVE  Consistent'
  <2>1. WriteEffect(A, f, offset, buf)
    BY <1>1, <1>4, WriteCall
  <2>2. QED
    BY <1>2, <2>1 DEF WriteEffect, Leaves, Consistent
<1>5. ASSUME NEW f \in File, clear(f) PROVE Consistent'
  <2>1. ClearEffect(A, f)
    BY <1>1, <1>5, ClearCall
  <2>2. QED
    BY <1>2, <2>1 DEF ClearEffect, Consistent
<1>6. ASSUME NEW name \in Name, find(name) PROVE UNCHANGED disk
  BY <1>6 DEF find, Look
<1>7. ASSUME ls PROVE UNCHANGED disk
  BY <1>7 DEF ls, Look
<1>8. ASSUME NEW f \in File, NEW offset \in Offset, NEW n \in Length, read_at(f, offset, n)
      PROVE  UNCHANGED disk
  BY <1>8, Zenon DEF read_at, Look
<1>9. ASSUME UNCHANGED vars PROVE UNCHANGED disk
  BY <1>9 DEF vars, disk
<1>10. QED
  BY <1>2, <1>3, <1>4, <1>5, <1>6, <1>7, <1>8, <1>9, Zenon DEF Next

\* After any number of calls of easy-fs, whatever they are and however they
\* end, every file has the blocks its pointers lead to, and there is no block
\* that two of them share.
THEOREM EasyFsConsistent == Spec => []Consistent
<1>1. Init => Consistent
  BY InitLayout
<1>2. Consistent /\ [Next]_vars => Consistent'
  BY NextConsistent
<1>3. QED
  BY <1>1, <1>2, PTL DEF Spec

\* The two bitmaps of easy-fs (bitmap.rs) say at every time which blocks the
\* inodes (layout.rs) point to and which inodes the directory (vfs.rs) lists:
\* no call loses a block or gives one out twice, and what is free is zeroed.
THEOREM EasyFsBlocksAccounted == Spec => []BlocksAccounted
<1>1. Consistent => BlocksAccounted
  BY LayoutAccounts DEF Consistent
<1>2. QED
  BY <1>1, EasyFsConsistent, PTL

-------------------------------------------------------------------------------
\* No file has more blocks than its pointers reach.
LEMMA TreeBound ==
  ASSUME NEW n \in Nat, NEW ino, NEW st, NEW C, Tree(ino, st, Nodes(n), C)
  PROVE  n <= INDIRECT2_BOUND
<1>1. PICK D \in Nat \ {0}, P \in Nat \ {0}, B \in Nat :
        D = DirectCount /\ P = PerBlock /\ B = INDIRECT1_BOUND /\ B = D + P /\ Cell = 0 .. P - 1
  BY Sizes
<1>2. PICK q \in Nat : q = P * P /\ q \div P = P
  <2>1. P * P \in Nat /\ P * P + 0 = P * P
    BY Times
  <2>2. (P * P + 0) \div P = P
    BY DivModOf
  <2>3. QED
    BY <2>1, <2>2
<1>3. INDIRECT2_BOUND = B + q
  BY <1>1, <1>2 DEF INDIRECT2_BOUND
<1>4. SUFFICES ASSUME n > B + q PROVE FALSE
  BY <1>2, <1>3
<1>5. PICK l \in Nat : l = B + q
  BY <1>2
<1>6. row(l) = P
  <2>1. l - B = q
    BY <1>2, <1>5
  <2>2. QED
    BY <1>1, <1>2, <2>1 DEF row
<1>7. l \in Nodes(n) /\ inner(l) /\ above(l) = -3 - P
  <2>1. l \in Nodes(n)
    BY <1>4, <1>5, NodesOf
  <2>2. l >= D /\ ~(l <= -3) /\ ~(l < B)
    BY <1>1, <1>2, <1>5
  <2>3. QED
    BY <1>1, <1>6, <2>1, <2>2 DEF inner, above
<1>8. PICK x \in Int : x = -3 - P /\ x <= -3 /\ -3 - x = P
  BY <1>1
<1>9. x \in Nodes(n) /\ inner(x) /\ slot(x) = P
  BY <1>7, <1>8 DEF Tree, inner, slot
<1>10. slot(x) \in Cell
  BY <1>9 DEF Tree
<1>11. QED
  BY <1>1, <1>9, <1>10

\* A size up to the largest one needs no more blocks than that.
LEMMA SizeBound ==
  ASSUME NEW s \in Nat, s <= INDIRECT2_BOUND * PerBlock
  PROVE  data_blocks(s) <= INDIRECT2_BOUND
<1>1. PICK P \in Nat \ {0}, E \in Nat, n \in Nat : P = PerBlock /\ E = INDIRECT2_BOUND /\ n = data_blocks(s)
  BY Sizes, DataBlocksOf
<1>2. PICK q \in Nat : q = P * E /\ q = E * P
  BY <1>1
<1>3. E < n <=> P * E < s
  BY <1>1, DataBlocksOf
<1>4. s <= q
  BY <1>1, <1>2
<1>5. QED
  BY <1>1, <1>2, <1>3, <1>4

\* The lowest free bits stand for blocks of the device as long as there are
\* enough of those.
LEMMA RoomyIs ==
  ASSUME data_bitmap \in SUBSET (0 .. DataBlocks - 1), NEW c, NEW t, t <= INDIRECT2_BOUND,
         NEW k \in Int, k = needed(c, t), Cardinality(data_bitmap) + k <= DataBlocks
  PROVE  Roomy(c, t)
<1>1. PICK low : low = (0 .. DataBlocks - 1) \ data_bitmap
  OBVIOUS
<1>2. PICK N \in Nat \ {0}, M \in Nat : N = DataBlocks /\ M = BitmapBits /\ M >= N
  BY EasyAssumption
<1>3. IsFiniteSet(0 .. N - 1) /\ Cardinality(0 .. N - 1) = N
  <2>1. 0 \in Int /\ N - 1 \in Int /\ ~(0 > N - 1) /\ N - 1 - 0 + 1 = N
    BY <1>2
  <2>2. QED
    BY <2>1, FS_Interval
<1>4. IsFiniteSet(low) /\ Cardinality(low) = N - Cardinality(data_bitmap)
  <2>1. PICK S : S = 0 .. N - 1
    OBVIOUS
  <2>2. S \cap data_bitmap = data_bitmap /\ low = S \ data_bitmap
    BY <1>1, <1>2, <2>1
  <2>3. IsFiniteSet(S) /\ Cardinality(S) = N
    BY <1>3, <2>1
  <2>4. IsFiniteSet(S \ data_bitmap) /\ Cardinality(S \ data_bitmap) = Cardinality(S) - Cardinality(S \cap data_bitmap)
    BY <2>3, FS_Difference, Zenon
  <2>5. QED
    BY <2>2, <2>3, <2>4
<1>5. Cardinality(data_bitmap) \in Nat /\ Cardinality(low) \in Nat
  <2>1. IsFiniteSet(data_bitmap)
    BY <1>2, <1>3, FS_Subset
  <2>2. QED
    BY <1>4, <2>1, FS_CardinalityType
<1>6. k <= Cardinality(low)
  BY <1>2, <1>4, <1>5
<1>7. low \subseteq free_bits
  BY <1>1, <1>2 DEF free_bits
<1>8. free_bits \in SUBSET Nat /\ IsFiniteSet(free_bits) /\ Cardinality(free_bits) \in Nat
  BY FreeBits
<1>9. k <= Cardinality(free_bits)
  <2>1. Cardinality(low) <= Cardinality(free_bits)
    BY <1>7, <1>8, FS_Subset
  <2>2. QED
    BY <1>5, <1>6, <1>8, <2>1
<1>10. ASSUME NEW b \in free_bits, Cardinality(under(free_bits, b)) < k
       PROVE  b + 1 \in Device
  <2>1. b \in Nat
    BY <1>8
  <2>2. SUFFICES ASSUME b >= N PROVE FALSE
    BY <1>2, <2>1 DEF Device
  <2>3. low \subseteq under(free_bits, b)
    BY <1>1, <1>2, <1>7, <2>1, <2>2 DEF under
  <2>4. IsFiniteSet(under(free_bits, b))
    <3>1. under(free_bits, b) \in SUBSET free_bits
      BY DEF under
    <3>2. QED
      BY <1>8, <3>1, FS_Subset
  <2>5. Cardinality(low) <= Cardinality(under(free_bits, b)) /\ Cardinality(under(free_bits, b)) \in Nat
    BY <2>3, <2>4, FS_Subset, FS_CardinalityType
  <2>6. QED
    BY <1>5, <1>6, <1>10, <2>5
<1>11. QED
  BY <1>9, <1>10 DEF Roomy

\* A file that is given the room it asks for.
LEMMA RoomFor ==
  ASSUME NEW A, Layout(A), healthy, NEW f \in Inode, NEW s \in Nat,
         s <= INDIRECT2_BOUND * PerBlock, s <= inodes[f].size \/ room(f, s)
  PROVE  Roomy(data_blocks(inodes[f].size), data_blocks(larger(inodes[f].size, s)))
<1>1. Types /\ HasBlocks(inodes[f], A[f]) /\ data_bitmap \in SUBSET (0 .. DataBlocks - 1)
  BY DEF Layout, OwnBlocks, healthy
<1>2. PICK z \in Nat : z = inodes[f].size
  BY <1>1 DEF HasBlocks, DiskInode
<1>3. PICK c \in Nat, T \in Nat : c = data_blocks(z) /\ T = Tables(c)
  BY DataBlocksOf, TablesOf
<1>4. Cardinality(data_bitmap) \in Nat /\ Cardinality(data_bitmap) <= DataBlocks
  <2>1. DataBlocks \in Nat \ {0} /\ 0 \in Int /\ DataBlocks - 1 \in Int /\ ~(0 > DataBlocks - 1)
        /\ DataBlocks - 1 - 0 + 1 = DataBlocks
    BY Sizes
  <2>2. IsFiniteSet(0 .. DataBlocks - 1) /\ Cardinality(0 .. DataBlocks - 1) = DataBlocks
    BY <2>1, FS_Interval
  <2>3. QED
    BY <1>1, <2>2, FS_Subset, FS_CardinalityType
<1>5. CASE s <= z
  <2>1. larger(z, s) = z
    BY <1>5 DEF larger
  <2>2. needed(c, c) = 0
    BY <1>3 DEF needed
  <2>3. c <= INDIRECT2_BOUND
    BY <1>1, <1>2, <1>3, TreeBound DEF HasBlocks
  <2>4. Cardinality(data_bitmap) + 0 <= DataBlocks
    BY <1>4
  <2>5. Roomy(c, c)
    BY <1>1, <2>2, <2>3, <2>4, RoomyIs
  <2>6. QED
    BY <1>2, <1>3, <2>1, <2>5
<1>6. CASE ~(s <= z)
  <2>1. larger(z, s) = s
    BY <1>6 DEF larger
  <2>2. PICK t \in Nat, U \in Nat : t = data_blocks(s) /\ U = Tables(t)
    BY DataBlocksOf, TablesOf
  <2>3. t <= INDIRECT2_BOUND
    BY <2>2, SizeBound
  <2>4. tree(f) = image(A[f], c)
    BY <1>1, <1>2, <1>3, TreeIs
  <2>5. Cardinality(tree(f)) = c + T
    <3>1. \A x, y \in Nodes(c) : A[f][x] = A[f][y] => x = y
      BY <1>1, <1>2, <1>3 DEF HasBlocks
    <3>2. QED
      BY <1>3, <2>4, <3>1, TreeCount
  <2>6. tree_size(t) = t + U
    BY <2>2, TreeSize
  <2>7. Cardinality(data_bitmap) + (t + U) - (c + T) <= DataBlocks
    BY <1>2, <1>6, <2>2, <2>5, <2>6 DEF room
  <2>8. PICK k \in Int : k = needed(c, t) /\ k = (t + U) - (c + T)
    BY <1>3, <2>2 DEF needed
  <2>9. Cardinality(data_bitmap) + k <= DataBlocks
    BY <1>4, <2>7, <2>8
  <2>10. Roomy(c, t)
    BY <1>1, <2>3, <2>8, <2>9, RoomyIs
  <2>11. QED
    BY <1>2, <1>3, <2>1, <2>2, <2>10
<1>7. QED
  BY <1>2, <1>5, <1>6

\* Every block of a file is on the device.
LEMMA OnDevice ==
  ASSUME NEW A, Layout(A), healthy, NEW f \in Inode, NEW x \in blocks(f)
  PROVE  A[f][x] \in Device /\ A[f][x] - 1 \in data_bitmap
<1>1. A[f][x] \in Int /\ A[f][x] - 1 \in data_bitmap
  BY DEF Layout, OwnBlocks, HasBlocks, blocks
<1>2. A[f][x] - 1 \in 0 .. DataBlocks - 1
  BY <1>1 DEF healthy
<1>3. QED
  BY <1>1, <1>2, Sizes

\* A write that has its room is carried out.
LEMMA WriteServed ==
  ASSUME NEW A, Layout(A), healthy, NEW f \in Inode, NEW offset \in Nat, NEW buf \in Seq(Value),
         Len(buf) > 0, offset + Len(buf) <= INDIRECT2_BOUND * PerBlock,
         offset + Len(buf) <= inodes[f].size \/ room(f, offset + Len(buf)),
         NEW e, e = write_cells(increase_size(inodes[f], offset + Len(buf)), offset, buf)
  PROVE  e.ok = TRUE
<1>1. HasBlocks(inodes[f], A[f]) /\ store \in Blocks /\ data_bitmap \in SUBSET Int
  BY DEF Layout, OwnBlocks, Types
<1>2. WroteResult(e, inodes[f], A[f], offset, buf)
  BY <1>1, Writes, Zenon
<1>3. Roomy(data_blocks(inodes[f].size), data_blocks(larger(inodes[f].size, offset + Len(buf))))
  <2>1. offset + Len(buf) \in Nat
    OBVIOUS
  <2>2. QED
    BY <2>1, RoomFor
<1>4. buf # <<>>
  OBVIOUS
<1>5. \A l \in blocks_of(offset, Len(buf)) :
        l \in Nodes(data_blocks(inodes[f].size)) => A[f][l] \in Device
  BY OnDevice DEF blocks
<1>6. /\ Fails(e) \/ \E B : Wrote(e, inodes[f], A[f], B, offset, buf)
      /\ ~Fails(e)
  BY <1>2, <1>3, <1>4, <1>5, Zenon DEF WroteResult
<1>7. PICK B : Wrote(e, inodes[f], A[f], B, offset, buf)
  BY <1>6
<1>8. QED
  BY <1>7, Zenon DEF Wrote

\* A block of the file that a read looks at is on the device.
LEMMA ReadServed ==
  ASSUME NEW A, Layout(A), healthy, NEW f \in Inode, NEW offset \in Nat, NEW end \in Nat,
         offset < end, end <= inodes[f].size, NEW l \in blocks_of(offset, end - offset)
  PROVE  get_block_id(store, inodes[f], l) \in Device
<1>1. HasBlocks(inodes[f], A[f])
  BY DEF Layout, OwnBlocks
<1>2. PICK z \in Nat : z = inodes[f].size
  BY <1>1 DEF HasBlocks, DiskInode
<1>3. PICK n \in Nat : n = data_blocks(z)
  BY DataBlocksOf
<1>4. l \in Nat /\ l < n
  <2>1. PICK d \in Nat \ {0} : d = end - offset /\ offset + d <= z
    BY <1>2
  <2>2. QED
    BY <1>3, <2>1, BlocksWritten
<1>5. l \in Nodes(n) /\ Nodes(n) \in SUBSET Int
  BY <1>4, NodesOf DEF Nodes
<1>6. Tree(inodes[f], store, Nodes(n), A[f])
  BY <1>1, <1>2, <1>3 DEF HasBlocks
<1>7. pointer(store, inodes[f], l) = A[f][l]
  BY <1>5, <1>6, TreePointer
<1>8. get_block_id(store, inodes[f], l) = A[f][l]
  BY <1>4, <1>7 DEF pointer
<1>9. A[f][l] \in Device
  BY <1>2, <1>3, <1>5, OnDevice DEF blocks
<1>10. QED
  BY <1>8, <1>9

\* What makes a write a fair one.
LEMMA FairWrite ==
  ASSUME NEW f, NEW offset, NEW len,
         fair([op |-> "write_at", file |-> f, offset |-> offset, len |-> len])
  PROVE  /\ len > 0 /\ offset + len <= INDIRECT2_BOUND * PerBlock
         /\ offset + len <= inodes[f].size \/ room(f, offset + len)
<1>1. PICK c : c = [op |-> "write_at", file |-> f, offset |-> offset, len |-> len]
  OBVIOUS
<1>2. c.op = "write_at" /\ c.op # "create" /\ c.file = f /\ c.offset = offset /\ c.len = len
  BY <1>1
<1>3. fair(c)
  BY <1>1
<1>4. QED
  BY <1>2, <1>3 DEF fair

\* What makes a create a fair one.
LEMMA FairCreate ==
  ASSUME NEW name, fair([op |-> "create", name |-> name])
  PROVE  /\ name \in Name /\ inode_bitmap # Inode
         /\ inodes[Root].size < INDIRECT2_BOUND * PerBlock
         /\ room(Root, inodes[Root].size + 1)
<1>1. PICK c : c = [op |-> "create", name |-> name]
  OBVIOUS
<1>2. c.op = "create" /\ c.op # "write_at" /\ c.name = name
  BY <1>1
<1>3. fair(c)
  BY <1>1
<1>4. QED
  BY <1>2, <1>3 DEF fair

\* A create that panics was not fair.
LEMMA CreateServed ==
  ASSUME NEW A, Layout(A), healthy, NEW name \in Name \cup FullName \cup LongName, create(name),
         panicked' # NoCall
  PROVE  ~fair(panicked')
<1>1. PICK c : c = [op |-> "create", name |-> name]
  OBVIOUS
<1>2. running /\ (IF find_panics(name) \/ found(name) # {} THEN Look(c, find_panics(name))
                  ELSE create_new(c, name))
  BY <1>1, Zenon DEF create
<1>3. ~find_panics(name)
  BY DEF find_panics, compared, healthy
<1>4. create_new(c, name)
  BY <1>2, <1>3 DEF Look
<1>5. PICK id : id = CHOOSE g \in Inode \ inode_bitmap : \A h \in Inode \ inode_bitmap : g <= h
  OBVIOUS
<1>6. PICK e : e = write_cells(increase_size(inodes[Root], inodes[Root].size + 1), inodes[Root].size,
                               <<entry(name, id)>>)
  OBVIOUS
<1>7. /\ panicked' = c \/ panicked' = panicked
      /\ panicked' = c => Inode \ inode_bitmap = {} \/ name \in LongName \/ ~e.ok \/ c = panicked
  BY <1>4, <1>5, <1>6, Zenon DEF create_new, Panic
<1>8. panicked' = c /\ c # panicked
  BY <1>2, <1>7 DEF running
<1>9. SUFFICES ASSUME fair(c) PROVE FALSE
  BY <1>8
<1>10. /\ name \in Name /\ inode_bitmap # Inode
       /\ inodes[Root].size < INDIRECT2_BOUND * PerBlock
       /\ room(Root, inodes[Root].size + 1)
  BY <1>1, <1>9, FairCreate
<1>11. Inode \ inode_bitmap # {} /\ name \notin LongName
  BY <1>10, EasyAssumption DEF Layout, Types
<1>12. Root \in Inode
  BY EasyAssumption DEF Root, Inode
<1>13. PICK z \in Nat : z = inodes[Root].size
  BY <1>12 DEF Layout, Types, DiskInode
<1>14. id \in Inode
  <2>1. PICK free : free = Inode \ inode_bitmap
    OBVIOUS
  <2>2. free \in SUBSET Nat /\ free # {}
    BY <1>11, <2>1 DEF Inode
  <2>3. \E f \in free : \A g \in free : f <= g
    BY <2>2, LeastOf
  <2>4. id \in free
    BY <1>5, <2>1, <2>3
  <2>5. QED
    BY <2>1, <2>4
<1>15. PICK en : en = entry(name, id)
  OBVIOUS
<1>16. en \in Value
  BY <1>10, <1>14, <1>15 DEF entry, Entry, Value
<1>17. PICK buf : buf = <<en>>
  OBVIOUS
<1>18. buf \in Seq(Value) /\ Len(buf) = 1
  BY <1>16, <1>17
<1>19. e = write_cells(increase_size(inodes[Root], z + Len(buf)), z, buf)
  BY <1>6, <1>13, <1>15, <1>17, <1>18
<1>20. Len(buf) > 0 /\ z + Len(buf) <= INDIRECT2_BOUND * PerBlock /\ room(Root, z + Len(buf))
  <2>1. PICK q \in Int : q = INDIRECT2_BOUND * PerBlock
    BY Sizes
  <2>2. QED
    BY <1>10, <1>13, <1>18, <2>1
<1>21. e.ok = TRUE
  BY <1>12, <1>18, <1>19, <1>20, WriteServed, Zenon
<1>22. QED
  BY <1>7, <1>8, <1>11, <1>21

\* A write that panics was not fair.
LEMMA WriteCallServed ==
  ASSUME NEW A, Layout(A), healthy, NEW f \in File, NEW offset \in Offset, NEW buf \in Buffer,
         write_at(f, offset, buf), panicked' # NoCall
  PROVE  ~fair(panicked')
<1>1. PICK len \in Nat : len = Len(buf)
  BY Buffers
<1>2. PICK c : c = [op |-> "write_at", file |-> f, offset |-> offset, len |-> len]
  OBVIOUS
<1>3. PICK e : e = write_cells(increase_size(inodes[f], offset + Len(buf)), offset, buf)
  OBVIOUS
<1>4. running /\ (IF e.ok THEN Keep(f, e) ELSE Panic(c))
  BY <1>1, <1>2, <1>3, Zenon DEF write_at, is_open
<1>5. panicked' = c /\ ~e.ok
  BY <1>4 DEF Keep, Panic, running
<1>6. SUFFICES ASSUME fair(c) PROVE FALSE
  BY <1>5
<1>7. /\ len > 0 /\ offset + len <= INDIRECT2_BOUND * PerBlock
      /\ offset + len <= inodes[f].size \/ room(f, offset + len)
  BY <1>2, <1>6, FairWrite
<1>8. offset \in Nat /\ buf \in Seq(Value) /\ f \in Inode
  BY EasyAssumption, Buffers DEF File
<1>9. e.ok = TRUE
  BY <1>1, <1>3, <1>7, <1>8, WriteServed, Zenon
<1>10. QED
  BY <1>5, <1>9

\* clear does not panic: the blocks it finds are as many as total_blocks says,
\* all different, on the device and marked.
LEMMA ClearServed ==
  ASSUME NEW A, Layout(A), healthy, NEW f \in File, clear(f)
  PROVE  panicked' = NoCall
<1>1. PICK v : v = clear_size(inodes[f])
  OBVIOUS
<1>2. f \in Inode
  BY DEF File
<1>3. /\ Len(v) = total_blocks(inodes[f].size) /\ Cardinality(ToSet(v)) = Len(v)
      /\ ToSet(v) = {A[f][x] : x \in blocks(f)}
  BY <1>1, <1>2, ClearBlocks
<1>4. \A b \in ToSet(v) : b \in Device /\ b - 1 \in data_bitmap
  BY <1>2, <1>3, OnDevice
<1>5. running /\ UNCHANGED panicked
  BY <1>1, <1>3, <1>4, Zenon DEF clear, is_open, Keep
<1>6. QED
  BY <1>5 DEF running

\* read_at does not panic.
LEMMA ReadCallServed ==
  ASSUME NEW A, Layout(A), healthy, NEW f \in File, NEW offset \in Offset, NEW n \in Length,
         read_at(f, offset, n)
  PROVE  panicked' = NoCall
<1>1. offset \in Nat /\ n \in Nat /\ f \in Inode
  BY EasyAssumption DEF File
<1>2. PICK z \in Nat : z = inodes[f].size
  BY <1>1 DEF Layout, Types, DiskInode
<1>3. PICK end \in Nat : end = minimum(offset + n, inodes[f].size) /\ end <= z
  BY <1>1, <1>2 DEF minimum
<1>4. PICK touched : touched = IF offset >= end THEN {} ELSE blocks_of(offset, end - offset)
  OBVIOUS
<1>5. \A l \in touched : get_block_id(store, inodes[f], l) \in Device
  <2>1. SUFFICES ASSUME NEW l \in touched PROVE get_block_id(store, inodes[f], l) \in Device
    OBVIOUS
  <2>2. offset < end /\ l \in blocks_of(offset, end - offset)
    BY <1>1, <1>4
  <2>3. QED
    BY <1>1, <1>2, <1>3, <2>2, ReadServed
<1>6. \E c, fails : Look(c, fails) /\ (fails <=> \E l \in touched : get_block_id(store, inodes[f], l) \notin Device)
  BY <1>3, <1>4, Zenon DEF read_at
<1>7. QED
  BY <1>5, <1>6 DEF Look

\* A call that easy-fs has to serve, on a disk that holds nothing to trip
\* over, does not panic: the blocks it needs are there and on the device, and
\* increase_size, write_at and clear_size (layout.rs) find a place for each.
THEOREM EasyFsServesFairCalls == Spec => ServesFairCalls
<1>1. ASSUME Consistent, [Next]_vars, running, healthy, panicked' # NoCall
      PROVE  ~fair(panicked')
  <2>1. PICK A : Layout(A)
    BY <1>1 DEF Consistent
  <2>2. ASSUME NEW name \in Name \cup FullName \cup LongName, create(name) PROVE ~fair(panicked')
    BY <1>1, <2>1, <2>2, CreateServed
  <2>3. ASSUME NEW name \in Name, find(name) PROVE FALSE
    <3>1. ~find_panics(name)
      BY <1>1 DEF find_panics, compared, healthy
    <3>2. QED
      BY <1>1, <2>3, <3>1 DEF find, Look
  <2>4. ASSUME ls PROVE FALSE
    BY <1>1, <2>4 DEF ls, Look, healthy
  <2>5. ASSUME NEW f \in File, NEW offset \in Offset, NEW n \in Length, read_at(f, offset, n) PROVE FALSE
    BY <1>1, <2>1, <2>5, ReadCallServed
  <2>6. ASSUME NEW f \in File, NEW offset \in Offset, NEW buf \in Buffer, write_at(f, offset, buf)
        PROVE  ~fair(panicked')
    BY <1>1, <2>1, <2>6, WriteCallServed
  <2>7. ASSUME NEW f \in File, clear(f) PROVE FALSE
    BY <1>1, <2>1, <2>7, ClearServed
  <2>8. ASSUME UNCHANGED vars PROVE FALSE
    BY <1>1, <2>8 DEF vars, running
  <2>9. QED
    BY <1>1, <2>2, <2>3, <2>4, <2>5, <2>6, <2>7, <2>8, Zenon DEF Next
<1>2. Consistent /\ [Next]_vars => [running /\ healthy /\ panicked' # NoCall => ~fair(panicked')]_vars
  BY <1>1
<1>3. QED
  BY <1>2, EasyFsConsistent, PTL DEF Spec, ServesFairCalls

-------------------------------------------------------------------------------
\* Cell j of file f, and all its cells.
byte(A, f, j) ==
    IF A[f][j \div PerBlock] \in Device THEN store[A[f][j \div PerBlock]][j % PerBlock] ELSE 0
data(A, f) == [i \in 1 .. inodes[f].size |-> byte(A, f, i - 1)]

\* Reading a file gives its data.
LEMMA ReadIs ==
  ASSUME NEW A, Layout(A), NEW f \in Inode
  PROVE  read_all(f) = data(A, f)
<1>1. HasBlocks(inodes[f], A[f])
  BY DEF Layout, OwnBlocks
<1>2. PICK z \in Nat : z = inodes[f].size
  BY <1>1 DEF HasBlocks, DiskInode
<1>3. PICK n \in Nat : n = data_blocks(z)
  BY DataBlocksOf
<1>4. Tree(inodes[f], store, Nodes(n), A[f])
  BY <1>1, <1>2, <1>3 DEF HasBlocks
<1>5. ASSUME NEW i \in 1 .. z
      PROVE  get_block_id(store, inodes[f], (i - 1) \div PerBlock) = A[f][(i - 1) \div PerBlock]
  <2>1. PICK j \in Nat : j = i - 1 /\ j < z
    <3>1. i - 1 \in Nat /\ i - 1 < z
      BY <1>5
    <3>2. QED
      BY <3>1
  <2>2. PICK l \in Nat : l = j \div PerBlock /\ l < n
    BY <1>3, <2>1, CellOf
  <2>3. l \in Nodes(n) /\ Nodes(n) \in SUBSET Int
    BY <2>2, NodesOf DEF Nodes
  <2>4. pointer(store, inodes[f], l) = A[f][l]
    BY <1>4, <2>3, TreePointer
  <2>5. QED
    BY <2>1, <2>2, <2>4 DEF pointer
<1>6. read_all(f) = [i \in 1 .. z |->
        IF A[f][(i - 1) \div PerBlock] \in Device
        THEN store[A[f][(i - 1) \div PerBlock]][(i - 1) % PerBlock] ELSE 0]
  <2>1. read_all(f) = [i \in 1 .. z |->
          IF get_block_id(store, inodes[f], (i - 1) \div PerBlock) \in Device
          THEN store[get_block_id(store, inodes[f], (i - 1) \div PerBlock)][(i - 1) % PerBlock] ELSE 0]
    BY <1>2, Zenon DEF read_all
  <2>2. QED
    BY <1>5, <2>1
<1>7. QED
  BY <1>2, <1>6 DEF data, byte

\* The directory holds the data of the files, each under its name.
DirectoryHas(A) ==
    /\ directory = [n \in {item(A, i).name : i \in Item} |-> directory[n]]
    /\ \A i \in Item, g \in Inode :
          item(A, i).inode_number = g => directory[item(A, i).name] = data(A, g)

\* The directory as its entries and the files give it.
LEMMA DirectoryIs ==
  ASSUME NEW A, Layout(A)
  PROVE  DirectoryHas(A)
<1>1. PICK ds, D : ds = dirents /\ D = DOMAIN ds
  OBVIOUS
<1>2. D = {i + 1 : i \in Item} /\ \A i \in Item : ds[i + 1] = item(A, i)
  BY <1>1, DirentsAre
<1>3. PICK names : names = {ds[i].name : i \in D}
  OBVIOUS
<1>4. names = {item(A, i).name : i \in Item}
  BY <1>2, <1>3
<1>5. directory = [n \in names |-> read_all(ds[CHOOSE i \in D : ds[i].name = n].inode_number)]
  <2>1. directory = [n \in {dirents[i].name : i \in DOMAIN dirents} |->
          read_all(dirents[CHOOSE i \in DOMAIN dirents : dirents[i].name = n].inode_number)]
    BY Zenon DEF directory
  <2>2. directory = [n \in {ds[i].name : i \in D} |-> read_all(ds[CHOOSE i \in D : ds[i].name = n].inode_number)]
    BY <1>1, <2>1
  <2>3. QED
    BY <1>3, <2>2
<1>6. ASSUME NEW i \in Item, NEW g \in Inode, item(A, i).inode_number = g
      PROVE  directory[item(A, i).name] = data(A, g)
  <2>1. PICK n : n = item(A, i).name
    OBVIOUS
  <2>2. PICK j : j = CHOOSE k \in D : ds[k].name = n
    OBVIOUS
  <2>3. i + 1 \in D /\ ds[i + 1].name = n /\ n \in names
    BY <1>2, <1>4, <2>1
  <2>4. j \in D /\ ds[j].name = n
    BY <2>2, <2>3
  <2>5. PICK k \in Item : j = k + 1 /\ ds[j] = item(A, k)
    BY <1>2, <2>4
  <2>6. k = i
    BY <2>1, <2>4, <2>5 DEF Layout, Listed
  <2>7. directory[n] = read_all(ds[j].inode_number)
    BY <1>5, <2>2, <2>3
  <2>8. read_all(g) = data(A, g)
    BY ReadIs
  <2>9. QED
    BY <1>6, <2>1, <2>5, <2>6, <2>7, <2>8
<1>7. directory = [n \in names |-> directory[n]]
  BY <1>5
<1>8. QED
  BY <1>4, <1>6, <1>7 DEF DirectoryHas

\* The same as a formula.
LEMMA DirectoryAlways == \A A : Layout(A) => DirectoryHas(A)
BY DirectoryIs

\* After a call, too.
LEMMA DirectoryNext == (\A A : Layout(A) => DirectoryHas(A))'
BY DirectoryAlways, PTL

\* The files that were not written to have the data they had.
LEMMA OthersData ==
  ASSUME NEW A, Layout(A), NEW f \in Inode, OthersKept(f, A), NEW A2, NEW g \in Inode, g # f,
         A2[g] = A[g]
  PROVE  data(A2, g)' = data(A, g)
<1>1. PICK z \in Nat : z = inodes[g].size
  BY DEF Layout, Types, DiskInode
<1>2. inodes'[g].size = z
  BY <1>1 DEF OthersKept
<1>3. ASSUME NEW i \in 1 .. z PROVE byte(A2, g, i - 1)' = byte(A, g, i - 1)
  <2>1. PICK j \in Nat : j = i - 1 /\ j < z
    <3>1. i - 1 \in Nat /\ i - 1 < z
      BY <1>3
    <3>2. QED
      BY <3>1
  <2>2. PICK n \in Nat : n = data_blocks(z)
    BY DataBlocksOf
  <2>3. PICK l \in Nat, k \in Cell : l = j \div PerBlock /\ k = j % PerBlock /\ l < n
    BY <2>1, <2>2, CellOf
  <2>4. l \in blocks(g)
    BY <1>1, <2>2, <2>3, NodesOf DEF blocks
  <2>5. A[g][l] \in Device => store'[A[g][l]][k] = store[A[g][l]][k]
    BY <2>4 DEF OthersKept
  <2>6. QED
    BY <2>1, <2>3, <2>5 DEF byte
<1>4. QED
  BY <1>1, <1>2, <1>3 DEF data

\* The file that was written to has the data of the abstract store.
LEMMA OwnData ==
  ASSUME NEW A, Layout(A), NEW f \in Inode \ {Root}, NEW e, NEW B, NEW offset \in Nat,
         NEW buf \in Seq(Value), Wrote(e, inodes[f], A[f], B, offset, buf),
         NEW A2, Rewritten(f, e, A, B, A2)
  PROVE  data(A2, f)' = Store!overwritten(data(A, f), offset, buf)
<1>1. Types /\ OwnBlocks(A) /\ FreeZero /\ ZeroTail(A)
  BY DEF Layout
<1>2. PICK z \in Nat, n \in Nat : z = inodes[f].size /\ n = Len(buf)
  <2>1. inodes[f].size \in Nat
    BY <1>1 DEF Types, DiskInode
  <2>2. QED
    BY <2>1
<1>3. PICK c \in Nat, m \in Nat, t \in Nat :
        /\ c = data_blocks(z) /\ m = larger(z, offset + Len(buf)) /\ t = data_blocks(m)
  <2>1. larger(z, offset + Len(buf)) \in Nat
    BY <1>2 DEF larger
  <2>2. QED
    BY <2>1, DataBlocksOf
<1>4. /\ e.ino.size = m
      /\ \A x \in Nodes(c) : B[x] = A[f][x]
      /\ \A x \in Nodes(t) : B[x] \in Int /\ (x \in Nodes(c) \/ B[x] - 1 \in free_bits)
      /\ \A y \in Nodes(t), j \in Cell : y >= 0 /\ B[y] \in Device =>
            IF PerBlock * y + j >= offset /\ PerBlock * y + j < offset + Len(buf)
            THEN e.store[B[y]][j] = buf[(PerBlock * y + j) - offset + 1]
            ELSE e.store[B[y]][j] = store[B[y]][j]
      /\ \A i \in 1 .. Len(buf) : B[block_at(offset, i)] \in Device
  BY <1>2, <1>3, Zenon DEF Wrote
<1>5. store' = e.store /\ inodes'[f].size = m /\ A2[f] = B
  BY <1>4 DEF Rewritten
<1>6. m = (IF offset + n > z THEN offset + n ELSE z)
  BY <1>2, <1>3 DEF larger
<1>7. PICK old : old = data(A, f)
  OBVIOUS
<1>8. Len(old) = z /\ \A i \in 1 .. z : old[i] = byte(A, f, i - 1)
  BY <1>2, <1>7 DEF data
<1>9. ASSUME NEW i \in 1 .. m
      PROVE  byte(A2, f, i - 1)' = IF i > offset /\ i <= offset + n THEN buf[i - offset]
                                   ELSE IF i <= z THEN old[i] ELSE 0
  <2>1. PICK j \in Nat : j = i - 1 /\ i = j + 1 /\ j < m
    <3>1. i - 1 \in Nat /\ i = (i - 1) + 1 /\ i - 1 < m
      BY <1>9
    <3>2. QED
      BY <3>1
  <2>2. PICK l \in Nat, k \in Cell : /\ l = j \div PerBlock /\ k = j % PerBlock /\ l < t
                                     /\ PerBlock * l + k = j
    BY <1>3, <2>1, CellOf, SMTT(30)
  <2>3. l \in Nodes(t)
    BY <2>2, NodesOf
  <2>4. byte(A2, f, j)' = IF B[l] \in Device THEN e.store[B[l]][k] ELSE 0
    BY <1>5, <2>2 DEF byte
  <2>5. CASE j >= offset /\ j < offset + n
    <3>1. PICK p \in 1 .. n : p = j - offset + 1 /\ p = i - offset
      <4>1. j - offset + 1 \in 1 .. n /\ j - offset + 1 = i - offset
        BY <2>1, <2>5
      <4>2. QED
        BY <4>1
    <3>2. block_at(offset, p) = l
      <4>1. offset + p - 1 = j
        BY <3>1, <2>1
      <4>2. QED
        BY <2>2, <4>1 DEF block_at
    <3>3. B[l] \in Device
      BY <1>2, <1>4, <3>1, <3>2
    <3>4. e.store[B[l]][k] = buf[p]
      <4>1. /\ PerBlock * l + k >= offset /\ PerBlock * l + k < offset + Len(buf)
            /\ (PerBlock * l + k) - offset + 1 = p
        BY <1>2, <2>2, <2>5, <3>1
      <4>2. e.store[B[l]][k] = buf[(PerBlock * l + k) - offset + 1]
        BY <1>4, <2>2, <2>3, <3>3, <4>1
      <4>3. QED
        BY <4>1, <4>2
    <3>5. i > offset /\ i <= offset + n
      BY <2>1, <2>5
    <3>6. QED
      BY <2>1, <2>4, <3>1, <3>3, <3>4, <3>5
  <2>6. CASE ~(j >= offset /\ j < offset + n)
    <3>1. ~(i > offset /\ i <= offset + n)
      BY <2>1, <2>6
    <3>2. B[l] \in Device => e.store[B[l]][k] = store[B[l]][k]
      BY <1>2, <1>4, <2>2, <2>3, <2>6
    <3>3. CASE j < z
      <4>1. l < c
        BY <1>3, <2>1, <2>2, <3>3, CellOf
      <4>2. l \in Nodes(c) /\ B[l] = A[f][l]
        BY <1>4, <2>2, <4>1, NodesOf
      <4>3. i \in 1 .. z
        BY <2>1, <3>3
      <4>4. old[i] = byte(A, f, j)
        BY <1>8, <2>1, <4>3
      <4>5. byte(A, f, j) = IF B[l] \in Device THEN store[B[l]][k] ELSE 0
        BY <2>2, <4>2 DEF byte
      <4>6. byte(A2, f, j)' = old[i]
        BY <2>4, <3>2, <4>4, <4>5
      <4>7. i <= z
        BY <4>3
      <4>8. QED
        BY <2>1, <3>1, <4>6, <4>7
    <3>4. CASE ~(j < z)
      <4>1. ~(i <= z)
        BY <2>1, <3>4
      <4>2. B[l] \in Device => store[B[l]][k] = 0
        <5>1. SUFFICES ASSUME B[l] \in Device PROVE store[B[l]][k] = 0
          OBVIOUS
        <5>2. CASE l \in Nodes(c)
          <6>1. l \in blocks(f) /\ B[l] = A[f][l] /\ PerBlock * l + k >= inodes[f].size
            BY <1>2, <1>3, <1>4, <2>2, <3>4, <5>2 DEF blocks
          <6>2. QED
            BY <1>1, <5>1, <6>1 DEF ZeroTail, TailOf
        <5>3. CASE l \notin Nodes(c)
          <6>1. B[l] \in Int /\ B[l] - 1 \in free_bits
            BY <1>4, <2>3, <5>3
          <6>2. B[l] # 0 /\ B[l] - 1 \notin data_bitmap
            BY <6>1 DEF free_bits
          <6>3. QED
            BY <1>1, <5>1, <6>2 DEF FreeZero
        <5>4. QED
          BY <5>2, <5>3
      <4>3. QED
        BY <2>1, <2>4, <3>1, <3>2, <4>1, <4>2
    <3>5. QED
      BY <3>3, <3>4
  <2>7. QED
    BY <2>5, <2>6
<1>10. data(A2, f)' = [i \in 1 .. m |-> byte(A2, f, i - 1)']
  BY <1>5 DEF data
<1>11. Store!overwritten(old, offset, buf) =
         [i \in 1 .. m |-> IF i > offset /\ i <= offset + n THEN buf[i - offset]
                           ELSE IF i <= z THEN old[i] ELSE 0]
  BY <1>2, <1>6, <1>8, Zenon DEF Store!overwritten
<1>12. data(A2, f)' = [i \in 1 .. m |-> IF i > offset /\ i <= offset + n THEN buf[i - offset]
                                        ELSE IF i <= z THEN old[i] ELSE 0]
  BY <1>9, <1>10
<1>13. QED
  BY <1>7, <1>11, <1>12

\* A call that changed the data of file f, and nothing else, changed one file
\* of the directory.
LEMMA OneChanged ==
  ASSUME NEW A, Layout(A), NEW f \in File, f \in inode_bitmap, OthersKept(f, A),
         inode_bitmap' = inode_bitmap, NEW A2, Layout(A2)', \A g \in Inode : g # f => A2[g] = A[g]
  PROVE  \E n \in DOMAIN directory :
            directory[n] = data(A, f) /\ directory' = [directory EXCEPT ![n] = data(A2, f)']
<1>1. f \in Inode \ {Root} /\ Root \in Inode /\ A2[Root] = A[Root]
  BY EasyAssumption DEF File, Root, Inode
<1>2. Item' = Item /\ \A i \in Item : item(A2, i)' = item(A, i)
  BY <1>1, ListedKept
<1>3. DirectoryHas(A) /\ DirectoryHas(A2)'
  BY DirectoryIs, DirectoryNext
<1>4. PICK S : S = {item(A, i).name : i \in Item}
  OBVIOUS
<1>5. PICK old : old = directory
  OBVIOUS
<1>6. PICK new : new = directory'
  OBVIOUS
<1>7. /\ old = [n \in S |-> old[n]]
      /\ \A i \in Item, g \in Inode : item(A, i).inode_number = g => old[item(A, i).name] = data(A, g)
  BY <1>3, <1>4, <1>5, Zenon DEF DirectoryHas
<1>8. /\ new = [n \in S |-> new[n]]
      /\ \A i \in Item, g \in Inode : item(A, i).inode_number = g => new[item(A, i).name] = data(A2, g)'
  <2>1. /\ directory' = [n \in {item(A2, i)'.name : i \in Item'} |-> directory'[n]]
        /\ \A i \in Item', g \in Inode :
              item(A2, i)'.inode_number = g => directory'[item(A2, i)'.name] = data(A2, g)'
    BY <1>3, Zenon DEF DirectoryHas
  <2>2. {item(A2, i)'.name : i \in Item'} = S
    BY <1>2, <1>4
  <2>3. new = [n \in S |-> new[n]]
    BY <1>6, <2>1, <2>2
  <2>4. ASSUME NEW i \in Item, NEW g \in Inode, item(A, i).inode_number = g
        PROVE  new[item(A, i).name] = data(A2, g)'
    BY <1>2, <1>6, <2>1, <2>4
  <2>5. QED
    BY <2>3, <2>4
<1>9. PICK i \in Item : item(A, i).inode_number = f
  BY <1>1 DEF Layout, Listed
<1>10. PICK n \in S : n = item(A, i).name
  BY <1>4
<1>11. old[n] = data(A, f) /\ new[n] = data(A2, f)'
  BY <1>1, <1>7, <1>8, <1>9, <1>10
<1>12. ASSUME NEW m \in S, m # n PROVE new[m] = old[m]
  <2>1. PICK j \in Item : m = item(A, j).name
    BY <1>4
  <2>2. j # i
    BY <1>10, <1>12, <2>1
  <2>3. PICK g \in Inode : g = item(A, j).inode_number /\ g # f
    <3>1. item(A, j).inode_number \in Inode
      BY DEF Layout, Listed, Types
    <3>2. item(A, j).inode_number # f
      BY <1>9, <2>2 DEF Layout, Listed
    <3>3. QED
      BY <3>1, <3>2
  <2>4. data(A2, g)' = data(A, g)
    BY <1>1, <2>3, OthersData
  <2>5. QED
    BY <1>7, <1>8, <2>1, <2>3, <2>4
<1>13. new = [old EXCEPT ![n] = data(A2, f)']
  <2>1. PICK v : v = data(A2, f)'
    OBVIOUS
  <2>2. new[n] = v /\ DOMAIN old = S
    BY <1>7, <1>11, <2>1
  <2>3. new = [m \in S |-> IF m = n THEN v ELSE old[m]]
    BY <1>8, <1>12, <2>2
  <2>4. [old EXCEPT ![n] = v] = [m \in S |-> IF m = n THEN v ELSE old[m]]
    BY <2>2
  <2>5. QED
    BY <2>1, <2>3, <2>4
<1>14. n \in DOMAIN old
  BY <1>7
<1>15. QED
  BY <1>5, <1>6, <1>11, <1>13, <1>14

\* The directory that a create leaves.
LEMMA OneAdded ==
  ASSUME NEW A, Layout(A), NEW name, NEW id, Added(A, name, id)
  PROVE  /\ name \in (Name \cup FullName) \ DOMAIN directory
         /\ directory' = [m \in DOMAIN directory \cup {name} |-> IF m = name THEN <<>> ELSE directory[m]]
<1>1. PICK A2 : /\ Layout(A2)' /\ OthersKept(Root, A) /\ \A g \in Inode : g # Root => A2[g] = A[g]
                /\ id \in Inode /\ id # Root /\ inodes'[id].size = 0
                /\ name \in Name \cup FullName /\ \A i \in Item : item(A, i).name # name
                /\ \E z : /\ Item' = Item \cup {z} /\ item(A2, z)' = entry(name, id)
                          /\ \A i \in Item : item(A2, i)' = item(A, i)
  BY Zenon DEF Added
<1>2. PICK z : /\ Item' = Item \cup {z} /\ item(A2, z)' = entry(name, id)
               /\ \A i \in Item : item(A2, i)' = item(A, i)
  BY <1>1
<1>3. DirectoryHas(A) /\ DirectoryHas(A2)'
  BY <1>1, DirectoryIs, DirectoryNext
<1>4. PICK S : S = {item(A, i).name : i \in Item}
  OBVIOUS
<1>5. PICK old : old = directory
  OBVIOUS
<1>6. PICK new : new = directory'
  OBVIOUS
<1>7. /\ old = [n \in S |-> old[n]]
      /\ \A i \in Item, g \in Inode : item(A, i).inode_number = g => old[item(A, i).name] = data(A, g)
  BY <1>3, <1>4, <1>5, Zenon DEF DirectoryHas
<1>8. entry(name, id).name = name /\ entry(name, id).inode_number = id
  BY DEF entry
<1>9. /\ new = [n \in S \cup {name} |-> new[n]]
      /\ \A i \in Item, g \in Inode : item(A, i).inode_number = g => new[item(A, i).name] = data(A2, g)'
      /\ new[name] = data(A2, id)'
  <2>1. /\ directory' = [n \in {item(A2, i)'.name : i \in Item'} |-> directory'[n]]
        /\ \A i \in Item', g \in Inode :
              item(A2, i)'.inode_number = g => directory'[item(A2, i)'.name] = data(A2, g)'
    BY <1>3, Zenon DEF DirectoryHas
  <2>2. {item(A2, i)'.name : i \in Item'} = S \cup {name}
    BY <1>2, <1>4, <1>8
  <2>3. new = [n \in S \cup {name} |-> new[n]]
    BY <1>6, <2>1, <2>2
  <2>4. ASSUME NEW i \in Item, NEW g \in Inode, item(A, i).inode_number = g
        PROVE  new[item(A, i).name] = data(A2, g)'
    BY <1>2, <1>6, <2>1, <2>4
  <2>5. new[name] = data(A2, id)'
    BY <1>1, <1>2, <1>6, <1>8, <2>1
  <2>6. QED
    BY <2>3, <2>4, <2>5
<1>10. data(A2, id)' = <<>>
  <2>1. data(A2, id)' = [i \in 1 .. 0 |-> byte(A2, id, i - 1)']
    BY <1>1 DEF data
  <2>2. QED
    BY <2>1
<1>11. ASSUME NEW m \in S PROVE new[m] = old[m]
  <2>1. PICK j \in Item : m = item(A, j).name
    BY <1>4
  <2>2. PICK g \in Inode : g = item(A, j).inode_number /\ g # Root
    BY DEF Layout, Listed, Types
  <2>3. Root \in Inode /\ A2[g] = A[g]
    BY <1>1, <2>2, EasyAssumption DEF Root, Inode
  <2>4. data(A2, g)' = data(A, g)
    BY <1>1, <2>2, <2>3, OthersData
  <2>5. QED
    BY <1>7, <1>9, <2>1, <2>2, <2>4
<1>12. name \notin S
  BY <1>1, <1>4
<1>13. DOMAIN old = S
  BY <1>7
<1>14. new = [m \in S \cup {name} |-> IF m = name THEN <<>> ELSE old[m]]
  BY <1>9, <1>10, <1>11, <1>12
<1>15. QED
  BY <1>1, <1>5, <1>6, <1>12, <1>13, <1>14

\* One call takes the directory one step, or leaves it as it is.
LEMMA NextStore ==
  ASSUME Consistent, [Next]_vars
  PROVE  [Store!StoreNext]_directory
<1>1. PICK A : Layout(A)
  BY DEF Consistent
<1>2. SUFFICES Store!Change(directory, directory') \/ directory' = directory
  BY DEF Store!StoreNext
<1>3. ASSUME UNCHANGED disk PROVE directory' = directory
  BY <1>3 DEF disk, directory, dirents, dirent, read_all
<1>4. ASSUME NEW name \in Name \cup FullName \cup LongName, create(name)
      PROVE  Store!Change(directory, directory') \/ directory' = directory
  <2>1. UNCHANGED disk \/ \E id : Added(A, name, id)
    BY <1>1, <1>4, CreateCall DEF CreateEffect
  <2>2. ASSUME NEW id, Added(A, name, id) PROVE Store!Change(directory, directory')
    <3>1. /\ name \in (Name \cup FullName) \ DOMAIN directory
          /\ directory' = [m \in DOMAIN directory \cup {name} |-> IF m = name THEN <<>> ELSE directory[m]]
      BY <1>1, <2>2, OneAdded
    <3>2. QED
      BY <3>1, Zenon DEF Store!Change
  <2>3. QED
    BY <1>3, <2>1, <2>2
<1>5. ASSUME NEW f \in File, NEW offset \in Offset, NEW buf \in Buffer, write_at(f, offset, buf)
      PROVE  Store!Change(directory, directory') \/ directory' = directory
  <2>1. WriteEffect(A, f, offset, buf)
    BY <1>1, <1>5, WriteCall
  <2>2. CASE UNCHANGED disk
    BY <1>3, <2>2
  <2>3. CASE ~UNCHANGED disk
    <3>1. PICK e, B : Wrote(e, inodes[f], A[f], B, offset, buf) /\ Leaves(f, e, A, B)
      BY <2>1, <2>3, Zenon DEF WriteEffect
    <3>2. f \in inode_bitmap /\ inode_bitmap' = inode_bitmap
      BY <2>1, <2>3, Zenon DEF WriteEffect
    <3>3. PICK A2 : Rewritten(f, e, A, B, A2) /\ Layout(A2)'
      BY <3>1 DEF Leaves
    <3>4. offset \in Nat /\ buf \in Seq(Value) /\ f \in Inode /\ f \in Inode \ {Root}
      BY EasyAssumption, Buffers DEF File
    <3>5. OthersKept(f, A)
      BY <1>1, <3>1, <3>3, <3>4, RewriteBlocks
    <3>6. \A g \in Inode : g # f => A2[g] = A[g]
      BY <3>3 DEF Rewritten
    <3>7. data(A2, f)' = Store!overwritten(data(A, f), offset, buf)
      BY <1>1, <3>1, <3>3, <3>4, OwnData
    <3>8. PICK n \in DOMAIN directory :
            directory[n] = data(A, f) /\ directory' = [directory EXCEPT ![n] = data(A2, f)']
      BY <1>1, <3>2, <3>3, <3>5, <3>6, OneChanged
    <3>9. directory' = [directory EXCEPT ![n] = Store!overwritten(directory[n], offset, buf)]
      BY <3>7, <3>8
    <3>10. QED
      BY <3>9, Zenon DEF Store!Change
  <2>4. QED
    BY <2>2, <2>3
<1>6. ASSUME NEW f \in File, clear(f)
      PROVE  Store!Change(directory, directory') \/ directory' = directory
  <2>1. ClearEffect(A, f)
    BY <1>1, <1>6, ClearCall
  <2>2. CASE UNCHANGED disk
    BY <1>3, <2>2
  <2>3. CASE ~UNCHANGED disk
    <3>1. /\ f \in inode_bitmap /\ inode_bitmap' = inode_bitmap
          /\ Layout(A)' /\ OthersKept(f, A) /\ inodes'[f].size = 0
      BY <2>1, <2>3, Zenon DEF ClearEffect
    <3>2. data(A, f)' = <<>>
      <4>1. data(A, f)' = [i \in 1 .. 0 |-> byte(A, f, i - 1)']
        BY <3>1 DEF data
      <4>2. QED
        BY <4>1
    <3>3. PICK n \in DOMAIN directory : directory' = [directory EXCEPT ![n] = data(A, f)']
      BY <1>1, <3>1, OneChanged
    <3>4. directory' = [directory EXCEPT ![n] = <<>>]
      BY <3>2, <3>3
    <3>5. QED
      BY <3>4, Zenon DEF Store!Change
  <2>4. QED
    BY <2>2, <2>3
<1>7. ASSUME NEW name \in Name, find(name) PROVE UNCHANGED disk
  BY <1>7 DEF find, Look
<1>8. ASSUME ls PROVE UNCHANGED disk
  BY <1>8 DEF ls, Look
<1>9. ASSUME NEW f \in File, NEW offset \in Offset, NEW n \in Length, read_at(f, offset, n)
      PROVE  UNCHANGED disk
  BY <1>9, Zenon DEF read_at, Look
<1>10. ASSUME UNCHANGED vars PROVE UNCHANGED disk
  BY <1>10 DEF vars, disk
<1>11. QED
  BY <1>3, <1>4, <1>5, <1>6, <1>7, <1>8, <1>9, <1>10, Zenon DEF Next

\* easy-fs is a directory of named files: what vfs.rs reads through the
\* inodes and their blocks of pointers is what was written under that name,
\* whatever the other calls did in between.
THEOREM EasyFsImplementsStore == Spec => ImplementsStore
<1>1. ASSUME Init PROVE directory = <<>>
  <2>1. inodes[Root].size = 0
    <3>1. Root \in Inode
      BY EasyAssumption DEF Root, Inode
    <3>2. QED
      BY <1>1, <3>1 DEF Init, new_inode
  <2>2. DOMAIN dirents = {}
    BY <2>1 DEF dirents
  <2>3. directory = [n \in {dirents[i].name : i \in DOMAIN dirents} |-> directory[n]]
    BY DEF directory
  <2>4. QED
    BY <2>2, <2>3
<1>2. Init => directory = <<>>
  BY <1>1
<1>3. Consistent /\ [Next]_vars => [Store!StoreNext]_directory
  BY NextStore
<1>4. QED
  BY <1>2, <1>3, EasyFsConsistent, PTL DEF Spec, ImplementsStore, Store!StoreSpec
===============================================================================
