---------------------------- MODULE Ext4DirProofs -----------------------------
(***************************************************************************)
(* Proofs about Ext4Dir, for any inodes, names, sizes of records and       *)
(* blocks, any directories and any size of the index cache.                *)
(***************************************************************************)
EXTENDS Ext4Dir, FiniteSetTheorems, SequenceTheorems, WellFoundedInduction, TLAPS

-------------------------------------------------------------------------------
\* Sums.  The sum of f over S is the number of the pairs Cells(f, S); the folds
\* of the model compute it, in whichever order they go through S.
Cells(f, S) == {c \in S \X Nat : c[2] \in 1 .. f[c[1]]}
Total(f, S) == Cardinality(Cells(f, S))

\* A set of subsets of a finite set that is not empty has a smallest one: with
\* it a claim about all subsets is proved from its least counterexample.
LEMMA LeastSubset ==
  ASSUME NEW S, IsFiniteSet(S), NEW Bad \in SUBSET (SUBSET S), Bad # {}
  PROVE  \E s \in Bad : \A x \in s : s \ {x} \notin Bad
<1>1. Bad \subseteq FiniteSubsetsOf(S)
  BY FS_FiniteSubsetsOfFinite
<1>2. PICK s \in Bad : \A y \in Bad : ~(<<y, s>> \in StrictSubsetOrdering(S))
  BY <1>1, FS_StrictSubsetOrderingWellFounded, WFMin
<1>3. ASSUME NEW x \in s, s \ {x} \in Bad
      PROVE  FALSE
  <2>1. <<s \ {x}, s>> \in StrictSubsetOrdering(S)
    BY <1>3 DEF StrictSubsetOrdering
  <2>2. QED
    BY <2>1, <1>2, <1>3
<1>4. QED
  BY <1>2, <1>3

\* The cells of one element.
LEMMA CellsOfOne ==
  ASSUME NEW x, NEW f, f[x] \in Nat
  PROVE  /\ IsFiniteSet({x} \X (1 .. f[x]))
         /\ Cardinality({x} \X (1 .. f[x])) = f[x]
<1>1. IsFiniteSet(1 .. f[x]) /\ Cardinality(1 .. f[x]) = f[x]
  BY FS_Interval
<1>2. IsFiniteSet({x}) /\ Cardinality({x}) = 1
  BY FS_Singleton
<1>3. /\ IsFiniteSet({x} \X (1 .. f[x]))
      /\ Cardinality({x} \X (1 .. f[x])) = Cardinality({x}) * Cardinality(1 .. f[x])
  BY <1>1, <1>2, FS_Product
<1>4. QED
  BY <1>1, <1>2, <1>3

\* The cells of a set are those of an element and those of the others.
LEMMA CellsSplit ==
  ASSUME NEW S, NEW f, \A y \in S : f[y] \in Nat, NEW x \in S
  PROVE  /\ Cells(f, S) = Cells(f, S \ {x}) \cup ({x} \X (1 .. f[x]))
         /\ Cells(f, S \ {x}) \cap ({x} \X (1 .. f[x])) = {}
BY DEF Cells

\* There are finitely many cells, and an element adds its value to the total.
LEMMA CellsFinite ==
  ASSUME NEW S, IsFiniteSet(S), NEW f, \A y \in S : f[y] \in Nat
  PROVE  IsFiniteSet(Cells(f, S))
<1> DEFINE Bad == {s \in SUBSET S : ~IsFiniteSet(Cells(f, s))}
<1>1. SUFFICES ASSUME Bad # {} PROVE FALSE
  OBVIOUS
<1>2. PICK s \in Bad : \A x \in s : s \ {x} \notin Bad
  <2> Bad \in SUBSET (SUBSET S)
    OBVIOUS
  <2> HIDE DEF Bad
  <2> QED
    BY <1>1, LeastSubset
<1>3. CASE s = {}
  <2>1. Cells(f, s) = {}
    BY <1>3 DEF Cells
  <2>2. QED
    BY <2>1, FS_EmptySet
<1>4. CASE s # {}
  <2>1. PICK x \in s : TRUE
    BY <1>4
  <2>2. IsFiniteSet(Cells(f, s \ {x}))
    BY <1>2, <2>1
  <2>3. x \in S /\ f[x] \in Nat /\ \A y \in s : f[y] \in Nat
    BY <2>1
  <2>4. Cells(f, s) = Cells(f, s \ {x}) \cup ({x} \X (1 .. f[x]))
    BY <2>1, <2>3, CellsSplit
  <2>5. IsFiniteSet({x} \X (1 .. f[x]))
    BY <2>3, CellsOfOne
  <2>6. IsFiniteSet(Cells(f, s))
    <3> DEFINE O == Cells(f, s \ {x})
               C == {x} \X (1 .. f[x])
    <3>1. IsFiniteSet(O) /\ IsFiniteSet(C) /\ Cells(f, s) = O \cup C
      BY <2>2, <2>4, <2>5
    <3> HIDE DEF O, C
    <3>2. QED
      BY <3>1, FS_Union
  <2>7. QED
    BY <2>6
<1>5. QED
  BY <1>3, <1>4

\* The total of a set is a number; an element adds its value to that of the others.
LEMMA TotalSplit ==
  ASSUME NEW S, IsFiniteSet(S), NEW f, \A y \in S : f[y] \in Nat
  PROVE  /\ Total(f, S) \in Nat
         /\ S = {} => Total(f, S) = 0
         /\ \A x \in S : Total(f, S \ {x}) \in Nat /\ Total(f, S) = Total(f, S \ {x}) + f[x]
<1>1. Total(f, S) \in Nat
  BY CellsFinite, FS_CardinalityType DEF Total
<1>2. ASSUME S = {} PROVE Total(f, S) = 0
  <2>1. Cells(f, S) = {}
    BY <1>2 DEF Cells
  <2>2. QED
    BY <2>1, FS_EmptySet DEF Total
<1>3. ASSUME NEW x \in S
      PROVE  Total(f, S \ {x}) \in Nat /\ Total(f, S) = Total(f, S \ {x}) + f[x]
  <2> DEFINE O == Cells(f, S \ {x})
             C == {x} \X (1 .. f[x])
  <2>1. f[x] \in Nat /\ IsFiniteSet(S \ {x}) /\ \A y \in S \ {x} : f[y] \in Nat
    BY FS_RemoveElement
  <2>2. IsFiniteSet(O) /\ Cardinality(O) \in Nat
    BY <2>1, CellsFinite, FS_CardinalityType
  <2>3. IsFiniteSet(C) /\ Cardinality(C) = f[x]
    BY <2>1, CellsOfOne
  <2>4. Cells(f, S) = O \cup C /\ O \cap C = {}
    BY CellsSplit
  <2> HIDE DEF O, C
  <2>5. Cardinality(O \cup C) = Cardinality(O) + Cardinality(C) - Cardinality(O \cap C)
    BY <2>2, <2>3, FS_Union
  <2>6. Cardinality(O \cap C) = 0
    BY <2>4, FS_EmptySet
  <2>7. QED
    BY <2>1, <2>2, <2>3, <2>4, <2>5, <2>6 DEF Total, O
<1>4. QED
  BY <1>1, <1>2, <1>3

\* Any recursion that takes the elements of S away one by one and adds their
\* values computes the total.
LEMMA RecursionIsTotal ==
  ASSUME NEW S, IsFiniteSet(S), NEW f, \A y \in S : f[y] \in Nat,
         NEW g, \A s \in SUBSET S :
                   \/ s = {} /\ g[s] = 0
                   \/ \E x \in s : g[s] \in {g[s \ {x}] + f[x], f[x] + g[s \ {x}]}
  PROVE  g[S] = Total(f, S)
<1> DEFINE Bad == {s \in SUBSET S : g[s] # Total(f, s)}
<1>1. SUFFICES ASSUME Bad # {} PROVE FALSE
  OBVIOUS
<1>2. PICK s \in Bad : \A x \in s : s \ {x} \notin Bad
  <2> Bad \in SUBSET (SUBSET S)
    OBVIOUS
  <2> HIDE DEF Bad
  <2> QED
    BY <1>1, LeastSubset
<1>3. s \in SUBSET S /\ IsFiniteSet(s) /\ \A y \in s : f[y] \in Nat
  BY <1>2, FS_Subset
<1>4. CASE s = {} /\ g[s] = 0
  BY <1>2, <1>3, <1>4, TotalSplit
<1>5. ASSUME NEW x \in s, g[s] \in {g[s \ {x}] + f[x], f[x] + g[s \ {x}]}
      PROVE  FALSE
  <2>1. g[s \ {x}] = Total(f, s \ {x})
    BY <1>2, <1>3
  <2>2. Total(f, s) = Total(f, s \ {x}) + f[x] /\ Total(f, s \ {x}) \in Nat /\ f[x] \in Nat
    BY <1>3, TotalSplit
  <2>3. QED
    BY <1>2, <1>5, <2>1, <2>2
<1>6. QED
  BY <1>3, <1>4, <1>5

\* The fold of BlocksCounted.
LEMMA FoldIsTotal ==
  ASSUME NEW S, IsFiniteSet(S), NEW f, \A y \in S : f[y] \in Nat
  PROVE  FoldFunctionOnSet(+, 0, f, S) = Total(f, S)
<1> DEFINE pick(s) == CHOOSE x \in s : TRUE
           step(g) == [s \in SUBSET S |-> IF s = {} THEN 0 ELSE f[pick(s)] + g[s \ {pick(s)}]]
           w == [s \in SUBSET S |-> Total(f, s)]
           h == CHOOSE g : g = step(g)
<1>1. FoldFunctionOnSet(+, 0, f, S) = h[S]
  BY DEF FoldFunctionOnSet, MapThenFoldSet
<1>2. \A s : s # {} => pick(s) \in s
  BY Zenon
<1> HIDE DEF pick
<1>3. ASSUME NEW s \in SUBSET S
      PROVE  w[s] = IF s = {} THEN 0 ELSE f[pick(s)] + w[s \ {pick(s)}]
  <2>1. IsFiniteSet(s) /\ \A y \in s : f[y] \in Nat
    BY FS_Subset
  <2>2. CASE s = {}
    BY <2>1, <2>2, TotalSplit
  <2>3. CASE s # {}
    <3>1. PICK x \in s : x = pick(s)
      BY <2>3, <1>2
    <3>2. Total(f, s) = Total(f, s \ {x}) + f[x] /\ Total(f, s \ {x}) \in Nat
      BY <2>1, TotalSplit
    <3>3. QED
      BY <2>1, <2>3, <3>1, <3>2
  <2>4. QED
    BY <2>2, <2>3
<1>4. w = step(w)
  BY <1>3
<1>5. h = step(h)
  <2> HIDE DEF w, step
  <2> QED
    BY <1>4, Zenon
<1>6. ASSUME NEW s \in SUBSET S
      PROVE  \/ s = {} /\ h[s] = 0
             \/ \E x \in s : h[s] \in {h[s \ {x}] + f[x], f[x] + h[s \ {x}]}
  <2> HIDE DEF h
  <2>1. h[s] = IF s = {} THEN 0 ELSE f[pick(s)] + h[s \ {pick(s)}]
    BY <1>5
  <2>2. QED
    BY <2>1, <1>2
<1>7. QED
  <2> HIDE DEF h
  <2> QED
    BY <1>1, <1>6, RecursionIsTotal

\* The largest and the smallest element of a set of numbers.
LEMMA MaxIsIn ==
  ASSUME NEW S \in SUBSET Nat, IsFiniteSet(S), S # {}
  PROVE  Max(S) \in S
<1> DEFINE Bad == {s \in SUBSET S : s # {} /\ ~\E x \in s : \A y \in s : x >= y}
<1>1. SUFFICES ASSUME Bad # {} PROVE FALSE
  <2>1. \E x \in S : \A y \in S : x >= y
    BY <1>1
  <2>2. QED
    BY <2>1 DEF Max
<1>2. PICK s \in Bad : \A x \in s : s \ {x} \notin Bad
  <2> Bad \in SUBSET (SUBSET S)
    OBVIOUS
  <2> HIDE DEF Bad
  <2> QED
    BY <1>1, LeastSubset
<1>3. PICK x \in s : TRUE
  BY <1>2
<1>4. s \ {x} # {}
  BY <1>2, <1>3
<1>5. PICK z \in s \ {x} : \A y \in s \ {x} : z >= y
  BY <1>2, <1>3, <1>4
<1>6. x \in Nat /\ z \in Nat /\ \A y \in s : y \in Nat
  BY <1>2, <1>3, <1>5
<1>7. QED
  BY <1>2, <1>3, <1>5, <1>6

\* The smallest element.
LEMMA MinIsLeast ==
  ASSUME NEW S \in SUBSET Nat, S # {}
  PROVE  Min(S) \in S /\ \A y \in S : Min(S) <= y
<1>1. PICK x \in S : \A y \in S : ~(<<y, x>> \in OpToRel(<, Nat))
  BY NatLessThanWellFounded, WFMin
<1>2. ASSUME NEW y \in S PROVE x <= y
  <2>1. y < x => <<y, x>> \in OpToRel(<, Nat)
    BY DEF OpToRel
  <2>2. ~(y < x)
    BY <1>1, <2>1, Zenon
  <2>3. QED
    BY <2>2
<1>3. QED
  BY <1>2 DEF Min

\* The lengths of the records of a block (rec_len), by their place in it.
lens(block) == [k \in DOMAIN block |-> block[k].rec]

\* The fold of RecordsFit is the sum of the lengths of the records of a block.
LEMMA FoldLeftIsTotal ==
  ASSUME NEW block, IsFiniteSet(DOMAIN block), DOMAIN block \subseteq Nat,
         \A k \in DOMAIN block : block[k].rec \in Nat
  PROVE  FoldLeft(LAMBDA s, e : s + e.rec, 0, block) = Total(lens(block), DOMAIN block)
<1> DEFINE f == lens(block)
           S == DOMAIN block
           step(g) == [s \in SUBSET S |-> IF s = {} THEN 0
                                          ELSE g[s \ {Max(s)}] + block[Max(s)].rec]
           w == [s \in SUBSET S |-> Total(f, s)]
           h == CHOOSE g : g = step(g)
<1>1. FoldLeft(LAMBDA s, e : s + e.rec, 0, block) = h[S]
  BY DEF FoldLeft, MapThenFoldSet
<1>2. \A s \in SUBSET S : s # {} => Max(s) \in s
  BY FS_Subset, MaxIsIn
<1>3. \A k \in S : f[k] = block[k].rec /\ f[k] \in Nat
  BY DEF lens
<1> HIDE DEF f
<1>4. ASSUME NEW s \in SUBSET S
      PROVE  w[s] = IF s = {} THEN 0 ELSE w[s \ {Max(s)}] + block[Max(s)].rec
  <2>1. IsFiniteSet(s) /\ \A y \in s : f[y] \in Nat
    BY <1>3, FS_Subset
  <2>2. CASE s = {}
    BY <2>1, <2>2, TotalSplit
  <2>3. CASE s # {}
    <3>1. PICK x \in s : x = Max(s)
      BY <2>3, <1>2
    <3>2. Total(f, s) = Total(f, s \ {x}) + f[x] /\ Total(f, s \ {x}) \in Nat
      BY <2>1, TotalSplit
    <3>3. f[x] = block[x].rec
      BY <1>3, <3>1
    <3>4. QED
      BY <2>1, <2>3, <3>1, <3>2, <3>3
  <2>4. QED
    BY <2>2, <2>3
<1>5. w = step(w)
  BY <1>4
<1>6. h = step(h)
  <2> HIDE DEF w, step
  <2> QED
    BY <1>5, Zenon
<1>7. ASSUME NEW s \in SUBSET S
      PROVE  \/ s = {} /\ h[s] = 0
             \/ \E x \in s : h[s] \in {h[s \ {x}] + f[x], f[x] + h[s \ {x}]}
  <2> HIDE DEF h
  <2>1. h[s] = IF s = {} THEN 0 ELSE h[s \ {Max(s)}] + block[Max(s)].rec
    BY <1>6
  <2>2. s # {} => block[Max(s)].rec = f[Max(s)]
    BY <1>2, <1>3
  <2>3. QED
    BY <2>1, <2>2, <1>2
<1>8. QED
  <2> HIDE DEF h
  <2> QED
    BY <1>1, <1>3, <1>7, RecursionIsTotal DEF f

\* The total depends on the values only.
LEMMA TotalSame ==
  ASSUME NEW S, NEW f, NEW g, \A y \in S : f[y] = g[y]
  PROVE  Total(f, S) = Total(g, S)
BY DEF Total, Cells

\* It does not change when the elements are renumbered.
LEMMA TotalMoved ==
  ASSUME NEW S, NEW T, IsFiniteSet(S), NEW f, NEW g, \A y \in S : f[y] \in Nat,
         NEW p \in [S -> T],
         \A x, y \in S : p[x] = p[y] => x = y,
         \A z \in T : \E x \in S : p[x] = z,
         \A x \in S : g[p[x]] = f[x]
  PROVE  Total(f, S) = Total(g, T)
<1> DEFINE q == [c \in Cells(f, S) |-> <<p[c[1]], c[2]>>]
<1>1. q \in [Cells(f, S) -> Cells(g, T)]
  BY DEF Cells
<1>2. ASSUME NEW c \in Cells(f, S), NEW e \in Cells(f, S), q[c] = q[e]
      PROVE  c = e
  BY <1>2 DEF Cells
<1>3. ASSUME NEW e \in Cells(g, T)
      PROVE  \E c \in Cells(f, S) : q[c] = e
  <2>1. e = <<e[1], e[2]>> /\ e[1] \in T /\ e[2] \in Nat /\ e[2] \in 1 .. g[e[1]]
    BY DEF Cells
  <2>2. PICK x \in S : p[x] = e[1]
    BY <2>1
  <2>3. <<x, e[2]>> \in Cells(f, S)
    BY <2>1, <2>2 DEF Cells
  <2>4. q[<<x, e[2]>>] = e
    BY <2>1, <2>2, <2>3
  <2>5. QED
    BY <2>3, <2>4
<1> HIDE DEF q
<1>4. ExistsBijection(Cells(f, S), Cells(g, T))
  <2>1. \A c, e \in Cells(f, S) : q[c] = q[e] => c = e
    BY <1>2
  <2>2. \A e \in Cells(g, T) : \E c \in Cells(f, S) : q[c] = e
    BY <1>3
  <2>3. q \in Injection(Cells(f, S), Cells(g, T))
    BY <1>1, <2>1 DEF Injection, IsInjective
  <2>4. q \in Surjection(Cells(f, S), Cells(g, T))
    BY <1>1, <2>2 DEF Surjection
  <2>5. QED
    BY <2>3, <2>4 DEF ExistsBijection, Bijection
<1>5. QED
  BY <1>4, CellsFinite, FS_Bijection DEF Total

-------------------------------------------------------------------------------
\* One block of a directory.
FileType == {"FT_REG_FILE", "FT_DIR", "FT_SYMLINK", "FT_FIFO", "FT_CHRDEV", "FT_BLKDEV",
             "FT_SOCK", "FT_UNKNOWN"}
Stored == (Name \ TooLong) \cup Dots
Record == [name : Stored, ino : Inode \cup {NoInode}, type : FileType, rec : Nat]
Block == Seq(Record)

\* Block s has an entry n for inode i with type t.
InBlock(s, n, i, t) ==
    \E k \in DOMAIN s : s[k].ino # NoInode /\ s[k].name = n /\ s[k].ino = i /\ s[k].type = t

\* No name is in the block twice.
Once(s) ==
    \A k, l \in DOMAIN s :
        s[k].ino # NoInode /\ s[l].ino # NoInode /\ s[k].name = s[l].name => k = l

\* The records are inside the block and have room for their names; only the
\* last one is longer than a name that is too long.
Fit(s) ==
    /\ Total(lens(s), DOMAIN s) <= BlockSize
    /\ \A k \in DOMAIN s : s[k].rec >= Need[s[k].name]
    /\ \A k \in DOMAIN s, l \in TooLong : k < Len(s) => s[k].rec <= Need[l]

\* What a record of the block is.
LEMMA RecordFacts ==
  ASSUME NEW s \in Block, NEW k \in DOMAIN s
  PROVE  /\ s[k] \in Record /\ s[k].name \in Stored /\ s[k].rec \in Nat
         /\ k \in 1 .. Len(s) /\ Len(s) \in Nat /\ k \in Nat
         /\ s[k].ino \in Inode \cup {NoInode} /\ s[k].type \in FileType
<1>1. DOMAIN s = 1 .. Len(s) /\ Len(s) \in Nat /\ s[k] \in Record
  BY DEF Block
<1>2. QED
  BY <1>1 DEF Record

\* What the names need.
LEMMA NeedFacts ==
  /\ \A n \in Name \cup Dots : Need[n] \in Nat /\ Need[n] >= 1 /\ Need[n] <= BlockSize
  /\ \A n \in Stored : n \in Name \cup Dots /\ n \notin TooLong
  /\ \A n \in Stored, l \in TooLong : Need[n] <= Need[l] /\ Need[l] \in Nat
<1>1. BlockSize \in Nat /\ Need \in [Name \cup Dots -> 1 .. BlockSize]
  BY DirAssumption
<1>2. \A n \in Name \cup Dots : Need[n] \in Nat /\ Need[n] >= 1 /\ Need[n] <= BlockSize
  BY <1>1
<1>3. \A n \in Stored : n \in Name \cup Dots /\ n \notin TooLong
  BY DirAssumption DEF Stored
<1>4. ASSUME NEW n \in Stored, NEW l \in TooLong
      PROVE  Need[n] <= Need[l] /\ Need[l] \in Nat
  <2>1. l \in Name \cup Dots /\ n \in (Name \cup Dots) \ TooLong
    BY <1>3, DirAssumption
  <2>2. Need[l] >= Need[n] /\ Need[l] \in Nat /\ Need[n] \in Nat
    BY <2>1, <1>2, DirAssumption
  <2>3. QED
    BY <2>2
<1>5. QED
  BY <1>2, <1>3, <1>4

\* The lengths of the records of a block can be summed.
LEMMA LensFacts ==
  ASSUME NEW s \in Block
  PROVE  /\ IsFiniteSet(DOMAIN s) /\ DOMAIN s \subseteq Nat
         /\ \A k \in DOMAIN s : lens(s)[k] = s[k].rec /\ lens(s)[k] \in Nat
         /\ Total(lens(s), DOMAIN s) \in Nat
<1>1. DOMAIN s = 1 .. Len(s) /\ Len(s) \in Nat
  BY DEF Block
<1>2. IsFiniteSet(DOMAIN s)
  BY <1>1, FS_Interval
<1>3. \A k \in DOMAIN s : lens(s)[k] = s[k].rec /\ lens(s)[k] \in Nat
  BY RecordFacts DEF lens
<1>4. QED
  BY <1>1, <1>2, <1>3, TotalSplit

-------------------------------------------------------------------------------
\* A record that is changed and keeps its place.  It may get shorter, so the
\* entries stay inside the block.
LEMMA SetRecord ==
  ASSUME NEW s \in Block, Fit(s), NEW k \in DOMAIN s, NEW e \in Record,
         e.rec <= s[k].rec, e.rec >= Need[e.name]
  PROVE  [s EXCEPT ![k] = e] \in Block /\ Fit([s EXCEPT ![k] = e])
<1> DEFINE w == [s EXCEPT ![k] = e]
<1>1. DOMAIN w = DOMAIN s /\ Len(w) = Len(s) /\ w \in Block
      /\ \A j \in DOMAIN s : w[j] = IF j = k THEN e ELSE s[j]
  BY DEF Block
<1>2. e.rec \in Nat /\ s[k].rec \in Nat
  BY RecordFacts DEF Record
<1> HIDE DEF w
<1>3. Total(lens(w), DOMAIN w) <= BlockSize
  <2> DEFINE D == DOMAIN s
  <2>1. IsFiniteSet(D) /\ \A j \in D : lens(w)[j] = w[j].rec /\ lens(w)[j] \in Nat
    BY <1>1, LensFacts
  <2>2. \A j \in D : lens(s)[j] = s[j].rec /\ lens(s)[j] \in Nat
    BY LensFacts
  <2>3. \A j \in D \ {k} : lens(w)[j] = lens(s)[j]
    BY <1>1, <2>1, <2>2
  <2>4. lens(w)[k] = e.rec /\ lens(s)[k] = s[k].rec
    BY <1>1, <2>1, <2>2
  <2> HIDE DEF D
  <2>5. Total(lens(w), D \ {k}) = Total(lens(s), D \ {k})
    BY <2>3, TotalSame
  <2>6. k \in D
    BY DEF D
  <2>7. Total(lens(w), D) = Total(lens(w), D \ {k}) + lens(w)[k] /\ Total(lens(w), D \ {k}) \in Nat
    BY <2>1, <2>6, TotalSplit
  <2>8. Total(lens(s), D) = Total(lens(s), D \ {k}) + lens(s)[k]
    BY <2>1, <2>2, <2>6, TotalSplit
  <2>9. Total(lens(s), D) <= BlockSize
    BY DEF Fit, D
  <2>10. Total(lens(w), D) <= BlockSize
    BY <1>2, <2>4, <2>5, <2>7, <2>8, <2>9, DirAssumption
  <2>11. QED
    BY <1>1, <2>10 DEF D
<1>4. \A j \in DOMAIN w : w[j].rec >= Need[w[j].name]
  BY <1>1 DEF Fit
<1>5. ASSUME NEW j \in DOMAIN w, NEW l \in TooLong, j < Len(w)
      PROVE  w[j].rec <= Need[l]
  <2>1. j \in DOMAIN s /\ s[j].rec <= Need[l]
    BY <1>1, <1>5 DEF Fit
  <2>2. Need[l] \in Nat
    BY NeedFacts, DirAssumption
  <2>3. QED
    BY <1>1, <1>2, <2>1, <2>2
<1>6. QED
  BY <1>1, <1>3, <1>4, <1>5 DEF Fit, w

\* Sequence w is u with e behind its k-th element.
IsInsert(u, k, e, w) ==
    /\ w = InsertAt(u, k + 1, e) /\ Len(w) = Len(u) + 1
    /\ \A j \in 1 .. Len(u) + 1 : w[j] = IF j <= k THEN u[j] ELSE IF j = k + 1 THEN e ELSE u[j - 1]

\* What InsertAt makes.
LEMMA InsertShape ==
  ASSUME NEW R, NEW u \in Seq(R), NEW k \in 1 .. Len(u), NEW e \in R
  PROVE  \E w \in Seq(R) : IsInsert(u, k, e, w)
<1>1. Len(u) \in Nat /\ k \in Nat /\ 1 <= k /\ k <= Len(u)
  OBVIOUS
<1>2. \E v \in Seq(R) : v = SubSeq(u, 1, k) /\ Len(v) = k /\ \A j \in 1 .. k : v[j] = u[j]
  <2>1. \A i \in 1 .. k : i \in 1 .. Len(u)
    BY <1>1
  <2>2. /\ SubSeq(u, 1, k) \in Seq(R)
        /\ Len(SubSeq(u, 1, k)) = IF 1 <= k THEN k - 1 + 1 ELSE 0
        /\ \A i \in 1 .. k - 1 + 1 : SubSeq(u, 1, k)[i] = u[1 + i - 1]
    BY <1>1, <2>1, SubSeqProperties
  <2> DEFINE v == SubSeq(u, 1, k)
  <2> HIDE DEF v
  <2>3. Len(v) = k /\ \A i \in 1 .. k : v[i] = u[i]
    BY <1>1, <2>2 DEF v
  <2>4. QED
    BY <2>2, <2>3 DEF v
<1>3. \E x \in Seq(R) : /\ x = SubSeq(u, k + 1, Len(u)) /\ Len(x) = Len(u) - k
                         /\ \A j \in 1 .. Len(u) - k : x[j] = u[k + j]
  <2>1. \A i \in k + 1 .. Len(u) : i \in 1 .. Len(u)
    BY <1>1
  <2>2. /\ SubSeq(u, k + 1, Len(u)) \in Seq(R)
        /\ Len(SubSeq(u, k + 1, Len(u))) = IF k + 1 <= Len(u) THEN Len(u) - (k + 1) + 1 ELSE 0
        /\ \A i \in 1 .. Len(u) - (k + 1) + 1 : SubSeq(u, k + 1, Len(u))[i] = u[k + 1 + i - 1]
    BY <1>1, <2>1, SubSeqProperties
  <2> DEFINE x == SubSeq(u, k + 1, Len(u))
  <2> HIDE DEF x
  <2>3. Len(x) = Len(u) - k /\ \A i \in 1 .. Len(u) - k : x[i] = u[k + i]
    BY <1>1, <2>2 DEF x
  <2>4. QED
    BY <2>2, <2>3 DEF x
<1>4. PICK v \in Seq(R) : v = SubSeq(u, 1, k) /\ Len(v) = k /\ \A j \in 1 .. k : v[j] = u[j]
  BY <1>2
<1>5. PICK x \in Seq(R) : /\ x = SubSeq(u, k + 1, Len(u)) /\ Len(x) = Len(u) - k
                          /\ \A j \in 1 .. Len(u) - k : x[j] = u[k + j]
  BY <1>3
<1>6. InsertAt(u, k + 1, e) = v \o <<e>> \o x
  <2>1. (k + 1) - 1 = k
    BY <1>1
  <2>2. QED
    BY <1>4, <1>5, <2>1 DEF InsertAt
<1>7. PICK w : w = v \o <<e>> \o x
  OBVIOUS
<1>8. /\ w \in Seq(R) /\ Len(w) = Len(u) + 1
      /\ \A j \in 1 .. Len(u) + 1 : w[j] = IF j <= k THEN v[j] ELSE IF j = k + 1 THEN e ELSE x[j - (k + 1)]
  <2> DEFINE y == v \o <<e>>
  <2>1. Len(v) = k /\ Len(x) = Len(u) - k
    BY <1>4, <1>5
  <2>2. /\ y \in Seq(R) /\ Len(y) = k + 1
        /\ \A j \in 1 .. k + 1 : y[j] = IF j <= k THEN v[j] ELSE e
    <3>1. <<e>> \in Seq(R) /\ Len(<<e>>) = 1 /\ <<e>>[1] = e
      OBVIOUS
    <3>2. /\ y \in Seq(R) /\ Len(y) = Len(v) + 1
          /\ \A j \in 1 .. Len(v) + 1 : y[j] = IF j <= Len(v) THEN v[j] ELSE <<e>>[j - Len(v)]
      BY <3>1, ConcatProperties
    <3>3. \A j \in 1 .. k + 1 : ~(j <= k) => j - k = 1
      BY <1>1
    <3> HIDE DEF y
    <3>4. QED
      BY <1>1, <2>1, <3>1, <3>2, <3>3
  <2> HIDE DEF y
  <2>3. /\ y \o x \in Seq(R) /\ Len(y \o x) = Len(y) + Len(x)
        /\ \A j \in 1 .. Len(y) + Len(x) : (y \o x)[j] = IF j <= Len(y) THEN y[j] ELSE x[j - Len(y)]
    BY <2>2, ConcatProperties
  <2>4. w = y \o x
    BY <1>7 DEF y
  <2>5. Len(y) + Len(x) = Len(u) + 1
    BY <1>1, <2>1, <2>2
  <2>6. w \in Seq(R) /\ Len(w) = Len(u) + 1
        /\ \A j \in 1 .. Len(u) + 1 : w[j] = IF j <= k + 1 THEN y[j] ELSE x[j - (k + 1)]
    BY <2>2, <2>3, <2>4, <2>5
  <2>7. ASSUME NEW j \in 1 .. Len(u) + 1
        PROVE  w[j] = IF j <= k THEN v[j] ELSE IF j = k + 1 THEN e ELSE x[j - (k + 1)]
    BY <1>1, <2>2, <2>6
  <2>8. QED
    BY <2>6, <2>7
<1>9. ASSUME NEW j \in 1 .. Len(u) + 1
      PROVE  w[j] = IF j <= k THEN u[j] ELSE IF j = k + 1 THEN e ELSE u[j - 1]
  <2>1. CASE j <= k
    BY <1>1, <1>4, <1>8, <2>1
  <2>2. CASE j = k + 1
    BY <1>1, <1>8, <2>2
  <2>3. CASE j > k + 1
    <3>1. PICK i \in 1 .. Len(u) - k : i = j - (k + 1) /\ k + i = j - 1
      BY <1>1, <2>3
    <3>2. w[j] = x[i]
      BY <1>1, <1>8, <2>3, <3>1
    <3>3. x[i] = u[k + i]
      BY <1>5
    <3>4. QED
      BY <1>1, <2>3, <3>1, <3>2, <3>3
  <2>4. QED
    BY <1>1, <2>1, <2>2, <2>3
<1>10. w \in Seq(R) /\ w = InsertAt(u, k + 1, e) /\ Len(w) = Len(u) + 1
  BY <1>6, <1>7, <1>8
<1>11. QED
  BY <1>9, <1>10 DEF IsInsert

\* Block w is block s with record k split into a and e.
IsSplit(s, k, a, e, w) ==
    /\ w \in Block /\ Len(w) = Len(s) + 1 /\ DOMAIN w = 1 .. Len(s) + 1
    /\ \A j \in 1 .. Len(s) + 1 :
          w[j] = IF j < k THEN s[j] ELSE IF j = k THEN a ELSE IF j = k + 1 THEN e ELSE s[j - 1]

\* A record that is split in two.
LEMMA SplitShape ==
  ASSUME NEW s \in Block, NEW k \in DOMAIN s, NEW a \in Record, NEW e \in Record
  PROVE  IsSplit(s, k, a, e, InsertAt([s EXCEPT ![k] = a], k + 1, e))
<1> DEFINE u == [s EXCEPT ![k] = a]
<1>1. u \in Seq(Record) /\ Len(u) = Len(s) /\ \A j \in 1 .. Len(s) : u[j] = IF j = k THEN a ELSE s[j]
  BY DEF Block
<1>2. Len(s) \in Nat /\ k \in 1 .. Len(s)
  BY DEF Block
<1> HIDE DEF u
<1>3. PICK w \in Seq(Record) : IsInsert(u, k, e, w)
  <2>1. k \in 1 .. Len(u)
    BY <1>1, <1>2
  <2>2. u \in Seq(Record)
    BY <1>1
  <2>3. QED
    BY <2>1, <2>2, InsertShape
<1>4. /\ w \in Seq(Record) /\ Len(w) = Len(s) + 1
      /\ \A j \in 1 .. Len(s) + 1 : w[j] = IF j <= k THEN u[j] ELSE IF j = k + 1 THEN e ELSE u[j - 1]
  BY <1>1, <1>3 DEF IsInsert
<1>5. DOMAIN w = 1 .. Len(s) + 1
  BY <1>1, <1>2, <1>4
<1>6. ASSUME NEW j \in 1 .. Len(s) + 1
      PROVE  w[j] = IF j < k THEN s[j] ELSE IF j = k THEN a ELSE IF j = k + 1 THEN e ELSE s[j - 1]
  <2>1. CASE j <= k
    BY <1>1, <1>2, <1>4, <2>1
  <2>2. CASE j = k + 1
    BY <1>1, <1>2, <1>4, <2>2
  <2>3. CASE j > k + 1
    <3>1. j - 1 \in 1 .. Len(s) /\ j - 1 # k
      BY <1>2, <2>3
    <3>2. u[j - 1] = s[j - 1]
      BY <1>1, <3>1, Zenon
    <3>3. j \in Nat /\ k \in Nat /\ ~(j <= k) /\ j # k + 1
      BY <1>2, <2>3
    <3>4. w[j] = u[j - 1]
      BY <1>4, <3>3, Zenon
    <3>5. ~(j < k) /\ j # k
      BY <3>3
    <3>6. QED
      BY <3>2, <3>3, <3>4, <3>5, Zenon
  <2>4. QED
    BY <1>2, <2>1, <2>2, <2>3
<1>7. IsSplit(s, k, a, e, w)
  BY <1>1, <1>4, <1>5, <1>6 DEF IsSplit, Block
<1>8. QED
  BY <1>3, <1>7 DEF u, IsInsert

\* The two parts are as long as the record was, so the block stays as it was.
LEMMA SplitFit ==
  ASSUME NEW s \in Block, Fit(s), NEW k \in DOMAIN s, NEW a \in Record, NEW e \in Record,
         a.rec + e.rec = s[k].rec, a.rec >= Need[a.name], e.rec >= Need[e.name],
         a.name \in Stored, a.rec = Need[a.name],
         NEW w, IsSplit(s, k, a, e, w)
  PROVE  Fit(w)
<1>1. /\ w \in Block /\ Len(w) = Len(s) + 1 /\ DOMAIN w = 1 .. Len(s) + 1
      /\ \A j \in 1 .. Len(s) + 1 :
            w[j] = IF j < k THEN s[j] ELSE IF j = k THEN a ELSE IF j = k + 1 THEN e ELSE s[j - 1]
  BY DEF IsSplit
<1>2. /\ DOMAIN s = 1 .. Len(s) /\ Len(s) \in Nat /\ k \in 1 .. Len(s)
      /\ a.rec \in Nat /\ e.rec \in Nat /\ s[k].rec \in Nat
  BY RecordFacts DEF Record, Block
<1>3. Total(lens(w), DOMAIN w) <= BlockSize
  <2> DEFINE D == DOMAIN s
             F == DOMAIN w
             O == D \ {k}
             P == (F \ {k}) \ {k + 1}
             p == [j \in O |-> IF j < k THEN j ELSE j + 1]
  <2>1. IsFiniteSet(D) /\ \A j \in D : lens(s)[j] = s[j].rec /\ lens(s)[j] \in Nat
    BY LensFacts
  <2>2. IsFiniteSet(F) /\ \A j \in F : lens(w)[j] = w[j].rec /\ lens(w)[j] \in Nat
    BY <1>1, LensFacts
  <2>3. \A j \in O : p[j] \in P
    BY <1>1, <1>2
  <2>4. p \in [O -> P]
    BY <2>3
  <2>5. \A x, y \in O : p[x] = p[y] => x = y
    BY <1>2
  <2>6. \A z \in P : \E x \in O : p[x] = z
    <3> TAKE z \in P
    <3>1. z \in 1 .. Len(s) + 1 /\ z # k /\ z # k + 1
      BY <1>1
    <3>2. CASE z < k
      BY <1>2, <3>1, <3>2
    <3>3. CASE z > k
      <4>1. z - 1 \in O /\ ~(z - 1 < k) /\ (z - 1) + 1 = z
        BY <1>2, <3>1, <3>3
      <4>2. QED
        BY <4>1
    <3>4. QED
      BY <1>2, <3>1, <3>2, <3>3
  <2>7. ASSUME NEW x \in O PROVE lens(w)[p[x]] = lens(s)[x]
    <3>1. w[p[x]] = s[x]
      <4>1. x \in 1 .. Len(s) /\ x # k /\ k \in Nat /\ Len(s) \in Nat
        BY <1>2
      <4>2. CASE x < k
        <5>1. p[x] = x /\ x \in 1 .. Len(s) + 1
          BY <4>1, <4>2
        <5>2. QED
          BY <1>1, <4>2, <5>1
      <4>3. CASE x > k
        <5>1. p[x] = x + 1
          BY <4>1, <4>3
        <5>2. x + 1 \in 1 .. Len(s) + 1 /\ ~(x + 1 < k) /\ x + 1 # k /\ x + 1 # k + 1 /\ (x + 1) - 1 = x
          BY <4>1, <4>3
        <5>3. w[x + 1] = s[(x + 1) - 1]
          BY <1>1, <5>2
        <5>4. QED
          BY <5>1, <5>2, <5>3
      <4>4. QED
        BY <4>1, <4>2, <4>3
    <3>2. p[x] \in F /\ x \in D
      BY <2>3
    <3>3. QED
      BY <2>1, <2>2, <3>1, <3>2
  <2>8. IsFiniteSet(O)
    BY <2>1, FS_RemoveElement
  <2>9. \A j \in O : lens(s)[j] \in Nat
    BY <2>1
  <2>10. k \in D /\ k \in F /\ k + 1 \in F \ {k}
    BY <1>1, <1>2
  <2>11. lens(w)[k] = a.rec /\ lens(w)[k + 1] = e.rec /\ lens(s)[k] = s[k].rec
    <3>1. w[k] = a /\ w[k + 1] = e
      BY <1>1, <1>2
    <3>2. QED
      BY <2>1, <2>2, <2>10, <3>1
  <2>12. IsFiniteSet(F \ {k}) /\ \A j \in F \ {k} : lens(w)[j] \in Nat
    BY <2>2, FS_RemoveElement
  <2>13. Total(lens(s), D) <= BlockSize
    BY DEF Fit
  <2> HIDE DEF D, F, p
  <2>14. Total(lens(s), O) = Total(lens(w), P)
    <3> HIDE DEF O, P
    <3> QED
      BY <2>4, <2>5, <2>6, <2>7, <2>8, <2>9, TotalMoved
  <2>15. Total(lens(s), D) = Total(lens(s), O) + lens(s)[k] /\ Total(lens(s), O) \in Nat
    BY <2>1, <2>10, TotalSplit
  <2>16. Total(lens(w), F) = Total(lens(w), F \ {k}) + lens(w)[k]
    BY <2>2, <2>10, TotalSplit
  <2>17. Total(lens(w), F \ {k}) = Total(lens(w), P) + lens(w)[k + 1]
    BY <2>12, <2>10, TotalSplit
  <2>18. Total(lens(w), F) = Total(lens(s), D)
    <3> HIDE DEF O, P
    <3> QED
      BY <1>2, <2>11, <2>14, <2>15, <2>16, <2>17
  <2>19. QED
    BY <2>13, <2>18 DEF F
<1>4. \A j \in DOMAIN w : w[j].rec >= Need[w[j].name]
  <2> TAKE j \in DOMAIN w
  <2>1. w[j] = a \/ w[j] = e \/ \E i \in DOMAIN s : w[j] = s[i]
    <3>1. j \in 1 .. Len(s) + 1
      BY <1>1
    <3>2. j < k => j \in DOMAIN s
      BY <1>2, <3>1
    <3>3. j > k + 1 => j - 1 \in DOMAIN s
      BY <1>2, <3>1
    <3>4. j < k \/ j = k \/ j = k + 1 \/ (j > k + 1 /\ ~(j < k) /\ j # k)
      BY <1>2, <3>1
    <3>5. w[j] = IF j < k THEN s[j] ELSE IF j = k THEN a ELSE IF j = k + 1 THEN e ELSE s[j - 1]
      BY <1>1, <3>1
    <3>6. QED
      BY <3>2, <3>3, <3>4, <3>5
  <2>2. QED
    BY <2>1 DEF Fit
<1>5. ASSUME NEW j \in DOMAIN w, NEW l \in TooLong, j < Len(w)
      PROVE  w[j].rec <= Need[l]
  <2>1. Need[l] \in Nat /\ a.rec <= Need[l]
    BY NeedFacts
  <2>2. \A i \in DOMAIN s : i < Len(s) => s[i].rec <= Need[l]
    BY DEF Fit
  <2>3. CASE j < k
    BY <1>1, <1>2, <2>2, <2>3
  <2>4. CASE j = k
    BY <1>1, <1>2, <2>1, <2>4
  <2>5. CASE j = k + 1
    <3>1. w[j] = e /\ k < Len(s)
      BY <1>1, <1>2, <1>5, <2>5
    <3>2. s[k].rec <= Need[l]
      BY <2>2, <3>1
    <3>3. QED
      BY <1>2, <2>1, <3>1, <3>2
  <2>6. CASE j > k + 1
    <3>1. w[j] = s[j - 1] /\ j - 1 \in DOMAIN s /\ j - 1 < Len(s)
      BY <1>1, <1>2, <1>5, <2>6
    <3>2. QED
      BY <2>2, <3>1
  <2>7. QED
    BY <1>1, <1>2, <2>3, <2>4, <2>5, <2>6
<1>6. QED
  BY <1>3, <1>4, <1>5 DEF Fit

-------------------------------------------------------------------------------
\* What happens to the entries of a block.
Added(s, w, n, i, t) ==
    \A m, j, u : InBlock(w, m, j, u) <=> InBlock(s, m, j, u) \/ (m = n /\ j = i /\ u = t)
SameIn(s, w) == \A m, j, u : InBlock(w, m, j, u) <=> InBlock(s, m, j, u)
Removed(s, w, n) == \A m, j, u : InBlock(w, m, j, u) <=> InBlock(s, m, j, u) /\ m # n

\* A change of lengths shows in no entry.
LEMMA LengthsHideEntries ==
  ASSUME NEW s \in Block, NEW w \in Block, DOMAIN w = DOMAIN s,
         \A k \in DOMAIN s : w[k].name = s[k].name /\ w[k].ino = s[k].ino /\ w[k].type = s[k].type
  PROVE  SameIn(s, w) /\ (Once(s) => Once(w))
<1>1. SameIn(s, w)
  BY DEF SameIn, InBlock
<1>2. Once(s) => Once(w)
  BY DEF Once
<1>3. QED
  BY <1>1, <1>2

\* Block w is block s with e as its k-th record.
IsUpdate(s, k, e, w) ==
    /\ DOMAIN w = DOMAIN s
    /\ \A j \in DOMAIN s : w[j] = IF j = k THEN e ELSE s[j]

\* A free record that gets an entry.
LEMMA ReuseEntries ==
  ASSUME NEW s \in Block, Once(s), NEW k \in DOMAIN s, s[k].ino = NoInode,
         NEW n, NEW i \in Inode, NEW t, holds(s, n) = {},
         NEW w, NEW e, IsUpdate(s, k, e, w), e.name = n, e.ino = i, e.type = t
  PROVE  Once(w) /\ Added(s, w, n, i, t)
<1> USE DEF IsUpdate
<1>1. i # NoInode
  BY DirAssumption
<1>2. \A j \in DOMAIN s : s[j].ino # NoInode => s[j].name # n
  BY DEF holds
<1>3. Once(w)
  BY <1>1, <1>2 DEF Once
<1>4. ASSUME NEW m, NEW j, NEW u
      PROVE  InBlock(w, m, j, u) <=> InBlock(s, m, j, u) \/ (m = n /\ j = i /\ u = t)
  <2>1. ASSUME InBlock(w, m, j, u) PROVE InBlock(s, m, j, u) \/ (m = n /\ j = i /\ u = t)
    BY <2>1 DEF InBlock
  <2>2. ASSUME InBlock(s, m, j, u) PROVE InBlock(w, m, j, u)
    <3>1. PICK l \in DOMAIN s :
             s[l].ino # NoInode /\ s[l].name = m /\ s[l].ino = j /\ s[l].type = u
      BY <2>2 DEF InBlock
    <3>2. l # k /\ w[l] = s[l]
      BY <3>1
    <3>3. QED
      BY <3>1, <3>2 DEF InBlock
  <2>3. ASSUME m = n, j = i, u = t PROVE InBlock(w, m, j, u)
    <3>1. w[k] = e /\ k \in DOMAIN w
      OBVIOUS
    <3>2. QED
      BY <1>1, <2>3, <3>1 DEF InBlock
  <2>4. QED
    BY <2>1, <2>2, <2>3
<1>5. QED
  BY <1>3, <1>4 DEF Added

\* A record that is split, with the new entry in the second part.
LEMMA SplitEntries ==
  ASSUME NEW s \in Block, Once(s), NEW k \in DOMAIN s,
         NEW n, NEW i \in Inode, NEW t, holds(s, n) = {},
         NEW a, NEW e, NEW w, IsSplit(s, k, a, e, w),
         a.name = s[k].name, a.ino = s[k].ino, a.type = s[k].type,
         e.name = n, e.ino = i, e.type = t
  PROVE  Once(w) /\ Added(s, w, n, i, t)
<1>1. i # NoInode
  BY DirAssumption
<1>2. \A j \in DOMAIN s : s[j].ino # NoInode => s[j].name # n
  BY DEF holds
<1>3. DOMAIN s = 1 .. Len(s) /\ Len(s) \in Nat /\ k \in 1 .. Len(s) /\ DOMAIN w = 1 .. Len(s) + 1
  BY DEF Block, IsSplit
<1> DEFINE up(j) == IF j <= k THEN j ELSE j + 1
<1>4. ASSUME NEW j \in DOMAIN s
      PROVE  /\ up(j) \in DOMAIN w /\ up(j) # k + 1
             /\ w[up(j)].name = s[j].name /\ w[up(j)].ino = s[j].ino /\ w[up(j)].type = s[j].type
  <2>1. j \in 1 .. Len(s)
    BY <1>3
  <2>2. up(j) \in 1 .. Len(s) + 1 /\ up(j) # k + 1
    BY <1>3, <2>1
  <2>3. w[up(j)] = IF up(j) < k THEN s[up(j)] ELSE IF up(j) = k THEN a
                   ELSE IF up(j) = k + 1 THEN e ELSE s[up(j) - 1]
    BY <2>2 DEF IsSplit
  <2>4. CASE j < k
    BY <1>3, <2>1, <2>2, <2>3, <2>4
  <2>5. CASE j = k
    BY <1>3, <2>1, <2>2, <2>3, <2>5
  <2>6. CASE j > k
    <3>1. up(j) = j + 1 /\ ~(j + 1 < k) /\ j + 1 # k /\ j + 1 # k + 1 /\ (j + 1) - 1 = j
      BY <1>3, <2>1, <2>6
    <3>2. w[j + 1] = s[(j + 1) - 1]
      BY <2>3, <3>1
    <3>3. QED
      BY <1>3, <2>2, <3>1, <3>2
  <2>7. QED
    BY <1>3, <2>1, <2>4, <2>5, <2>6
<1>5. ASSUME NEW l \in DOMAIN w, l # k + 1
      PROVE  \E j \in DOMAIN s : up(j) = l
  <2>1. CASE l <= k
    BY <1>3, <2>1
  <2>2. CASE l > k
    <3>1. l - 1 \in 1 .. Len(s) /\ ~(l - 1 <= k) /\ (l - 1) + 1 = l
      BY <1>3, <1>5, <2>2
    <3>2. QED
      BY <1>3, <3>1
  <2>3. QED
    BY <1>3, <2>1, <2>2
<1>6. k + 1 \in DOMAIN w /\ w[k + 1] = e
  <2>1. k + 1 \in 1 .. Len(s) + 1 /\ ~(k + 1 < k) /\ k + 1 # k
    BY <1>3
  <2>2. QED
    BY <1>3, <2>1 DEF IsSplit
<1> HIDE DEF up
<1>7. Once(w)
  <2> SUFFICES ASSUME NEW l1 \in DOMAIN w, NEW l2 \in DOMAIN w,
                      w[l1].ino # NoInode, w[l2].ino # NoInode, w[l1].name = w[l2].name
               PROVE  l1 = l2
    BY DEF Once
  <2>1. CASE l1 = k + 1 /\ l2 # k + 1
    <3>1. PICK j \in DOMAIN s : up(j) = l2
      BY <1>5, <2>1
    <3>2. s[j].ino # NoInode /\ s[j].name = n
      BY <1>4, <1>6, <2>1, <3>1
    <3>3. QED
      BY <1>2, <3>2
  <2>2. CASE l2 = k + 1 /\ l1 # k + 1
    <3>1. PICK j \in DOMAIN s : up(j) = l1
      BY <1>5, <2>2
    <3>2. s[j].ino # NoInode /\ s[j].name = n
      BY <1>4, <1>6, <2>2, <3>1
    <3>3. QED
      BY <1>2, <3>2
  <2>3. CASE l1 # k + 1 /\ l2 # k + 1
    <3>1. PICK j1 \in DOMAIN s : up(j1) = l1
      BY <1>5, <2>3
    <3>2. PICK j2 \in DOMAIN s : up(j2) = l2
      BY <1>5, <2>3
    <3>3. /\ s[j1].ino # NoInode /\ s[j2].ino # NoInode /\ s[j1].name = s[j2].name
      BY <1>4, <3>1, <3>2
    <3>4. j1 = j2
      BY <3>3 DEF Once
    <3>5. QED
      BY <3>1, <3>2, <3>4
  <2>4. QED
    BY <2>1, <2>2, <2>3
<1>8. ASSUME NEW m, NEW j, NEW u
      PROVE  InBlock(w, m, j, u) <=> InBlock(s, m, j, u) \/ (m = n /\ j = i /\ u = t)
  <2>1. ASSUME InBlock(w, m, j, u) PROVE InBlock(s, m, j, u) \/ (m = n /\ j = i /\ u = t)
    <3>1. PICK l \in DOMAIN w :
             w[l].ino # NoInode /\ w[l].name = m /\ w[l].ino = j /\ w[l].type = u
      BY <2>1 DEF InBlock
    <3>2. CASE l = k + 1
      BY <1>6, <3>1, <3>2
    <3>3. CASE l # k + 1
      <4>1. PICK x \in DOMAIN s : up(x) = l
        BY <1>5, <3>3
      <4>2. s[x].ino # NoInode /\ s[x].name = m /\ s[x].ino = j /\ s[x].type = u
        BY <1>4, <3>1, <4>1
      <4>3. QED
        BY <4>2 DEF InBlock
    <3>4. QED
      BY <3>2, <3>3
  <2>2. ASSUME InBlock(s, m, j, u) PROVE InBlock(w, m, j, u)
    <3>1. PICK x \in DOMAIN s :
             s[x].ino # NoInode /\ s[x].name = m /\ s[x].ino = j /\ s[x].type = u
      BY <2>2 DEF InBlock
    <3>2. up(x) \in DOMAIN w /\ w[up(x)].ino # NoInode /\ w[up(x)].name = m
          /\ w[up(x)].ino = j /\ w[up(x)].type = u
      BY <1>4, <3>1
    <3>3. QED
      BY <3>2 DEF InBlock
  <2>3. ASSUME m = n, j = i, u = t PROVE InBlock(w, m, j, u)
    BY <1>1, <1>6, <2>3 DEF InBlock
  <2>4. QED
    BY <2>1, <2>2, <2>3
<1>9. QED
  BY <1>7, <1>8 DEF Added

\* Where add_to_block works: the first record with room.
LEMMA FirstRoom ==
  ASSUME NEW s \in Block, NEW n, room(s, n) # {}
  PROVE  /\ Min(room(s, n)) \in DOMAIN s
         /\ \/ fits_free(s[Min(room(s, n))], n)
            \/ fits_behind(s[Min(room(s, n))], n)
<1>1. room(s, n) \in SUBSET Nat
  BY LensFacts DEF room
<1>2. Min(room(s, n)) \in room(s, n)
  BY <1>1, MinIsLeast
<1>3. QED
  BY <1>2 DEF room

\* The record cut back to its name.
LEMMA ShrunkFacts ==
  ASSUME NEW s \in Block, NEW k \in DOMAIN s
  PROVE  /\ shrunk(s[k]) \in Record /\ shrunk(s[k]).rec = Need[s[k].name]
         /\ shrunk(s[k]).name = s[k].name /\ shrunk(s[k]).ino = s[k].ino
         /\ shrunk(s[k]).type = s[k].type
<1>1. s[k] \in Record /\ s[k].name \in Stored
  BY RecordFacts
<1>2. Need[s[k].name] \in Nat
  BY <1>1, NeedFacts
<1>3. QED
  BY <1>1, <1>2 DEF shrunk, Record

\* A new name takes the place found, and no entry is lost or hidden.
LEMMA AddToBlock ==
  ASSUME NEW s \in Block, Fit(s), Once(s), NEW n \in Name \ TooLong, NEW i \in Inode,
         NEW t \in FileType, holds(s, n) = {}, room(s, n) # {}
  PROVE  /\ add_to_block(s, n, i, t) \in Block
         /\ Fit(add_to_block(s, n, i, t))
         /\ Once(add_to_block(s, n, i, t))
         /\ Added(s, add_to_block(s, n, i, t), n, i, t)
<1>1. PICK k \in DOMAIN s : /\ k = Min(room(s, n))
                            /\ fits_free(s[k], n) \/ fits_behind(s[k], n)
  BY FirstRoom
<1>2. /\ s[k] \in Record /\ s[k].rec \in Nat /\ s[k].name \in Stored /\ n \in Stored
      /\ Need[n] \in Nat /\ Need[s[k].name] \in Nat /\ Need[n] >= 1
  BY RecordFacts, NeedFacts DEF Stored
<1>3. CASE fits_free(s[k], n)
  <2> DEFINE e == record(n, i, t, s[k].rec)
             w == [s EXCEPT ![k] = e]
  <2>1. add_to_block(s, n, i, t) = w
    BY <1>1, <1>3 DEF add_to_block
  <2>2. e \in Record /\ e.rec = s[k].rec /\ e.name = n /\ e.ino = i /\ e.type = t
    BY <1>2 DEF record, Record
  <2>3. e.rec >= Need[n] /\ s[k].ino = NoInode
    BY <1>3, <2>2 DEF fits_free
  <2>4. DOMAIN w = DOMAIN s /\ \A j \in DOMAIN s : w[j] = IF j = k THEN e ELSE s[j]
    BY DEF Block
  <2> HIDE DEF e
  <2>5. w \in Block /\ Fit(w)
    BY <1>2, <2>2, <2>3, SetRecord
  <2> HIDE DEF w
  <2>6. Once(w) /\ Added(s, w, n, i, t)
    <3>1. IsUpdate(s, k, e, w)
      BY <2>4 DEF IsUpdate
    <3>2. QED
      BY <2>2, <2>3, <3>1, ReuseEntries
  <2>7. QED
    BY <2>1, <2>5, <2>6
<1>4. CASE ~fits_free(s[k], n)
  <2> DEFINE a == shrunk(s[k])
             e == record(n, i, t, s[k].rec - Need[s[k].name])
             w == InsertAt([s EXCEPT ![k] = a], k + 1, e)
  <2>1. add_to_block(s, n, i, t) = w
    BY <1>1, <1>4 DEF add_to_block
  <2>2. s[k].rec >= Need[s[k].name] + Need[n]
    BY <1>1, <1>4 DEF fits_behind
  <2>3. s[k].rec - Need[s[k].name] \in Nat /\ s[k].rec - Need[s[k].name] >= Need[n]
    BY <1>2, <2>2
  <2>4. /\ e \in Record /\ e.rec = s[k].rec - Need[s[k].name]
        /\ e.name = n /\ e.ino = i /\ e.type = t
    BY <1>2, <2>3 DEF record, Record
  <2>5. /\ a \in Record /\ a.rec = Need[s[k].name] /\ a.name = s[k].name /\ a.ino = s[k].ino
        /\ a.type = s[k].type
    BY ShrunkFacts
  <2> HIDE DEF a, e
  <2>6. IsSplit(s, k, a, e, w)
    BY <2>4, <2>5, SplitShape
  <2>7. w \in Block
    BY <2>6 DEF IsSplit
  <2> HIDE DEF w
  <2>8. a.rec + e.rec = s[k].rec /\ a.rec >= Need[a.name] /\ e.rec >= Need[e.name]
        /\ a.name \in Stored /\ a.rec = Need[a.name]
    BY <1>2, <2>3, <2>4, <2>5
  <2>9. Fit(w)
    BY <2>4, <2>5, <2>6, <2>8, SplitFit
  <2>10. Once(w) /\ Added(s, w, n, i, t)
    BY <2>4, <2>5, <2>6, SplitEntries
  <2>11. QED
    BY <2>1, <2>7, <2>9, <2>10
<1>5. QED
  BY <1>3, <1>4

\* A name that is too long costs the room behind the last record at most.
LEMMA CutBlock ==
  ASSUME NEW s \in Block, Fit(s), Once(s), NEW n \in TooLong, NEW i, NEW t, room(s, n) # {}
  PROVE  /\ add_to_block(s, n, i, t) \in Block
         /\ Fit(add_to_block(s, n, i, t))
         /\ Once(add_to_block(s, n, i, t))
         /\ SameIn(s, add_to_block(s, n, i, t))
<1>1. PICK k \in DOMAIN s : /\ k = Min(room(s, n))
                            /\ fits_free(s[k], n) \/ fits_behind(s[k], n)
  BY FirstRoom
<1>2. CASE fits_free(s[k], n)
  <2>1. add_to_block(s, n, i, t) = s
    BY <1>1, <1>2 DEF add_to_block
  <2>2. QED
    BY <2>1 DEF SameIn
<1>3. CASE ~fits_free(s[k], n)
  <2> DEFINE w == [s EXCEPT ![k] = shrunk(s[k])]
  <2>1. add_to_block(s, n, i, t) = cut(s, k)
    BY <1>1, <1>3 DEF add_to_block
  <2>2. s[k].rec >= Need[s[k].name] + Need[n]
    BY <1>1, <1>3 DEF fits_behind
  <2>3. /\ s[k].rec \in Nat /\ s[k].name \in Stored /\ k \in 1 .. Len(s) /\ Len(s) \in Nat
        /\ DOMAIN s = 1 .. Len(s)
    BY RecordFacts DEF Block
  <2>4. Need[s[k].name] \in Nat /\ Need[s[k].name] >= 1 /\ Need[n] \in Nat
    BY <2>3, NeedFacts, DirAssumption
  <2>5. k = Len(s)
    <3>1. k < Len(s) => s[k].rec <= Need[n]
      BY DEF Fit
    <3>2. QED
      BY <2>2, <2>3, <2>4, <3>1
  <2>6. /\ shrunk(s[k]) \in Record /\ shrunk(s[k]).rec = Need[s[k].name]
        /\ shrunk(s[k]).name = s[k].name /\ shrunk(s[k]).ino = s[k].ino
        /\ shrunk(s[k]).type = s[k].type
    BY ShrunkFacts
  <2>7. w \in Block /\ Fit(w)
    <3>1. shrunk(s[k]).rec <= s[k].rec /\ shrunk(s[k]).rec >= Need[shrunk(s[k]).name]
      BY <2>2, <2>3, <2>4, <2>6
    <3>2. QED
      BY <2>6, <3>1, SetRecord
  <2>8. DOMAIN w = DOMAIN s /\ Len(w) = Len(s)
        /\ \A j \in DOMAIN s : w[j] = IF j = k THEN shrunk(s[k]) ELSE s[j]
    BY DEF Block
  <2> HIDE DEF w
  <2>9. cut(s, k) = w
    <3> DEFINE v == SubSeq(s, 1, k - 1)
    <3>1. \A j \in 1 .. k - 1 : s[j] \in Record
      BY <2>3 DEF Block
    <3>2. /\ v \in Seq(Record)
          /\ Len(v) = IF 1 <= k - 1 THEN (k - 1) - 1 + 1 ELSE 0
          /\ \A j \in 1 .. (k - 1) - 1 + 1 : v[j] = s[1 + j - 1]
      BY <2>3, <3>1, SubSeqProperties
    <3>3. cut(s, k) = Append(v, shrunk(s[k]))
      BY DEF cut
    <3> HIDE DEF v
    <3>4. Len(v) = k - 1 /\ \A j \in 1 .. k - 1 : v[j] = s[j]
      BY <2>3, <3>2
    <3>5. PICK x : x = Append(v, shrunk(s[k]))
      OBVIOUS
    <3>6. /\ x \in Seq(Record) /\ Len(x) = k
          /\ \A j \in 1 .. k : x[j] = IF j = k THEN shrunk(s[k]) ELSE v[j]
      BY <2>3, <2>6, <3>2, <3>4, <3>5
    <3>7. w \in Seq(Record) /\ Len(w) = k /\ \A j \in 1 .. k : w[j] = x[j]
      <4>1. w \in Seq(Record) /\ Len(w) = k
        BY <2>5, <2>7, <2>8 DEF Block
      <4>2. ASSUME NEW j \in 1 .. k PROVE w[j] = x[j]
        <5>1. j \in DOMAIN s /\ (j # k => j \in 1 .. k - 1)
          BY <2>3
        <5>2. QED
          BY <2>8, <3>4, <3>6, <5>1
      <4>3. QED
        BY <4>1, <4>2
    <3>8. w = x
      BY <3>6, <3>7
    <3>9. QED
      BY <3>3, <3>5, <3>8
  <2>10. \A j \in DOMAIN s : w[j].name = s[j].name /\ w[j].ino = s[j].ino /\ w[j].type = s[j].type
    BY <2>6, <2>8
  <2>11. SameIn(s, w) /\ Once(w)
    BY <2>7, <2>8, <2>10, LengthsHideEntries
  <2>12. QED
    BY <2>1, <2>7, <2>9, <2>11
<1>4. QED
  BY <1>2, <1>3

\* The entry taken out of its block: the record stays, and no other entry goes.
LEMMA RemoveFromBlock ==
  ASSUME NEW s \in Block, Fit(s), Once(s), NEW n, holds(s, n) # {}
  PROVE  /\ [s EXCEPT ![Min(holds(s, n))].ino = NoInode] \in Block
         /\ Fit([s EXCEPT ![Min(holds(s, n))].ino = NoInode])
         /\ Once([s EXCEPT ![Min(holds(s, n))].ino = NoInode])
         /\ Removed(s, [s EXCEPT ![Min(holds(s, n))].ino = NoInode], n)
<1>1. PICK k \in DOMAIN s : k = Min(holds(s, n)) /\ s[k].name = n /\ s[k].ino # NoInode
  <2>1. holds(s, n) \in SUBSET Nat
    BY LensFacts DEF holds
  <2>2. Min(holds(s, n)) \in holds(s, n)
    BY <2>1, MinIsLeast
  <2>3. QED
    BY <2>2 DEF holds
<1> DEFINE e == [s[k] EXCEPT !.ino = NoInode]
           w == [s EXCEPT ![k] = e]
<1>2. [s EXCEPT ![Min(holds(s, n))].ino = NoInode] = w
  BY <1>1
<1>3. s[k] \in Record
  BY RecordFacts
<1>4. e \in Record /\ e.rec = s[k].rec /\ e.name = s[k].name /\ e.ino = NoInode
  BY <1>3 DEF Record
<1>5. DOMAIN w = DOMAIN s /\ \A j \in DOMAIN s : w[j] = IF j = k THEN e ELSE s[j]
  BY DEF Block
<1> HIDE DEF e
<1>6. w \in Block /\ Fit(w)
  <2>1. e.rec <= s[k].rec /\ e.rec >= Need[e.name]
    BY <1>4, RecordFacts DEF Fit
  <2>2. QED
    BY <1>4, <2>1, SetRecord
<1> HIDE DEF w
<1>7. Once(w)
  BY <1>4, <1>5 DEF Once
<1>8. ASSUME NEW m, NEW j, NEW u
      PROVE  InBlock(w, m, j, u) <=> InBlock(s, m, j, u) /\ m # n
  <2>1. ASSUME InBlock(w, m, j, u) PROVE InBlock(s, m, j, u) /\ m # n
    <3>1. PICK l \in DOMAIN s :
             w[l].ino # NoInode /\ w[l].name = m /\ w[l].ino = j /\ w[l].type = u
      BY <1>5, <2>1 DEF InBlock
    <3>2. l # k /\ w[l] = s[l]
      BY <1>4, <1>5, <3>1
    <3>3. m # n
      BY <1>1, <3>1, <3>2 DEF Once
    <3>4. QED
      BY <3>1, <3>2, <3>3 DEF InBlock
  <2>2. ASSUME InBlock(s, m, j, u), m # n PROVE InBlock(w, m, j, u)
    <3>1. PICK l \in DOMAIN s :
             s[l].ino # NoInode /\ s[l].name = m /\ s[l].ino = j /\ s[l].type = u
      BY <2>2 DEF InBlock
    <3>2. l # k /\ w[l] = s[l]
      BY <1>1, <1>5, <2>2, <3>1
    <3>3. QED
      BY <1>5, <3>1, <3>2 DEF InBlock
  <2>3. QED
    BY <2>1, <2>2
<1>9. QED
  BY <1>2, <1>6, <1>7, <1>8 DEF Removed

-------------------------------------------------------------------------------
\* The blocks of a directory.
Holds(B, n, i, t) == \E b \in DOMAIN B : InBlock(B[b], n, i, t)

\* The blocks are well formed, and no name is in two of them.
GoodDir(B) ==
    /\ B \in Seq(Block)
    /\ \A b \in DOMAIN B : Fit(B[b]) /\ Once(B[b])
    /\ \A b, c \in DOMAIN B : \A n : holds(B[b], n) # {} /\ holds(B[c], n) # {} => b = c

DirAdded(B, C, n, i, t) ==
    \A m, j, u : Holds(C, m, j, u) <=> Holds(B, m, j, u) \/ (m = n /\ j = i /\ u = t)
DirSame(B, C) == \A m, j, u : Holds(C, m, j, u) <=> Holds(B, m, j, u)
DirRemoved(B, C, n) == \A m, j, u : Holds(C, m, j, u) <=> Holds(B, m, j, u) /\ m # n

\* A block has a name when it has an entry with it.
LEMMA HasName ==
  ASSUME NEW s, NEW n
  PROVE  holds(s, n) # {} <=> \E i, t : InBlock(s, n, i, t)
BY DEF holds, InBlock

\* So has a directory.
LEMMA OnDisk ==
  ASSUME NEW B, NEW n
  PROVE  on_disk(B, n) # {} <=> \E i, t : Holds(B, n, i, t)
BY HasName DEF on_disk, Holds

\* An entry of a block is of an inode and has a name and a type.
LEMMA EntryTypes ==
  ASSUME NEW s \in Block, NEW n, NEW i, NEW t, InBlock(s, n, i, t)
  PROVE  n \in Stored /\ i \in Inode /\ t \in FileType
BY RecordFacts DEF InBlock

\* A name leads to one entry.
LEMMA HoldsOne ==
  ASSUME NEW B, GoodDir(B), NEW n, NEW i, NEW t, Holds(B, n, i, t)
  PROVE  /\ n \in Stored /\ i \in Inode /\ t \in FileType
         /\ \A j, u : Holds(B, n, j, u) => j = i /\ u = t
<1>1. PICK b \in DOMAIN B : InBlock(B[b], n, i, t)
  BY DEF Holds
<1>2. B[b] \in Block /\ Once(B[b])
  BY DEF GoodDir
<1>3. ASSUME NEW j, NEW u, Holds(B, n, j, u)
      PROVE  j = i /\ u = t
  <2>1. PICK c \in DOMAIN B : InBlock(B[c], n, j, u)
    BY <1>3 DEF Holds
  <2>2. c = b
    <3>1. holds(B[b], n) # {}
      BY <1>1, HasName
    <3>2. holds(B[c], n) # {}
      BY <2>1, HasName
    <3>3. QED
      BY <3>1, <3>2 DEF GoodDir
  <2>3. QED
    BY <1>1, <1>2, <2>1, <2>2 DEF InBlock, Once
<1>4. QED
  BY <1>1, <1>2, <1>3, EntryTypes

\* One block of a directory replaced by another.
LEMMA SetBlock ==
  ASSUME NEW B \in Seq(Block), NEW b \in DOMAIN B, NEW w \in Block
  PROVE  /\ [B EXCEPT ![b] = w] \in Seq(Block)
         /\ IsUpdate(B, b, w, [B EXCEPT ![b] = w])
         /\ Len([B EXCEPT ![b] = w]) = Len(B)
BY DEF IsUpdate

\* What the replacement does to the names of the directory.
LEMMA AddedInBlock ==
  ASSUME NEW B, GoodDir(B), NEW b \in DOMAIN B, NEW w \in Block, Fit(w), Once(w),
         NEW n, NEW i, NEW t, Added(B[b], w, n, i, t), on_disk(B, n) = {}
  PROVE  GoodDir([B EXCEPT ![b] = w]) /\ DirAdded(B, [B EXCEPT ![b] = w], n, i, t)
<1> DEFINE C == [B EXCEPT ![b] = w]
<1>1. C \in Seq(Block) /\ IsUpdate(B, b, w, C)
  BY SetBlock DEF GoodDir
<1> HIDE DEF C
<1>2. \A c \in DOMAIN B : holds(B[c], n) = {}
  BY DEF on_disk
<1>3. DOMAIN C = DOMAIN B /\ C[b] = w /\ \A c \in DOMAIN B : c # b => C[c] = B[c]
  BY <1>1 DEF IsUpdate
<1>4. \A m : holds(w, m) # {} => m = n \/ holds(B[b], m) # {}
  BY HasName DEF Added
<1>5. ASSUME NEW c \in DOMAIN C, NEW e \in DOMAIN C, NEW m, holds(C[c], m) # {}, holds(C[e], m) # {}
      PROVE  c = e
  <2>1. \A x \in DOMAIN B : holds(C[x], m) # {} => holds(B[x], m) # {} \/ (x = b /\ m = n)
    BY <1>3, <1>4
  <2>2. \A x, y \in DOMAIN B : holds(B[x], m) # {} /\ holds(B[y], m) # {} => x = y
    BY DEF GoodDir
  <2>3. QED
    BY <1>2, <1>3, <1>5, <2>1, <2>2
<1>6. \A c \in DOMAIN C : Fit(C[c]) /\ Once(C[c])
  BY <1>3 DEF GoodDir
<1>7. GoodDir(C)
  BY <1>1, <1>5, <1>6 DEF GoodDir
<1>8. DirAdded(B, C, n, i, t)
  BY <1>3 DEF DirAdded, Holds, Added
<1>9. QED
  BY <1>7, <1>8 DEF C

\* A replacement with the same entries.
LEMMA SameInBlock ==
  ASSUME NEW B, GoodDir(B), NEW b \in DOMAIN B, NEW w \in Block, Fit(w), Once(w), SameIn(B[b], w)
  PROVE  GoodDir([B EXCEPT ![b] = w]) /\ DirSame(B, [B EXCEPT ![b] = w])
<1> DEFINE C == [B EXCEPT ![b] = w]
<1>1. C \in Seq(Block) /\ IsUpdate(B, b, w, C)
  BY SetBlock DEF GoodDir
<1> HIDE DEF C
<1>2. DOMAIN C = DOMAIN B /\ C[b] = w /\ \A c \in DOMAIN B : c # b => C[c] = B[c]
  BY <1>1 DEF IsUpdate
<1>3. \A c \in DOMAIN B : \A m : holds(C[c], m) # {} => holds(B[c], m) # {}
  BY <1>2, HasName DEF SameIn
<1>4. \A c \in DOMAIN C : Fit(C[c]) /\ Once(C[c])
  BY <1>2 DEF GoodDir
<1>5. GoodDir(C)
  BY <1>1, <1>2, <1>3, <1>4 DEF GoodDir
<1>6. DirSame(B, C)
  BY <1>2 DEF DirSame, Holds, SameIn
<1>7. QED
  BY <1>5, <1>6 DEF C

\* dir_remove_entry takes the name out of the directory, and nothing else.
LEMMA RemoveEntry ==
  ASSUME NEW B, GoodDir(B), NEW n, on_disk(B, n) # {}
  PROVE  /\ GoodDir(dir_remove_entry(B, n))
         /\ DirRemoved(B, dir_remove_entry(B, n), n)
         /\ Len(dir_remove_entry(B, n)) = Len(B)
<1>1. B \in Seq(Block) /\ DOMAIN B \in SUBSET Nat
  BY DEF GoodDir
<1>2. PICK b \in DOMAIN B : b = Min(on_disk(B, n)) /\ holds(B[b], n) # {}
  <2>1. on_disk(B, n) \in SUBSET Nat
    BY <1>1 DEF on_disk
  <2>2. Min(on_disk(B, n)) \in on_disk(B, n)
    BY <2>1, MinIsLeast
  <2>3. QED
    BY <2>2 DEF on_disk
<1> DEFINE w == [B[b] EXCEPT ![Min(holds(B[b], n))].ino = NoInode]
           C == [B EXCEPT ![b] = w]
<1>3. dir_remove_entry(B, n) = C
  BY <1>2 DEF dir_remove_entry
<1>4. B[b] \in Block /\ Fit(B[b]) /\ Once(B[b])
  BY DEF GoodDir
<1>5. w \in Block /\ Fit(w) /\ Once(w) /\ Removed(B[b], w, n)
  BY <1>2, <1>4, RemoveFromBlock
<1> HIDE DEF w
<1>6. C \in Seq(Block) /\ IsUpdate(B, b, w, C) /\ Len(C) = Len(B)
  BY <1>1, <1>5, SetBlock
<1> HIDE DEF C
<1>7. DOMAIN C = DOMAIN B /\ C[b] = w /\ \A c \in DOMAIN B : c # b => C[c] = B[c]
  BY <1>6 DEF IsUpdate
<1>8. \A c \in DOMAIN B : \A m : holds(C[c], m) # {} => holds(B[c], m) # {}
  BY <1>5, <1>7, HasName DEF Removed
<1>9. \A c \in DOMAIN C : Fit(C[c]) /\ Once(C[c])
  BY <1>5, <1>7 DEF GoodDir
<1>10. GoodDir(C)
  BY <1>6, <1>7, <1>8, <1>9 DEF GoodDir
<1>11. ASSUME NEW c \in DOMAIN B, c # b, NEW m, NEW j, NEW u, InBlock(B[c], m, j, u)
       PROVE  m # n
  BY <1>2, <1>11, HasName DEF GoodDir
<1>12. DirRemoved(B, C, n)
  BY <1>5, <1>7, <1>11 DEF DirRemoved, Holds, Removed
<1>13. QED
  BY <1>3, <1>6, <1>10, <1>12

\* A new block behind the others.
LEMMA AppendBlock ==
  ASSUME NEW B, GoodDir(B), NEW w \in Block, Fit(w), Once(w), NEW n, NEW i, NEW t,
         \A m, j, u : InBlock(w, m, j, u) <=> m = n /\ j = i /\ u = t, on_disk(B, n) = {}
  PROVE  /\ GoodDir(Append(B, w)) /\ DirAdded(B, Append(B, w), n, i, t)
         /\ Len(Append(B, w)) = Len(B) + 1
<1> DEFINE C == Append(B, w)
<1>1. B \in Seq(Block) /\ Len(B) \in Nat /\ DOMAIN B = 1 .. Len(B)
  BY DEF GoodDir
<1>2. /\ C \in Seq(Block) /\ Len(C) = Len(B) + 1 /\ DOMAIN C = 1 .. Len(B) + 1
      /\ C[Len(B) + 1] = w /\ \A c \in 1 .. Len(B) : C[c] = B[c]
  BY <1>1
<1> HIDE DEF C
<1>3. \A c \in DOMAIN C : (c \in DOMAIN B /\ C[c] = B[c]) \/ (c = Len(B) + 1 /\ C[c] = w)
  <2> TAKE c \in DOMAIN C
  <2>1. c \in 1 .. Len(B) \/ c = Len(B) + 1
    BY <1>1, <1>2
  <2>2. QED
    BY <1>1, <1>2, <2>1
<1>4. \A c \in DOMAIN B : c \in DOMAIN C /\ C[c] = B[c]
  BY <1>1, <1>2
<1>5. Len(B) + 1 \in DOMAIN C
  BY <1>1, <1>2
<1>6. \A m : holds(w, m) # {} => m = n
  BY HasName
<1>7. \A c \in DOMAIN B : holds(B[c], n) = {}
  BY DEF on_disk
<1>8. ASSUME NEW c \in DOMAIN C, NEW e \in DOMAIN C, NEW m, holds(C[c], m) # {}, holds(C[e], m) # {}
      PROVE  c = e
  <2>1. \A x, y \in DOMAIN B : holds(B[x], m) # {} /\ holds(B[y], m) # {} => x = y
    BY DEF GoodDir
  <2>2. QED
    BY <1>3, <1>6, <1>7, <1>8, <2>1
<1>9. \A c \in DOMAIN C : Fit(C[c]) /\ Once(C[c])
  BY <1>3 DEF GoodDir
<1>10. GoodDir(C)
  BY <1>2, <1>8, <1>9 DEF GoodDir
<1>11. ASSUME NEW m, NEW j, NEW u
       PROVE  Holds(C, m, j, u) <=> Holds(B, m, j, u) \/ (m = n /\ j = i /\ u = t)
  <2>1. ASSUME Holds(C, m, j, u) PROVE Holds(B, m, j, u) \/ (m = n /\ j = i /\ u = t)
    BY <1>3, <2>1 DEF Holds
  <2>2. ASSUME Holds(B, m, j, u) PROVE Holds(C, m, j, u)
    BY <1>4, <2>2 DEF Holds
  <2>3. ASSUME m = n, j = i, u = t PROVE Holds(C, m, j, u)
    <3>1. InBlock(C[Len(B) + 1], m, j, u)
      BY <1>2, <2>3
    <3>2. QED
      BY <1>5, <3>1 DEF Holds
  <2>4. QED
    BY <2>1, <2>2, <2>3
<1>12. QED
  BY <1>2, <1>10, <1>11 DEF C, DirAdded

\* A block with one record.
LEMMA OneRecord ==
  ASSUME NEW n \in Stored, NEW i \in Inode, NEW t \in FileType
  PROVE  /\ <<record(n, i, t, BlockSize)>> \in Block
         /\ Fit(<<record(n, i, t, BlockSize)>>) /\ Once(<<record(n, i, t, BlockSize)>>)
         /\ \A m, j, u : InBlock(<<record(n, i, t, BlockSize)>>, m, j, u) <=> m = n /\ j = i /\ u = t
<1> DEFINE e == record(n, i, t, BlockSize)
           w == <<e>>
<1>1. e \in Record /\ e.name = n /\ e.ino = i /\ e.type = t /\ e.rec = BlockSize
  BY DirAssumption DEF record, Record
<1> HIDE DEF e
<1>2. w \in Block /\ DOMAIN w = {1} /\ Len(w) = 1 /\ w[1] = e
  BY <1>1 DEF Block
<1> HIDE DEF w
<1>3. Fit(w)
  <2>1. Total(lens(w), DOMAIN w) <= BlockSize
    <3>1. DOMAIN w \ {1} = {} /\ 1 \in DOMAIN w
      BY <1>2
    <3>2. Total(lens(w), DOMAIN w) = Total(lens(w), {}) + lens(w)[1] /\ lens(w)[1] = BlockSize
      BY <1>1, <1>2, <3>1, LensFacts, TotalSplit
    <3>3. Total(lens(w), {}) = 0
      BY TotalSplit, FS_EmptySet
    <3>4. QED
      BY <3>2, <3>3, DirAssumption
  <2>2. Need[n] <= BlockSize
    BY NeedFacts
  <2>3. BlockSize \in Nat /\ Need[n] \in Nat
    BY NeedFacts, DirAssumption
  <2>4. QED
    BY <1>1, <1>2, <2>1, <2>2, <2>3 DEF Fit
<1>4. Once(w)
  BY <1>2 DEF Once
<1>5. i # NoInode
  BY DirAssumption
<1>6. \A m, j, u : InBlock(w, m, j, u) <=> m = n /\ j = i /\ u = t
  BY <1>1, <1>2, <1>5 DEF InBlock
<1>7. QED
  BY <1>2, <1>3, <1>4, <1>6 DEF w, e

\* The number of blocks in the tree of a directory with blocks B.
Mapped(B, mapped) == mapped = Len(B) \/ mapped = Len(B) + 1

\* dir_add_entry with a name that is not there yet and not too long: it adds the
\* entry, or fails with no block left and changes nothing.
LEMMA AddEntry ==
  ASSUME NEW B, GoodDir(B), NEW mapped, Mapped(B, mapped), NEW avail \in Nat,
         NEW n \in Name \ TooLong, on_disk(B, n) = {}, NEW i \in Inode, NEW t \in FileType,
         NEW r, r = dir_add_entry(B, mapped, avail, n, i, t)
  PROVE  /\ r.ret = "ok" \/ r.ret = "NoSpace"
         /\ r.ret = "ok" => GoodDir(r.blocks) /\ DirAdded(B, r.blocks, n, i, t)
         /\ r.ret # "ok" => r.blocks = B
         /\ Mapped(r.blocks, r.mapped) /\ r.avail \in Nat
         /\ r.mapped + r.avail = mapped + avail
         /\ Len(r.blocks) >= Len(B)
<1>1. B \in Seq(Block) /\ Len(B) \in Nat /\ DOMAIN B = 1 .. Len(B)
  BY DEF GoodDir
<1> DEFINE W == {b \in DOMAIN B : room(B[b], n) # {}}
<1>2. mapped \in Nat
  BY <1>1 DEF Mapped
<1>n. PICK L \in Nat : L = Len(B)
  BY <1>1
<1>m. mapped = L \/ mapped = L + 1
  BY <1>n DEF Mapped
<1>3. CASE W # {}
  <2>1. PICK b \in DOMAIN B : b = Min(W) /\ room(B[b], n) # {}
    <3>1. W \in SUBSET Nat
      BY <1>1
    <3>2. Min(W) \in W
      BY <1>3, <3>1, MinIsLeast
    <3>3. QED
      BY <3>2
  <2> DEFINE w == add_to_block(B[b], n, i, t)
             C == [B EXCEPT ![b] = w]
  <2>2. r = [ret |-> "ok", mapped |-> mapped, avail |-> avail, blocks |-> C]
    BY <1>3, <2>1 DEF dir_add_entry
  <2>3. B[b] \in Block /\ Fit(B[b]) /\ Once(B[b])
    BY DEF GoodDir
  <2>4. holds(B[b], n) = {}
    BY DEF on_disk
  <2>5. w \in Block /\ Fit(w) /\ Once(w) /\ Added(B[b], w, n, i, t)
    BY <2>1, <2>3, <2>4, AddToBlock
  <2> HIDE DEF w
  <2>6. GoodDir(C) /\ DirAdded(B, C, n, i, t)
    BY <2>5, AddedInBlock
  <2>7. Len(C) = Len(B)
    BY <1>1, <2>5, SetBlock
  <2> HIDE DEF C
  <2>8. r.ret = "ok" /\ r.mapped = mapped /\ r.avail = avail /\ r.blocks = C
    BY <2>2
  <2>9. Mapped(C, mapped) /\ Len(C) >= Len(B)
    BY <1>n, <1>m, <2>7 DEF Mapped
  <2>10. QED
    BY <1>2, <2>6, <2>8, <2>9
<1>4. CASE W = {} /\ (mapped > Len(B) \/ avail > 0)
  <2> DEFINE w == <<record(n, i, t, BlockSize)>>
             C == Append(B, w)
             a == IF mapped > Len(B) THEN avail ELSE avail - 1
  <2>1. r = [ret |-> "ok", mapped |-> Len(B) + 1, avail |-> a, blocks |-> C]
    BY <1>4 DEF dir_add_entry
  <2>2. n \in Stored
    BY DEF Stored
  <2>3. w \in Block /\ Fit(w) /\ Once(w) /\ \A m, j, u : InBlock(w, m, j, u) <=> m = n /\ j = i /\ u = t
    BY <2>2, OneRecord
  <2> HIDE DEF w
  <2>4. GoodDir(C) /\ DirAdded(B, C, n, i, t) /\ Len(C) = Len(B) + 1
    BY <2>3, AppendBlock
  <2> HIDE DEF C
  <2>5. a \in Nat /\ Len(B) + 1 + a = mapped + avail
    <3>1. (mapped > L \/ avail > 0) /\ a = (IF mapped > L THEN avail ELSE avail - 1)
      BY <1>4, <1>n
    <3> HIDE DEF a
    <3>2. a \in Nat /\ L + 1 + a = mapped + avail
      BY <1>2, <1>m, <3>1
    <3>3. QED
      BY <1>n, <3>2
  <2> HIDE DEF a
  <2>6. r.ret = "ok" /\ r.mapped = Len(B) + 1 /\ r.avail = a /\ r.blocks = C
    BY <2>1
  <2>7. QED
    BY <1>1, <2>4, <2>5, <2>6 DEF Mapped
<1>5. CASE W = {} /\ ~(mapped > Len(B) \/ avail > 0)
  <2>1. r = [ret |-> "NoSpace", mapped |-> mapped, avail |-> avail, blocks |-> B]
    BY <1>5 DEF dir_add_entry
  <2>2. r.ret = "NoSpace" /\ r.mapped = mapped /\ r.avail = avail /\ r.blocks = B
    BY <2>1
  <2>3. QED
    BY <1>1, <1>2, <2>2
<1>6. QED
  BY <1>3, <1>4, <1>5

\* With a name that is too long it fails, and the names stay as they are.
LEMMA LongEntry ==
  ASSUME NEW B, GoodDir(B), NEW mapped, Mapped(B, mapped), NEW avail \in Nat,
         NEW n \in TooLong, NEW i, NEW t,
         NEW r, r = dir_add_entry(B, mapped, avail, n, i, t)
  PROVE  /\ r.ret # "ok"
         /\ GoodDir(r.blocks) /\ DirSame(B, r.blocks)
         /\ Mapped(r.blocks, r.mapped) /\ r.avail \in Nat
         /\ r.mapped + r.avail = mapped + avail
         /\ Len(r.blocks) >= Len(B)
<1>1. B \in Seq(Block) /\ Len(B) \in Nat /\ DOMAIN B = 1 .. Len(B)
  BY DEF GoodDir
<1> DEFINE W == {b \in DOMAIN B : room(B[b], n) # {}}
<1>2. mapped \in Nat
  BY <1>1 DEF Mapped
<1>n. PICK L \in Nat : L = Len(B)
  BY <1>1
<1>m. mapped = L \/ mapped = L + 1
  BY <1>n DEF Mapped
<1>3. CASE W # {}
  <2>1. PICK b \in DOMAIN B : b = Min(W) /\ room(B[b], n) # {}
    <3>1. W \in SUBSET Nat
      BY <1>1
    <3>2. Min(W) \in W
      BY <1>3, <3>1, MinIsLeast
    <3>3. QED
      BY <3>2
  <2> DEFINE w == add_to_block(B[b], n, i, t)
             C == [B EXCEPT ![b] = w]
  <2>2. r = [ret |-> "NameTooLong", mapped |-> mapped, avail |-> avail, blocks |-> C]
    BY <1>3, <2>1 DEF dir_add_entry
  <2>3. B[b] \in Block /\ Fit(B[b]) /\ Once(B[b])
    BY DEF GoodDir
  <2>4. w \in Block /\ Fit(w) /\ Once(w) /\ SameIn(B[b], w)
    BY <2>1, <2>3, CutBlock
  <2> HIDE DEF w
  <2>5. GoodDir(C) /\ DirSame(B, C)
    BY <2>4, SameInBlock
  <2>6. Len(C) = Len(B)
    BY <1>1, <2>4, SetBlock
  <2> HIDE DEF C
  <2>7. r.ret = "NameTooLong" /\ r.mapped = mapped /\ r.avail = avail /\ r.blocks = C
    BY <2>2
  <2>8. Mapped(C, mapped) /\ Len(C) >= Len(B)
    BY <1>n, <1>m, <2>6 DEF Mapped
  <2>9. QED
    BY <1>2, <2>5, <2>7, <2>8
<1>4. CASE W = {} /\ (mapped > Len(B) \/ avail > 0)
  <2> DEFINE a == IF mapped > Len(B) THEN avail ELSE avail - 1
  <2>1. r = [ret |-> "NameTooLong", mapped |-> Len(B) + 1, avail |-> a, blocks |-> B]
    BY <1>4 DEF dir_add_entry
  <2>2. a \in Nat /\ Len(B) + 1 + a = mapped + avail
    <3>1. (mapped > L \/ avail > 0) /\ a = (IF mapped > L THEN avail ELSE avail - 1)
      BY <1>4, <1>n
    <3> HIDE DEF a
    <3>2. a \in Nat /\ L + 1 + a = mapped + avail
      BY <1>2, <1>m, <3>1
    <3>3. QED
      BY <1>n, <3>2
  <2> HIDE DEF a
  <2>3. r.ret = "NameTooLong" /\ r.mapped = Len(B) + 1 /\ r.avail = a /\ r.blocks = B
    BY <2>1
  <2>4. QED
    BY <1>1, <2>2, <2>3 DEF Mapped, DirSame
<1>5. CASE W = {} /\ ~(mapped > Len(B) \/ avail > 0)
  <2>1. r = [ret |-> "NoSpace", mapped |-> mapped, avail |-> avail, blocks |-> B]
    BY <1>5 DEF dir_add_entry
  <2>2. r.ret = "NoSpace" /\ r.mapped = mapped /\ r.avail = avail /\ r.blocks = B
    BY <2>1
  <2>3. QED
    BY <1>1, <1>2, <2>2 DEF DirSame
<1>6. QED
  BY <1>3, <1>4, <1>5

\* A directory as create_dir makes it.
LEMMA NewDir ==
  ASSUME NEW i \in Inode, NEW d \in Inode
  PROVE  /\ GoodDir(<<first_block(i, d)>>) /\ Len(<<first_block(i, d)>>) = 1
         /\ \A n, j, t : Holds(<<first_block(i, d)>>, n, j, t) <=>
               t = "FT_DIR" /\ ((n = "." /\ j = i) \/ (n = ".." /\ j = d))
<1> DEFINE e == record(".", i, "FT_DIR", DotLen)
           f == record("..", d, "FT_DIR", BlockSize - DotLen)
           w == <<e, f>>
           B == <<w>>
<1>1. first_block(i, d) = w
  BY DEF first_block
<1>2. /\ DotLen \in Nat /\ BlockSize \in Nat /\ Need["."] \in Nat /\ Need[".."] \in Nat
      /\ BlockSize - DotLen \in Nat /\ BlockSize - DotLen >= Need[".."] /\ DotLen >= Need["."]
  <2>1. Need["."] \in Nat /\ Need[".."] \in Nat
    BY NeedFacts DEF Dots
  <2>2. QED
    BY <2>1, DirAssumption
<1>3. "." \in Stored /\ ".." \in Stored /\ "FT_DIR" \in FileType
  BY DEF Stored, Dots, FileType
<1>4. /\ e \in Record /\ e.name = "." /\ e.ino = i /\ e.type = "FT_DIR" /\ e.rec = DotLen
      /\ f \in Record /\ f.name = ".." /\ f.ino = d /\ f.type = "FT_DIR" /\ f.rec = BlockSize - DotLen
  BY <1>2, <1>3 DEF record, Record
<1> HIDE DEF e, f
<1>5. w \in Block /\ DOMAIN w = {1, 2} /\ Len(w) = 2 /\ w[1] = e /\ w[2] = f
  BY <1>4 DEF Block
<1> HIDE DEF w
<1>6. Fit(w)
  <2> DEFINE g == lens(w)
  <2>1. g[1] = DotLen /\ g[2] = BlockSize - DotLen /\ IsFiniteSet({1, 2})
        /\ \A k \in {1, 2} : g[k] \in Nat
    BY <1>4, <1>5, LensFacts
  <2> HIDE DEF g
  <2>2. Total(g, {1, 2}) = Total(g, {1, 2} \ {1}) + g[1]
    BY <2>1, TotalSplit
  <2>3. {1, 2} \ {1} = {2} /\ {2} \ {2} = {} /\ IsFiniteSet({2})
    <3>1. {1, 2} \ {1} = {2} /\ {2} \ {2} = {}
      OBVIOUS
    <3>2. IsFiniteSet({2})
      BY FS_Singleton, Zenon
    <3>3. QED
      BY <3>1, <3>2
  <2>4. Total(g, {2}) = Total(g, {2} \ {2}) + g[2]
    BY <2>1, <2>3, TotalSplit
  <2>5. Total(g, {}) = 0
    BY TotalSplit, FS_EmptySet
  <2>6. Total(g, {1, 2}) <= BlockSize
    <3>1. Total(g, {1, 2}) = Total(g, {2}) + DotLen
      BY <2>1, <2>2, <2>3, Zenon
    <3>2. Total(g, {2}) = 0 + (BlockSize - DotLen)
      BY <2>1, <2>3, <2>4, <2>5, Zenon
    <3>3. QED
      BY <1>2, <3>1, <3>2
  <2>7. \A k \in DOMAIN w : w[k].rec >= Need[w[k].name]
    BY <1>2, <1>4, <1>5
  <2>8. \A k \in DOMAIN w, l \in TooLong : k < Len(w) => w[k].rec <= Need[l]
    <3> TAKE k \in DOMAIN w, l \in TooLong
    <3>1. Need[l] >= DotLen /\ Need[l] \in Nat
      BY DirAssumption, NeedFacts
    <3>2. QED
      BY <1>2, <1>4, <1>5, <3>1
  <2>9. QED
    BY <1>5, <2>6, <2>7, <2>8 DEF Fit, g
<1>7. Once(w)
  BY <1>4, <1>5 DEF Once
<1>8. B \in Seq(Block) /\ DOMAIN B = {1} /\ B[1] = w /\ Len(B) = 1
  BY <1>5
<1> HIDE DEF B
<1>9. GoodDir(B)
  BY <1>6, <1>7, <1>8 DEF GoodDir
<1>10. i # NoInode /\ d # NoInode
  BY DirAssumption
<1>11. ASSUME NEW n, NEW j, NEW t
       PROVE  Holds(B, n, j, t) <=> t = "FT_DIR" /\ ((n = "." /\ j = i) \/ (n = ".." /\ j = d))
  <2>1. Holds(B, n, j, t) <=> InBlock(w, n, j, t)
    BY <1>8 DEF Holds
  <2>2. QED
    BY <1>4, <1>5, <1>10, <2>1 DEF InBlock
<1>12. QED
  BY <1>1, <1>8, <1>9, <1>11 DEF B

\* An inode without blocks holds nothing.
LEMMA NoBlocks ==
  /\ GoodDir(<<>>) /\ Len(<<>>) = 0
  /\ \A n, j, t : ~Holds(<<>>, n, j, t)
BY DEF GoodDir, Holds

-------------------------------------------------------------------------------
\* The index of a directory.  Function x is the index of blocks B.
IsIndex(x, B) ==
    /\ x = [n \in DOMAIN x |-> x[n]]
    /\ \A n : n \in DOMAIN x <=> \E i, t : Holds(B, n, i, t)
    /\ \A n \in DOMAIN x : /\ x[n] = [ino |-> x[n].ino, type |-> x[n].type]
                           /\ Holds(B, n, x[n].ino, x[n].type)

\* A directory has one index.
LEMMA IndexUnique ==
  ASSUME NEW B, GoodDir(B), NEW x, IsIndex(x, B), NEW y, IsIndex(y, B)
  PROVE  x = y
<1>1. DOMAIN x = DOMAIN y
  BY DEF IsIndex
<1>2. ASSUME NEW n \in DOMAIN x
      PROVE  x[n] = y[n]
  <2>1. Holds(B, n, x[n].ino, x[n].type) /\ Holds(B, n, y[n].ino, y[n].type)
    BY <1>1 DEF IsIndex
  <2>2. x[n].ino = y[n].ino /\ x[n].type = y[n].type
    BY <2>1, HoldsOne
  <2>3. x[n] = [ino |-> x[n].ino, type |-> x[n].type] /\ y[n] = [ino |-> y[n].ino, type |-> y[n].type]
    BY <1>1 DEF IsIndex
  <2>4. QED
    BY <2>2, <2>3
<1>3. x = [n \in DOMAIN x |-> x[n]] /\ y = [n \in DOMAIN y |-> y[n]]
  BY DEF IsIndex
<1>4. QED
  BY <1>1, <1>2, <1>3

\* build_dir_index finds the index: with every name in one place, the last
\* place of a name is its only one.
LEMMA BuildIndex ==
  ASSUME NEW i, GoodDir(dirs[i])
  PROVE  IsIndex(build_dir_index(i), dirs[i])
<1> DEFINE B == dirs[i]
           P == entry_places(i)
           last(n) == CHOOSE p \in P :
                         /\ entry_at(i, p).name = n
                         /\ \A q \in P : entry_at(i, q).name = n =>
                                q[1] < p[1] \/ (q[1] = p[1] /\ q[2] <= p[2])
           N == {entry_at(i, p).name : p \in P}
           x == build_dir_index(i)
<1>1. x = [n \in N |-> [ino |-> entry_at(i, last(n)).ino, type |-> entry_at(i, last(n)).type]]
  BY DEF build_dir_index
<1>2. ASSUME NEW p \in P
      PROVE  \E b \in DOMAIN B : \E k \in DOMAIN B[b] : p = <<b, k>> /\ B[b][k].ino # NoInode
  BY DEF entry_places
<1>3. ASSUME NEW b \in DOMAIN B, NEW k \in DOMAIN B[b], B[b][k].ino # NoInode
      PROVE  <<b, k>> \in P /\ entry_at(i, <<b, k>>) = B[b][k]
  BY <1>3 DEF entry_places, entry_at
<1>4. ASSUME NEW p \in P
      PROVE  /\ InBlock(B[p[1]], entry_at(i, p).name, entry_at(i, p).ino, entry_at(i, p).type)
             /\ p[1] \in DOMAIN B /\ p[2] \in DOMAIN B[p[1]] /\ entry_at(i, p).ino # NoInode
             /\ entry_at(i, p) = B[p[1]][p[2]] /\ p = <<p[1], p[2]>>
             /\ p[1] \in Nat /\ p[2] \in Nat
  <2>1. PICK b \in DOMAIN B : \E k \in DOMAIN B[b] : p = <<b, k>> /\ B[b][k].ino # NoInode
    BY <1>2
  <2>2. PICK k \in DOMAIN B[b] : p = <<b, k>> /\ B[b][k].ino # NoInode
    BY <2>1
  <2>3. p[1] = b /\ p[2] = k /\ entry_at(i, p) = B[b][k]
    BY <2>2 DEF entry_at
  <2>4. B \in Seq(Block) /\ B[b] \in Block
    BY DEF GoodDir
  <2>5. b \in Nat /\ k \in Nat
    BY <2>4, LensFacts
  <2>6. InBlock(B[b], B[b][k].name, B[b][k].ino, B[b][k].type)
    BY <2>2 DEF InBlock
  <2>7. QED
    BY <2>2, <2>3, <2>5, <2>6
<1>5. ASSUME NEW p \in P, NEW q \in P, entry_at(i, p).name = entry_at(i, q).name
      PROVE  p = q
  <2> DEFINE n == entry_at(i, p).name
  <2>1. holds(B[p[1]], n) # {} /\ holds(B[q[1]], n) # {}
    BY <1>4, <1>5, HasName
  <2>2. p[1] = q[1]
    BY <1>4, <2>1 DEF GoodDir
  <2>3. Once(B[p[1]])
    BY <1>4 DEF GoodDir
  <2>4. p[2] = q[2]
    BY <1>4, <1>5, <2>2, <2>3 DEF Once
  <2>5. QED
    BY <1>4, <2>2, <2>4
<1>6. ASSUME NEW n \in N
      PROVE  last(n) \in P /\ entry_at(i, last(n)).name = n
  <2>1. PICK p \in P : entry_at(i, p).name = n
    OBVIOUS
  <2>2. p[1] \in Nat /\ p[2] \in Nat
    BY <1>4
  <2>3. \A q \in P : entry_at(i, q).name = n => q[1] < p[1] \/ (q[1] = p[1] /\ q[2] <= p[2])
    BY <1>5, <2>1, <2>2
  <2> HIDE DEF P
  <2>4. QED
    BY <2>1, <2>3
<1>7. \A n : n \in N <=> \E j, t : Holds(B, n, j, t)
  <2> TAKE n
  <2>1. ASSUME n \in N PROVE \E j, t : Holds(B, n, j, t)
    BY <1>4, <2>1 DEF Holds
  <2>2. ASSUME NEW j, NEW t, Holds(B, n, j, t) PROVE n \in N
    <3>1. PICK b \in DOMAIN B : InBlock(B[b], n, j, t)
      BY <2>2 DEF Holds
    <3>2. PICK k \in DOMAIN B[b] : B[b][k].ino # NoInode /\ B[b][k].name = n
      BY <3>1 DEF InBlock
    <3>3. QED
      BY <1>3, <3>2
  <2>3. QED
    BY <2>1, <2>2
<1> HIDE DEF P, last, N, x
<1>8. DOMAIN x = N /\ x = [n \in DOMAIN x |-> x[n]]
  BY <1>1
<1>9. ASSUME NEW n \in N
      PROVE  /\ x[n] = [ino |-> x[n].ino, type |-> x[n].type]
             /\ Holds(B, n, x[n].ino, x[n].type)
  <2>1. x[n].ino = entry_at(i, last(n)).ino /\ x[n].type = entry_at(i, last(n)).type
        /\ x[n] = [ino |-> x[n].ino, type |-> x[n].type]
    BY <1>1
  <2>2. last(n) \in P /\ entry_at(i, last(n)).name = n
    BY <1>6
  <2>3. InBlock(B[last(n)[1]], n, x[n].ino, x[n].type) /\ last(n)[1] \in DOMAIN B
    BY <1>4, <2>1, <2>2
  <2>4. QED
    BY <2>1, <2>3 DEF Holds
<1>10. IsIndex(x, B)
  BY <1>7, <1>8, <1>9 DEF IsIndex
<1>11. QED
  BY <1>10 DEF x

\* The index follows the blocks when a name is added,
LEMMA IndexInsert ==
  ASSUME NEW x, NEW B, NEW C, IsIndex(x, B), NEW n, NEW i, NEW t, DirAdded(B, C, n, i, t)
  PROVE  IsIndex(index_insert(x, n, i, t), C)
<1> DEFINE y == index_insert(x, n, i, t)
<1>1. y = [m \in DOMAIN x \cup {n} |-> IF m = n THEN [ino |-> i, type |-> t] ELSE x[m]]
  BY DEF index_insert
<1> HIDE DEF y
<1>2. y = [m \in DOMAIN y |-> y[m]] /\ DOMAIN y = DOMAIN x \cup {n}
  BY <1>1
<1>3. \A m : m \in DOMAIN y <=> \E j, u : Holds(C, m, j, u)
  BY <1>2 DEF IsIndex, DirAdded
<1>4. ASSUME NEW m \in DOMAIN y
      PROVE  y[m] = [ino |-> y[m].ino, type |-> y[m].type] /\ Holds(C, m, y[m].ino, y[m].type)
  <2>1. CASE m = n
    <3>1. y[m] = [ino |-> i, type |-> t]
      BY <1>1, <1>2, <2>1
    <3>2. QED
      BY <2>1, <3>1 DEF DirAdded
  <2>2. CASE m # n
    <3>1. m \in DOMAIN x /\ y[m] = x[m]
      BY <1>1, <1>2, <2>2
    <3>2. QED
      BY <3>1 DEF DirAdded, IsIndex
  <2>3. QED
    BY <2>1, <2>2
<1>5. IsIndex(y, C)
  BY <1>2, <1>3, <1>4 DEF IsIndex
<1>6. QED
  BY <1>5 DEF y

\* when one is removed,
LEMMA IndexRemove ==
  ASSUME NEW x, NEW B, NEW C, IsIndex(x, B), NEW n, DirRemoved(B, C, n)
  PROVE  IsIndex(index_remove(x, n), C)
<1> DEFINE y == index_remove(x, n)
<1>1. y = [m \in DOMAIN x \ {n} |-> x[m]]
  BY DEF index_remove
<1> HIDE DEF y
<1>2. y = [m \in DOMAIN y |-> y[m]] /\ DOMAIN y = DOMAIN x \ {n} /\ \A m \in DOMAIN y : y[m] = x[m]
  BY <1>1
<1>3. \A m : m \in DOMAIN y <=> \E j, u : Holds(C, m, j, u)
  BY <1>2 DEF IsIndex, DirRemoved
<1>4. ASSUME NEW m \in DOMAIN y
      PROVE  y[m] = [ino |-> y[m].ino, type |-> y[m].type] /\ Holds(C, m, y[m].ino, y[m].type)
  BY <1>2 DEF IsIndex, DirRemoved
<1>5. IsIndex(y, C)
  BY <1>2, <1>3, <1>4 DEF IsIndex
<1>6. QED
  BY <1>5 DEF y

\* and when the blocks change and the names do not.
LEMMA IndexSame ==
  ASSUME NEW x, NEW B, NEW C, IsIndex(x, B), DirSame(B, C)
  PROVE  IsIndex(x, C)
BY DEF IsIndex, DirSame

-------------------------------------------------------------------------------
\* The inductive invariant.  Name n in directory d leads to inode i on disk:
Points(d, n, i) == \E t : Holds(dirs[d], n, i, t)
IsDir(i) == inode[i].mode = "S_IFDIR"
IsNamed(i) == \E d \in Inode, n \in Name : Points(d, n, i)

InodeRecord == [mode : Mode \cup {"none"}, links : 0 .. MaxLinks, blocks : Nat]
Types ==
    /\ used \in SUBSET Inode
    /\ inode \in [Inode -> InodeRecord]
    /\ dirs = [i \in Inode |-> dirs[i]]
    /\ \A i \in Inode : GoodDir(dirs[i])
    /\ free \in Nat

\* Cache c has indexes of directories only, and each is the one of its blocks.
Indexed(c, ino, D) ==
    /\ c = [i \in Inode |-> c[i]]
    /\ \A i \in Inode : c[i] # NotCached => ino[i].mode = "S_IFDIR" /\ IsIndex(c[i], D[i])
Indexes == Indexed(index, inode, dirs)

\* Only directories have blocks of entries; a directory has its "." and its
\* "..", which leads to the directory that names it.
Trees ==
    \A i \in Inode :
        /\ ~IsDir(i) => dirs[i] = <<>>
        /\ IsDir(i) => /\ Mapped(dirs[i], inode[i].blocks)
                       /\ Points(i, ".", i)
                       /\ \E p \in Inode : /\ Points(i, "..", p)
                                           /\ i = Root \/ \E n \in Name : Points(p, n, i)

\* What has a name is in use; what has none, but the root, is no inode.  A
\* directory has one name, and none in itself.
Owned ==
    /\ IsDir(Root) /\ Root \in used
    /\ \A i \in Inode : i # Root /\ ~IsNamed(i) => inode[i] = no_inode
    /\ \A d, i \in Inode, n \in Name :
          Points(d, n, i) => i \in used /\ inode[i].mode # "none" /\ i # Root /\ i # d
    /\ \A i, d, e \in Inode, m, n \in Name :
          IsDir(i) /\ Points(d, m, i) /\ Points(e, n, i) => d = e /\ m = n

Subs(i) == {n \in Name : \E j \in Inode : Points(i, n, j) /\ IsDir(j)}
NamesOf(i) == {p \in Inode \X Name : Points(p[1], p[2], i)}
Counts ==
    \A i \in Inode : i = Root \/ IsNamed(i) =>
        inode[i].links = IF IsDir(i) THEN 2 + Cardinality(Subs(i)) ELSE Cardinality(NamesOf(i))

\* The blocks of the inodes, and the free ones, are those of the device.
blocksOf == [i \in Inode |-> inode[i].blocks]
Sums == free + Total(blocksOf, Inode) = DataBlocks

DirInv == Types /\ Indexes /\ Trees /\ Owned /\ Counts /\ Sums

\* What a step does to the names: a new one, one less, another, or nothing.
NewName(d, n, i) ==
    \A e, j \in Inode, m \in Name :
        Points(e, m, j)' <=> Points(e, m, j) \/ (e = d /\ m = n /\ j = i)
NoName(d, n) ==
    \A e, j \in Inode, m \in Name :
        Points(e, m, j)' <=> Points(e, m, j) /\ ~(e = d /\ m = n)
OtherName(d, old, new, i) ==
    \A e, j \in Inode, m \in Name :
        Points(e, m, j)' <=> (Points(e, m, j) /\ ~(e = d /\ m = old)) \/ (e = d /\ m = new /\ j = i)
NamesKept == \A e, j \in Inode, m \in Name : Points(e, m, j)' <=> Points(e, m, j)
ModesKept == \A j \in Inode : IsNamed(j) /\ IsNamed(j)' => inode'[j].mode = inode[j].mode
NotNamed(d, n) == \A j : ~Points(d, n, j)

\* What a call does, as it says in done, and to the inodes in use.
Created == \E d, i \in Inode, n \in Name :
    /\ IsDir(d) /\ NotNamed(d, n)
    /\ i # Root /\ ~IsNamed(i) /\ inode'[i].mode \in Mode
    /\ NewName(d, n, i) /\ used' = used \cup {i}
Linked == \E d, i \in Inode, n \in Name :
    /\ IsDir(d) /\ NotNamed(d, n)
    /\ ~IsDir(i) /\ IsNamed(i)
    /\ NewName(d, n, i) /\ used' = used
Unlinked == \E d, i \in Inode, n \in Name :
    /\ Points(d, n, i) /\ \A m \in Name : \A j : ~Points(i, m, j)
    /\ NoName(d, n)
    /\ (used' = used /\ IsNamed(i)') \/ used' = used \ {i}
Renamed == \E d, i \in Inode, old, new \in Name :
    /\ Points(d, old, i) /\ NotNamed(d, new)
    /\ OtherName(d, old, new, i) /\ used' = used
Effect ==
    /\ ModesKept
    /\ \/ done' = "created" /\ Created
       \/ done' = "linked" /\ Linked
       \/ done' = "removed" /\ Unlinked
       \/ done' = "renamed" /\ Renamed
       \/ done' = "none" /\ NamesKept /\ (used' = used \/ free = 0)

\* No link count is at its limit, where link_inode and create_dir stop counting.
BelowLimit == \A i \in Inode : inode[i].links < MaxLinks

-------------------------------------------------------------------------------
\* The parts of an inode.
LEMMA InodeFacts ==
  ASSUME Types, NEW i \in Inode
  PROVE  /\ inode[i] \in InodeRecord /\ inode[i].mode \in Mode \cup {"none"}
         /\ inode[i].links \in Nat /\ inode[i].links <= MaxLinks /\ inode[i].blocks \in Nat
         /\ MaxLinks \in Nat
<1>1. inode[i] \in InodeRecord
  BY DEF Types
<1>2. QED
  BY <1>1, DirAssumption DEF InodeRecord

\* What dir_index answers is the index of the blocks.
LEMMA DirIndex ==
  ASSUME Types, Indexes, NEW d \in Inode
  PROVE  IsIndex(dir_index(d), dirs[d])
<1>1. CASE index[d] # NotCached
  BY <1>1 DEF dir_index, Indexes, Indexed
<1>2. CASE index[d] = NotCached
  BY <1>2, BuildIndex DEF dir_index, Types
<1>3. QED
  BY <1>1, <1>2

\* So lookups find what is on disk.
LEMMA Lookup ==
  ASSUME Types, Indexes, NEW d \in Inode
  PROVE  /\ \A n : has_name(d, n) <=> \E i : Points(d, n, i)
         /\ \A n : has_name(d, n) => Points(d, n, inode_of(d, n))
         /\ \A n, i : Points(d, n, i) => n \in DOMAIN dir_index(d) /\ inode_of(d, n) = i
         /\ \A n, i : Points(d, n, i) => n \in Stored /\ i \in Inode
         /\ \A n : has_name(d, n) <=> on_disk(dirs[d], n) # {}
<1> DEFINE x == dir_index(d)
           B == dirs[d]
<1>1. IsIndex(x, B) /\ GoodDir(B)
  BY DirIndex DEF Types
<1>2. \A n : has_name(d, n) <=> n \in DOMAIN x
  BY DEF has_name
<1>3. \A n : inode_of(d, n) = x[n].ino
  BY DEF inode_of
<1> HIDE DEF x, B
<1>4. \A n, i : Points(d, n, i) <=> \E t : Holds(B, n, i, t)
  BY DEF Points, B
<1>5. \A n : n \in DOMAIN x <=> \E i : Points(d, n, i)
  BY <1>1, <1>4 DEF IsIndex
<1>6. ASSUME NEW n \in DOMAIN x PROVE Holds(B, n, x[n].ino, x[n].type)
  BY <1>1 DEF IsIndex
<1>7. ASSUME NEW n, NEW i, Points(d, n, i)
      PROVE  n \in DOMAIN x /\ x[n].ino = i /\ n \in Stored /\ i \in Inode
  <2>1. PICK t : Holds(B, n, i, t)
    BY <1>4, <1>7
  <2>2. n \in DOMAIN x
    BY <1>5, <1>7
  <2>3. Holds(B, n, x[n].ino, x[n].type)
    BY <1>6, <2>2
  <2>4. QED
    BY <1>1, <2>1, <2>2, <2>3, HoldsOne
<1>8. \A n : n \in DOMAIN x <=> on_disk(B, n) # {}
  BY <1>1, OnDisk DEF IsIndex
<1>9. \A n : has_name(d, n) => Points(d, n, inode_of(d, n))
  BY <1>2, <1>3, <1>4, <1>6
<1>10. QED
  BY <1>2, <1>3, <1>5, <1>7, <1>8, <1>9 DEF x, B

\* The cache after a lookup in directory d.
LEMMA IndexedOK ==
  ASSUME Types, Indexes, NEW d \in Inode, IsDir(d)
  PROVE  Indexed(indexed(d), inode, dirs)
<1>1. IsIndex(build_dir_index(d), dirs[d])
  BY BuildIndex DEF Types
<1>2. index = [i \in Inode |-> index[i]]
      /\ \A i \in Inode : index[i] # NotCached => inode[i].mode = "S_IFDIR" /\ IsIndex(index[i], dirs[i])
  BY DEF Indexes, Indexed
<1>3. CASE index[d] # NotCached
  BY <1>3 DEF indexed, Indexes
<1> DEFINE x == build_dir_index(d)
           c1 == [i \in Inode |-> IF i = d THEN x ELSE NotCached]
           c2 == [index EXCEPT ![d] = x]
<1> HIDE DEF x
<1>4. Indexed(c1, inode, dirs)
  BY <1>1 DEF Indexed, IsDir, x
<1>5. Indexed(c2, inode, dirs)
  <2>1. c2 = [i \in Inode |-> c2[i]] /\ \A i \in Inode : c2[i] = IF i = d THEN x ELSE index[i]
    BY <1>2
  <2> HIDE DEF c2
  <2>2. QED
    BY <1>1, <1>2, <2>1 DEF Indexed, IsDir, x
<1>6. CASE index[d] = NotCached
  <2>1. indexed(d) = c1 \/ indexed(d) = c2
    BY <1>6 DEF indexed, x
  <2>2. QED
    BY <1>4, <1>5, <2>1
<1>7. QED
  BY <1>3, <1>6

\* A cache with the index of an inode taken out.
LEMMA InvalidateOK ==
  ASSUME NEW c, NEW ino, NEW D, Indexed(c, ino, D), NEW i \in Inode
  PROVE  /\ Indexed(inode_caches_invalidate(c, i), ino, D)
         /\ inode_caches_invalidate(c, i)[i] = NotCached
         /\ \A j \in Inode : j # i => inode_caches_invalidate(c, i)[j] = c[j]
BY DEF Indexed, inode_caches_invalidate

\* A total after one value changed, or two.
LEMMA TotalSet ==
  ASSUME NEW S, IsFiniteSet(S), NEW f, NEW g, \A x \in S : f[x] \in Nat /\ g[x] \in Nat,
         NEW d \in S, \A x \in S : x # d => g[x] = f[x]
  PROVE  Total(g, S) + f[d] = Total(f, S) + g[d]
<1>1. Total(f, S) = Total(f, S \ {d}) + f[d] /\ Total(f, S \ {d}) \in Nat
  BY TotalSplit
<1>2. Total(g, S) = Total(g, S \ {d}) + g[d]
  BY TotalSplit
<1>3. Total(f, S \ {d}) = Total(g, S \ {d})
  BY TotalSame
<1>4. QED
  BY <1>1, <1>2, <1>3

\* Two values.
LEMMA TotalSetTwo ==
  ASSUME NEW S, IsFiniteSet(S), NEW f, NEW g, \A x \in S : f[x] \in Nat /\ g[x] \in Nat,
         NEW d \in S, NEW e \in S, d # e, \A x \in S : x # d /\ x # e => g[x] = f[x]
  PROVE  Total(g, S) + f[d] + f[e] = Total(f, S) + g[d] + g[e]
<1> DEFINE h == [x \in S |-> IF x = d THEN g[d] ELSE f[x]]
<1>1. \A x \in S : h[x] \in Nat /\ (x # d => h[x] = f[x]) /\ (x # e => g[x] = h[x])
  OBVIOUS
<1>2. h[d] = g[d] /\ h[e] = f[e]
  OBVIOUS
<1> HIDE DEF h
<1>3. Total(h, S) + f[d] = Total(f, S) + h[d]
  BY <1>1, TotalSet
<1>4. Total(g, S) + h[e] = Total(h, S) + g[e]
  BY <1>1, TotalSet
<1>5. Total(f, S) \in Nat /\ Total(g, S) \in Nat /\ Total(h, S) \in Nat
  BY <1>1, TotalSplit
<1>6. f[d] \in Nat /\ f[e] \in Nat /\ g[d] \in Nat /\ g[e] \in Nat
  OBVIOUS
<1>7. QED
  BY <1>2, <1>3, <1>4, <1>5, <1>6

-------------------------------------------------------------------------------
\* The empty file system.
LEMMA InitInv ==
  ASSUME Init
  PROVE  DirInv
<1>1. /\ used = {Root} /\ Root \in Inode /\ free = DataBlocks - 1
      /\ inode[Root] = [mode |-> "S_IFDIR", links |-> 2, blocks |-> 1]
      /\ \A i \in Inode : i # Root => inode[i] = no_inode
      /\ dirs[Root] = <<first_block(Root, Root)>> /\ \A i \in Inode : i # Root => dirs[i] = <<>>
      /\ \A i \in Inode : index[i] = NotCached
  BY DirAssumption DEF Init
<1>2. /\ GoodDir(dirs[Root]) /\ Len(dirs[Root]) = 1
      /\ \A n, j, t : Holds(dirs[Root], n, j, t) <=>
            t = "FT_DIR" /\ ((n = "." /\ j = Root) \/ (n = ".." /\ j = Root))
  BY <1>1, NewDir
<1>3. \A i \in Inode : i # Root => GoodDir(dirs[i]) /\ \A n, j, t : ~Holds(dirs[i], n, j, t)
  BY <1>1, NoBlocks
<1>4. \A d \in Inode : \A n, j : Points(d, n, j) <=> d = Root /\ j = Root /\ (n = "." \/ n = "..")
  BY <1>2, <1>3 DEF Points
<1>5. \A d \in Inode, n \in Name : \A j : ~Points(d, n, j)
  <2>1. \A n \in Name : n # "." /\ n # ".."
    BY DirAssumption DEF Dots
  <2>2. QED
    BY <1>4, <2>1
<1>6. Types
  <2>1. inode = [i \in Inode |-> inode[i]] /\ dirs = [i \in Inode |-> dirs[i]]
    BY DEF Init
  <2>2. \A i \in Inode : inode[i] \in InodeRecord
    BY <1>1, DirAssumption DEF InodeRecord, no_inode, Mode
  <2>3. inode \in [Inode -> InodeRecord]
    BY <2>1, <2>2
  <2>4. QED
    BY <1>1, <1>2, <1>3, <2>1, <2>3, DirAssumption DEF Types
<1>7. Indexes
  BY <1>1 DEF Indexes, Indexed, Init
<1>8. \A i \in Inode : IsDir(i) <=> i = Root
  BY <1>1 DEF IsDir, no_inode
<1>9. Trees
  <2>1. Mapped(dirs[Root], inode[Root].blocks)
    BY <1>1, <1>2 DEF Mapped
  <2>2. QED
    BY <1>1, <1>4, <1>8, <2>1 DEF Trees
<1>10. Owned
  BY <1>1, <1>5, <1>8 DEF Owned
<1>11. Counts
  <2>1. \A i \in Inode : ~IsNamed(i)
    BY <1>5 DEF IsNamed
  <2>2. Subs(Root) = {}
    BY <1>1, <1>5 DEF Subs
  <2>3. inode[Root].links = 2 + Cardinality(Subs(Root))
    BY <1>1, <2>2, FS_EmptySet
  <2>4. QED
    BY <1>8, <2>1, <2>3 DEF Counts
<1>12. Sums
  <2> DEFINE f == blocksOf
             z == [i \in Inode |-> 0]
  <2>1. \A i \in Inode : f[i] \in Nat /\ z[i] \in Nat /\ (i # Root => f[i] = z[i])
    BY <1>1 DEF blocksOf, no_inode
  <2>2. f[Root] = 1 /\ z[Root] = 0
    BY <1>1 DEF blocksOf
  <2>3. Cells(z, Inode) = {}
    BY DEF Cells
  <2>4. Total(z, Inode) = 0
    BY <2>3, FS_EmptySet DEF Total
  <2> HIDE DEF f, z
  <2>5. Total(f, Inode) + z[Root] = Total(z, Inode) + f[Root]
    BY <1>1, <2>1, TotalSet, DirAssumption
  <2>6. Total(f, Inode) \in Nat
    BY <2>1, TotalSplit, DirAssumption
  <2>7. QED
    BY <1>1, <2>2, <2>4, <2>5, <2>6, DirAssumption DEF Sums, f
<1>13. QED
  BY <1>6, <1>7, <1>9, <1>10, <1>11, <1>12 DEF DirInv

\* A step that changes the cache only, or marks an inode used.
LEMMA LookOnly ==
  ASSUME DirInv, UNCHANGED <<inode, dirs, free>>, Indexed(index', inode, dirs),
         used \subseteq used', used' \subseteq Inode
  PROVE  DirInv' /\ NamesKept /\ ModesKept
<1>1. /\ inode' = inode /\ dirs' = dirs /\ free' = free
      /\ Types /\ Trees /\ Owned /\ Counts /\ Sums
  BY DEF DirInv
<1>2. Types'
  BY <1>1 DEF Types
<1>3. Indexes'
  BY <1>1 DEF Indexes
<1>4. Trees'
  BY <1>1 DEF Trees, IsDir, Points
<1>5. Owned'
  <2>1. used \subseteq used'
    OBVIOUS
  <2>2. QED
    BY <1>1, <2>1 DEF Owned, IsDir, Points, IsNamed
<1>6. Counts'
  BY <1>1 DEF Counts, IsDir, Points, IsNamed, Subs, NamesOf
<1>7. Sums'
  BY <1>1 DEF Sums, blocksOf
<1>8. NamesKept /\ ModesKept
  BY <1>1 DEF NamesKept, ModesKept, Points
<1>9. QED
  BY <1>2, <1>3, <1>4, <1>5, <1>6, <1>7, <1>8 DEF DirInv

\* A call that returns and has changed no more than the cache.
LEMMA ReturnsInv ==
  ASSUME DirInv, NEW c, Indexed(c, inode, dirs), returns(c)
  PROVE  DirInv' /\ Effect
<1>1. UNCHANGED <<inode, dirs, free, used>> /\ index' = c /\ done' = "none"
  BY DEF returns
<1>2. used \subseteq used' /\ used' \subseteq Inode
  BY <1>1 DEF DirInv, Types
<1>3. DirInv' /\ NamesKept /\ ModesKept
  BY <1>1, <1>2, LookOnly
<1>4. QED
  BY <1>1, <1>3 DEF Effect

-------------------------------------------------------------------------------
\* A directory is in use, and so is what has a name.
LEMMA DirUsed ==
  ASSUME Owned, NEW d \in Inode, IsDir(d)
  PROVE  d \in used
BY DEF Owned, IsNamed, IsDir, no_inode

\* An inode that is not in use has no name, no mode and no entries.
LEMMA Fresh ==
  ASSUME Types, Trees, Owned, NEW i \in Inode, i \notin used
  PROVE  /\ i # Root /\ ~IsDir(i) /\ inode[i] = no_inode /\ dirs[i] = <<>>
         /\ \A e \in Inode, m \in Name : ~Points(e, m, i)
         /\ \A m, j : ~Points(i, m, j)
         /\ \A d \in Inode : IsDir(d) => i # d
<1>1. i # Root /\ \A e \in Inode, m \in Name : ~Points(e, m, i)
  BY DEF Owned
<1>2. inode[i] = no_inode
  BY <1>1 DEF Owned, IsNamed
<1>3. ~IsDir(i)
  BY <1>2 DEF IsDir, no_inode
<1>4. dirs[i] = <<>>
  BY <1>3 DEF Trees
<1>5. \A m, j : ~Points(i, m, j)
  BY <1>4, NoBlocks DEF Points
<1>6. QED
  BY <1>1, <1>2, <1>3, <1>4, <1>5

\* The entries after a name is added to directory d.
LEMMA PointsAdded ==
  ASSUME Types, NEW d \in Inode, NEW C, NEW n, NEW i, NEW t, DirAdded(dirs[d], C, n, i, t),
         dirs' = [dirs EXCEPT ![d] = C]
  PROVE  /\ \A e \in Inode : \A m, j : Points(e, m, j)' <=> Points(e, m, j) \/ (e = d /\ m = n /\ j = i)
         /\ dirs'[d] = C /\ \A e \in Inode : e # d => dirs'[e] = dirs[e]
<1>1. dirs = [j \in Inode |-> dirs[j]]
  BY DEF Types
<1>2. dirs'[d] = C /\ \A e \in Inode : e # d => dirs'[e] = dirs[e]
  BY <1>1
<1>3. QED
  BY <1>2 DEF Points, DirAdded

\* A step that gives blocks to one inode, or takes them, and counts them,
LEMMA SumsOne ==
  ASSUME Types, Types', Sums, NEW d \in Inode,
         \A j \in Inode : j # d => inode'[j].blocks = inode[j].blocks,
         free' + inode'[d].blocks = free + inode[d].blocks
  PROVE  Sums'
<1> DEFINE f == blocksOf
           g == blocksOf'
<1>1. \A j \in Inode : f[j] = inode[j].blocks /\ g[j] = inode'[j].blocks
  BY DEF blocksOf
<1>2. \A j \in Inode : f[j] \in Nat /\ g[j] \in Nat
  BY <1>1 DEF Types, InodeRecord
<1>3. \A j \in Inode : j # d => g[j] = f[j]
  BY <1>1
<1>4. free' + g[d] = free + f[d] /\ free \in Nat /\ free' \in Nat
  BY <1>1 DEF Types
<1>5. free + Total(f, Inode) = DataBlocks /\ IsFiniteSet(Inode)
  BY DirAssumption DEF Sums
<1> HIDE DEF f, g
<1>6. Total(g, Inode) + f[d] = Total(f, Inode) + g[d]
  BY <1>2, <1>3, <1>5, TotalSet
<1>7. Total(g, Inode) \in Nat /\ Total(f, Inode) \in Nat
  BY <1>2, <1>5, TotalSplit
<1>8. f[d] \in Nat /\ g[d] \in Nat
  BY <1>2
<1>9. free' + Total(g, Inode) = DataBlocks
  BY <1>4, <1>5, <1>6, <1>7, <1>8
<1>10. QED
  BY <1>9 DEF Sums, g

\* or to two.
LEMMA SumsTwo ==
  ASSUME Types, Types', Sums, NEW d \in Inode, NEW e \in Inode, d # e,
         \A j \in Inode : j # d /\ j # e => inode'[j].blocks = inode[j].blocks,
         free' + inode'[d].blocks + inode'[e].blocks = free + inode[d].blocks + inode[e].blocks
  PROVE  Sums'
<1> DEFINE f == blocksOf
           g == blocksOf'
<1>1. \A j \in Inode : f[j] = inode[j].blocks /\ g[j] = inode'[j].blocks
  BY DEF blocksOf
<1>2. \A j \in Inode : f[j] \in Nat /\ g[j] \in Nat
  BY <1>1 DEF Types, InodeRecord
<1>3. \A j \in Inode : j # d /\ j # e => g[j] = f[j]
  BY <1>1
<1>4. free' + g[d] + g[e] = free + f[d] + f[e] /\ free \in Nat /\ free' \in Nat
  BY <1>1 DEF Types
<1>5. free + Total(f, Inode) = DataBlocks /\ IsFiniteSet(Inode)
  BY DirAssumption DEF Sums
<1> HIDE DEF f, g
<1>6. Total(g, Inode) + f[d] + f[e] = Total(f, Inode) + g[d] + g[e]
  BY <1>2, <1>3, <1>5, TotalSetTwo
<1>7. Total(g, Inode) \in Nat /\ Total(f, Inode) \in Nat
  BY <1>2, <1>5, TotalSplit
<1>8. f[d] \in Nat /\ g[d] \in Nat /\ f[e] \in Nat /\ g[e] \in Nat
  BY <1>2
<1>9. free' + Total(g, Inode) = DataBlocks
  BY <1>4, <1>5, <1>6, <1>7, <1>8
<1>10. QED
  BY <1>9 DEF Sums, g

\* A file, special file or symbolic link i is made in directory d.
LEMMA NewFile ==
  ASSUME DirInv, NEW d \in Inode, IsDir(d), NEW n \in Name, \A j : ~Points(d, n, j),
         NEW i \in Inode, i \notin used, NEW mode \in Mode, mode # "S_IFDIR",
         NEW C, GoodDir(C), NEW b \in Nat, Mapped(C, b), NEW k \in Nat,
         NEW t, DirAdded(dirs[d], C, n, i, t),
         used' = used \cup {i}, dirs' = [dirs EXCEPT ![d] = C],
         inode' = [inode EXCEPT ![d].blocks = b, ![i] = [mode |-> mode, links |-> 1, blocks |-> k]],
         free' \in Nat, free' + b + k = free + inode[d].blocks,
         Indexed(index', inode', dirs')
  PROVE  DirInv' /\ ModesKept /\ NewName(d, n, i) /\ inode'[i].mode \in Mode
<1>1. Types /\ Trees /\ Owned /\ Counts /\ Sums
  BY DEF DirInv
<1>2. /\ i # Root /\ ~IsDir(i) /\ inode[i] = no_inode /\ dirs[i] = <<>>
      /\ \A e \in Inode, m \in Name : ~Points(e, m, i)
      /\ \A m, j : ~Points(i, m, j) /\ i # d
  BY <1>1, Fresh
<1>3. /\ \A e \in Inode : \A m, j : Points(e, m, j)' <=> Points(e, m, j) \/ (e = d /\ m = n /\ j = i)
      /\ dirs'[d] = C /\ \A e \in Inode : e # d => dirs'[e] = dirs[e]
  BY <1>1, PointsAdded
<1>4. /\ inode'[i] = [mode |-> mode, links |-> 1, blocks |-> k]
      /\ inode'[d] = [inode[d] EXCEPT !.blocks = b]
      /\ \A j \in Inode : j # i /\ j # d => inode'[j] = inode[j]
  BY <1>1, <1>2 DEF Types
<1>5. inode[d] \in InodeRecord /\ inode[i].blocks = 0 /\ inode[i].mode = "none"
  BY <1>1, <1>2, InodeFacts DEF no_inode
<1>6. /\ inode'[d].mode = inode[d].mode /\ inode'[d].links = inode[d].links /\ inode'[d].blocks = b
      /\ inode'[d] \in InodeRecord
  BY <1>4, <1>5 DEF InodeRecord
<1>7. /\ inode'[i].mode = mode /\ inode'[i].links = 1 /\ inode'[i].blocks = k
      /\ inode'[i] \in InodeRecord /\ mode # "none"
  <2>1. 1 \in 0 .. MaxLinks
    BY DirAssumption
  <2>2. mode # "none"
    BY DirAssumption DEF Mode
  <2>3. [mode |-> mode, links |-> 1, blocks |-> k] \in InodeRecord
    BY <2>1 DEF InodeRecord
  <2>4. inode'[i] \in InodeRecord
    BY <1>4, <2>3, Zenon
  <2>5. inode'[i].mode = mode /\ inode'[i].links = 1 /\ inode'[i].blocks = k
    <3>1. inode'[i] = [mode |-> mode, links |-> 1, blocks |-> k]
      BY <1>4
    <3>2. QED
      BY ONLY <3>1
  <2>6. QED
    BY <2>2, <2>4, <2>5
<1>8. \A j \in Inode : /\ IsDir(j)' <=> IsDir(j)
                       /\ j # i => inode'[j].links = inode[j].links /\ inode'[j].mode = inode[j].mode
  BY <1>2, <1>4, <1>6, <1>7 DEF IsDir
<1>9. Types'
  <2>1. inode' = [j \in Inode |-> inode'[j]] /\ dirs' = [j \in Inode |-> dirs'[j]]
    BY <1>1 DEF Types
  <2>2. \A j \in Inode : inode'[j] \in InodeRecord
    BY <1>1, <1>4, <1>6, <1>7, InodeFacts
  <2>3. inode' \in [Inode -> InodeRecord]
    BY <2>1, <2>2
  <2>4. \A j \in Inode : GoodDir(dirs'[j])
    BY <1>1, <1>3 DEF Types
  <2>5. used' \in SUBSET Inode
    BY <1>1 DEF Types
  <2>6. QED
    BY <2>1, <2>3, <2>4, <2>5 DEF Types
<1>10. Indexes'
  BY DEF Indexes
<1>11. Trees'
  <2> SUFFICES ASSUME NEW j \in Inode
               PROVE  /\ ~IsDir(j)' => dirs'[j] = <<>>
                      /\ IsDir(j)' => /\ Mapped(dirs'[j], inode'[j].blocks)
                                      /\ Points(j, ".", j)'
                                      /\ \E p \in Inode : /\ Points(j, "..", p)'
                                                          /\ j = Root \/ \E m \in Name : Points(p, m, j)'
    BY DEF Trees
  <2>1. ASSUME ~IsDir(j) PROVE dirs'[j] = <<>>
    BY <1>1, <1>3, <2>1 DEF Trees
  <2>2. ASSUME IsDir(j) PROVE Mapped(dirs'[j], inode'[j].blocks)
    <3>1. CASE j = d
      BY <1>3, <1>6, <3>1
    <3>2. CASE j # d
      <4>1. dirs'[j] = dirs[j] /\ inode'[j] = inode[j]
        BY <1>2, <1>3, <1>4, <2>2, <3>2
      <4>2. Mapped(dirs[j], inode[j].blocks)
        BY <1>1, <2>2 DEF Trees
      <4>3. QED
        BY <4>1, <4>2
    <3>3. QED
      BY <3>1, <3>2
  <2>3. ASSUME IsDir(j)
        PROVE  /\ Points(j, ".", j)'
               /\ \E p \in Inode : Points(j, "..", p)' /\ (j = Root \/ \E m \in Name : Points(p, m, j)')
    BY <1>1, <1>3, <2>3 DEF Trees
  <2>4. QED
    BY <1>8, <2>1, <2>2, <2>3
<1>12. Owned'
  <2>1. IsDir(Root)' /\ Root \in used'
    BY <1>1, <1>8, DirAssumption DEF Owned
  <2>2. ASSUME NEW j \in Inode, j # Root, ~IsNamed(j)' PROVE inode'[j] = no_inode
    <3>1. ~IsNamed(j) /\ j # i
      BY <1>3, <2>2 DEF IsNamed
    <3>2. inode[j] = no_inode
      BY <1>1, <2>2, <3>1 DEF Owned
    <3>3. j # d
      BY <3>2 DEF IsDir, no_inode
    <3>4. QED
      BY <1>4, <3>1, <3>2, <3>3
  <2>3. ASSUME NEW e \in Inode, NEW j \in Inode, NEW m \in Name, Points(e, m, j)'
        PROVE  j \in used' /\ inode'[j].mode # "none" /\ j # Root /\ j # e
    <3>1. CASE Points(e, m, j)
      BY <1>1, <1>2, <1>8, <3>1 DEF Owned
    <3>2. CASE e = d /\ j = i
      BY <1>2, <1>7, <3>2
    <3>3. QED
      BY <1>3, <2>3, <3>1, <3>2
  <2>4. ASSUME NEW j \in Inode, NEW e \in Inode, NEW f \in Inode, NEW m \in Name, NEW l \in Name,
               IsDir(j)', Points(e, m, j)', Points(f, l, j)'
        PROVE  e = f /\ m = l
    BY <1>1, <1>2, <1>3, <1>8, <2>4 DEF Owned
  <2>5. QED
    BY <2>1, <2>2, <2>3, <2>4 DEF Owned
<1>13. Counts'
  <2> SUFFICES ASSUME NEW j \in Inode, j = Root \/ IsNamed(j)'
               PROVE  inode'[j].links = IF IsDir(j)' THEN 2 + Cardinality(Subs(j)')
                                        ELSE Cardinality(NamesOf(j)')
    BY DEF Counts
  <2>1. CASE j = i
    <3>1. NamesOf(i)' = {<<d, n>>}
      BY <1>2, <1>3 DEF NamesOf
    <3>2. Cardinality(NamesOf(i)') = 1
      BY <3>1, FS_Singleton
    <3>3. QED
      BY <1>2, <1>7, <1>8, <2>1, <3>2
  <2>2. CASE j # i
    <3>1. NamesOf(j)' = NamesOf(j)
      BY <1>3, <2>2 DEF NamesOf
    <3>2. Subs(j)' = Subs(j)
      BY <1>2, <1>3, <1>8, <2>2 DEF Subs
    <3>3. IsNamed(j)' => IsNamed(j)
      BY <1>3, <2>2 DEF IsNamed
    <3>4. QED
      BY <1>1, <1>8, <2>2, <3>1, <3>2, <3>3 DEF Counts
  <2>3. QED
    BY <2>1, <2>2
<1>14. Sums'
  <2>1. \A j \in Inode : j # d /\ j # i => inode'[j].blocks = inode[j].blocks
    BY <1>4
  <2>2. free' + inode'[d].blocks + inode'[i].blocks = free + inode[d].blocks + inode[i].blocks
    <3>1. inode[d].blocks \in Nat /\ free \in Nat
      BY <1>1, InodeFacts DEF Types
    <3>2. QED
      BY <1>5, <1>6, <1>7, <3>1
  <2>3. QED
    BY <1>1, <1>2, <1>9, <2>1, <2>2, SumsTwo
<1>15. ModesKept /\ NewName(d, n, i) /\ inode'[i].mode \in Mode
  <2>1. NewName(d, n, i)
    BY <1>3 DEF NewName
  <2>2. ModesKept
    BY <1>2, <1>8 DEF ModesKept, IsNamed
  <2>3. QED
    BY <1>7, <2>1, <2>2
<1>16. QED
  BY <1>15, <1>9, <1>10, <1>11, <1>12, <1>13, <1>14 DEF DirInv

\* There are finitely many names.
LEMMA NamesFinite ==
  ASSUME NEW i
  PROVE  /\ IsFiniteSet(NamesOf(i)) /\ Cardinality(NamesOf(i)) \in Nat
         /\ IsFiniteSet(Subs(i)) /\ Cardinality(Subs(i)) \in Nat
<1>1. IsFiniteSet(Inode) /\ IsFiniteSet(Name)
  BY DirAssumption
<1>2. IsFiniteSet(Inode \X Name)
  BY <1>1, FS_Product
<1>3. NamesOf(i) \in SUBSET (Inode \X Name) /\ Subs(i) \in SUBSET Name
  BY DEF NamesOf, Subs
<1>4. IsFiniteSet(NamesOf(i)) /\ IsFiniteSet(Subs(i))
  BY <1>1, <1>2, <1>3, FS_Subset
<1>5. QED
  BY <1>4, FS_CardinalityType

\* link_inode gives a file one more name.
LEMMA LinkFile ==
  ASSUME DirInv, NEW d \in Inode, IsDir(d), NEW n \in Name, \A j : ~Points(d, n, j),
         NEW i \in Inode, ~IsDir(i), IsNamed(i), inode[i].links < MaxLinks,
         NEW C, GoodDir(C), NEW b \in Nat, Mapped(C, b),
         NEW t, DirAdded(dirs[d], C, n, i, t),
         used' = used, dirs' = [dirs EXCEPT ![d] = C],
         inode' = [inode EXCEPT ![d].blocks = b, ![i].links = saturating_add(@)],
         free' \in Nat, free' + b = free + inode[d].blocks,
         Indexed(index', inode', dirs')
  PROVE  DirInv' /\ ModesKept /\ NewName(d, n, i)
<1>1. Types /\ Trees /\ Owned /\ Counts /\ Sums
  BY DEF DirInv
<1>2. i # d /\ i # Root /\ i \in used /\ inode[i].mode # "none"
  BY <1>1 DEF Owned, IsNamed, IsDir
<1>3. /\ \A e \in Inode : \A m, j : Points(e, m, j)' <=> Points(e, m, j) \/ (e = d /\ m = n /\ j = i)
      /\ dirs'[d] = C /\ \A e \in Inode : e # d => dirs'[e] = dirs[e]
  BY <1>1, PointsAdded
<1>4. /\ inode'[i] = [inode[i] EXCEPT !.links = saturating_add(@)]
      /\ inode'[d] = [inode[d] EXCEPT !.blocks = b]
      /\ \A j \in Inode : j # i /\ j # d => inode'[j] = inode[j]
  BY <1>1, <1>2 DEF Types
<1>5. /\ inode[d] \in InodeRecord /\ inode[i] \in InodeRecord
      /\ inode[i].links \in Nat /\ inode[i].blocks \in Nat /\ inode[d].blocks \in Nat /\ MaxLinks \in Nat
  BY <1>1, InodeFacts
<1>6. /\ inode'[d].mode = inode[d].mode /\ inode'[d].links = inode[d].links /\ inode'[d].blocks = b
      /\ inode'[d] \in InodeRecord
  BY <1>4, <1>5 DEF InodeRecord
<1>7. /\ inode'[i].mode = inode[i].mode /\ inode'[i].links = inode[i].links + 1
      /\ inode'[i].blocks = inode[i].blocks /\ inode'[i] \in InodeRecord
  <2>1. saturating_add(inode[i].links) = inode[i].links + 1 /\ inode[i].links + 1 \in 0 .. MaxLinks
    BY <1>5 DEF saturating_add
  <2>2. inode'[i] = [inode[i] EXCEPT !.links = inode[i].links + 1]
    BY <1>4, <2>1
  <2>3. QED
    BY <1>5, <2>1, <2>2 DEF InodeRecord
<1>8. \A j \in Inode : /\ IsDir(j)' <=> IsDir(j)
                       /\ inode'[j].mode = inode[j].mode
                       /\ j # i => inode'[j].links = inode[j].links
  BY <1>4, <1>6, <1>7 DEF IsDir
<1>9. Types'
  <2>1. inode' = [j \in Inode |-> inode'[j]] /\ dirs' = [j \in Inode |-> dirs'[j]]
    BY <1>1 DEF Types
  <2>2. \A j \in Inode : inode'[j] \in InodeRecord
    BY <1>1, <1>4, <1>6, <1>7, InodeFacts
  <2>3. inode' \in [Inode -> InodeRecord]
    BY <2>1, <2>2
  <2>4. \A j \in Inode : GoodDir(dirs'[j])
    BY <1>1, <1>3 DEF Types
  <2>5. used' \in SUBSET Inode
    BY <1>1 DEF Types
  <2>6. QED
    BY <2>1, <2>3, <2>4, <2>5 DEF Types
<1>10. Indexes'
  BY DEF Indexes
<1>11. Trees'
  <2> SUFFICES ASSUME NEW j \in Inode
               PROVE  /\ ~IsDir(j)' => dirs'[j] = <<>>
                      /\ IsDir(j)' => /\ Mapped(dirs'[j], inode'[j].blocks)
                                      /\ Points(j, ".", j)'
                                      /\ \E p \in Inode : /\ Points(j, "..", p)'
                                                          /\ j = Root \/ \E m \in Name : Points(p, m, j)'
    BY DEF Trees
  <2>1. ASSUME ~IsDir(j) PROVE dirs'[j] = <<>>
    BY <1>1, <1>3, <2>1 DEF Trees
  <2>2. ASSUME IsDir(j) PROVE Mapped(dirs'[j], inode'[j].blocks)
    <3>1. CASE j = d
      BY <1>3, <1>6, <3>1
    <3>2. CASE j # d
      <4>1. dirs'[j] = dirs[j] /\ inode'[j] = inode[j]
        BY <1>3, <1>4, <2>2, <3>2
      <4>2. Mapped(dirs[j], inode[j].blocks)
        BY <1>1, <2>2 DEF Trees
      <4>3. QED
        BY <4>1, <4>2
    <3>3. QED
      BY <3>1, <3>2
  <2>3. ASSUME IsDir(j)
        PROVE  /\ Points(j, ".", j)'
               /\ \E p \in Inode : Points(j, "..", p)' /\ (j = Root \/ \E m \in Name : Points(p, m, j)')
    BY <1>1, <1>3, <2>3 DEF Trees
  <2>4. QED
    BY <1>8, <2>1, <2>2, <2>3
<1>12. Owned'
  <2>1. IsDir(Root)' /\ Root \in used'
    BY <1>1, <1>8, DirAssumption DEF Owned
  <2>2. ASSUME NEW j \in Inode, j # Root, ~IsNamed(j)' PROVE inode'[j] = no_inode
    <3>1. ~IsNamed(j) /\ j # i
      BY <1>3, <2>2 DEF IsNamed
    <3>2. inode[j] = no_inode
      BY <1>1, <2>2, <3>1 DEF Owned
    <3>3. j # d
      BY <3>2 DEF IsDir, no_inode
    <3>4. QED
      BY <1>4, <3>1, <3>2, <3>3
  <2>3. ASSUME NEW e \in Inode, NEW j \in Inode, NEW m \in Name, Points(e, m, j)'
        PROVE  j \in used' /\ inode'[j].mode # "none" /\ j # Root /\ j # e
    <3>1. CASE Points(e, m, j)
      BY <1>1, <1>8, <3>1 DEF Owned
    <3>2. CASE e = d /\ j = i
      BY <1>2, <1>7, <3>2
    <3>3. QED
      BY <1>3, <2>3, <3>1, <3>2
  <2>4. ASSUME NEW j \in Inode, NEW e \in Inode, NEW f \in Inode, NEW m \in Name, NEW l \in Name,
               IsDir(j)', Points(e, m, j)', Points(f, l, j)'
        PROVE  e = f /\ m = l
    BY <1>1, <1>3, <1>8, <2>4 DEF Owned
  <2>5. QED
    BY <2>1, <2>2, <2>3, <2>4 DEF Owned
<1>13. Counts'
  <2> SUFFICES ASSUME NEW j \in Inode, j = Root \/ IsNamed(j)'
               PROVE  inode'[j].links = IF IsDir(j)' THEN 2 + Cardinality(Subs(j)')
                                        ELSE Cardinality(NamesOf(j)')
    BY DEF Counts
  <2>1. CASE j = i
    <3>1. NamesOf(i)' = NamesOf(i) \cup {<<d, n>>}
      BY <1>3 DEF NamesOf
    <3>2. <<d, n>> \notin NamesOf(i)
      BY DEF NamesOf
    <3>3. Cardinality(NamesOf(i) \cup {<<d, n>>}) = Cardinality(NamesOf(i)) + 1
      BY <3>2, NamesFinite, FS_AddElement
    <3>4. inode[i].links = Cardinality(NamesOf(i))
      BY <1>1 DEF Counts
    <3>5. QED
      BY <1>7, <1>8, <2>1, <3>1, <3>3, <3>4
  <2>2. CASE j # i
    <3>1. NamesOf(j)' = NamesOf(j)
      BY <1>3, <2>2 DEF NamesOf
    <3>2. Subs(j)' = Subs(j)
      BY <1>3, <1>8, <2>2 DEF Subs
    <3>3. IsNamed(j)' => IsNamed(j)
      BY <1>3, <2>2 DEF IsNamed
    <3>4. QED
      BY <1>1, <1>8, <2>2, <3>1, <3>2, <3>3 DEF Counts
  <2>3. QED
    BY <2>1, <2>2
<1>14. Sums'
  <2>1. \A j \in Inode : j # d => inode'[j].blocks = inode[j].blocks
    BY <1>4, <1>7
  <2>2. QED
    BY <1>1, <1>6, <1>9, <2>1, SumsOne
<1>15. ModesKept /\ NewName(d, n, i)
  BY <1>3, <1>8 DEF ModesKept, NewName
<1>16. QED
  BY <1>15, <1>9, <1>10, <1>11, <1>12, <1>13, <1>14 DEF DirInv

\* create_dir makes directory i in directory d.
LEMMA NewDirectory ==
  ASSUME DirInv, NEW d \in Inode, IsDir(d), NEW n \in Name, \A j : ~Points(d, n, j),
         NEW i \in Inode, i \notin used, inode[d].links < MaxLinks,
         NEW C, GoodDir(C), NEW b \in Nat, Mapped(C, b),
         NEW t, DirAdded(dirs[d], C, n, i, t),
         used' = used \cup {i}, dirs' = [dirs EXCEPT ![i] = <<first_block(i, d)>>, ![d] = C],
         inode' = [inode EXCEPT ![i] = [mode |-> "S_IFDIR", links |-> 2, blocks |-> 1],
                                ![d].blocks = b, ![d].links = saturating_add(@)],
         free' \in Nat, free' + b + 1 = free + inode[d].blocks,
         Indexed(index', inode', dirs')
  PROVE  DirInv' /\ ModesKept /\ NewName(d, n, i) /\ inode'[i].mode \in Mode
<1>1. Types /\ Trees /\ Owned /\ Counts /\ Sums
  BY DEF DirInv
<1>2. /\ i # Root /\ ~IsDir(i) /\ inode[i] = no_inode /\ dirs[i] = <<>>
      /\ \A e \in Inode, m \in Name : ~Points(e, m, i)
      /\ \A m, j : ~Points(i, m, j) /\ i # d
  BY <1>1, Fresh
<1>3. /\ dirs'[d] = C /\ dirs'[i] = <<first_block(i, d)>>
      /\ \A e \in Inode : e # d /\ e # i => dirs'[e] = dirs[e]
  BY <1>1, <1>2 DEF Types
<1>n. \A m \in Name : m # "." /\ m # ".."
  BY DirAssumption DEF Dots
<1>p. \A e \in Inode : \A m, j : Points(e, m, j)' <=>
         \/ Points(e, m, j)
         \/ e = d /\ m = n /\ j = i
         \/ e = i /\ ((m = "." /\ j = i) \/ (m = ".." /\ j = d))
  <2> TAKE e \in Inode
  <2> TAKE m, j
  <2>1. CASE e = d
    <3>1. Points(d, m, j) <=> \E u : Holds(dirs[d], m, j, u)
      BY DEF Points
    <3>2. Points(d, m, j)' <=> \E u : Holds(C, m, j, u)
      BY <1>3 DEF Points
    <3>3. Points(d, m, j)' <=> Points(d, m, j) \/ (m = n /\ j = i)
      BY <3>1, <3>2 DEF DirAdded
    <3>4. QED
      BY <1>2, <2>1, <3>3
  <2>2. CASE e = i
    <3>1. Points(i, m, j)' <=> \E u : Holds(<<first_block(i, d)>>, m, j, u)
      BY <1>3 DEF Points
    <3>2. Points(i, m, j)' <=> (m = "." /\ j = i) \/ (m = ".." /\ j = d)
      <4>1. \A l, x, u : Holds(<<first_block(i, d)>>, l, x, u) <=>
               u = "FT_DIR" /\ ((l = "." /\ x = i) \/ (l = ".." /\ x = d))
        BY NewDir
      <4>2. QED
        BY <3>1, <4>1, Zenon
    <3>3. QED
      BY <1>2, <2>2, <3>2
  <2>3. CASE e # d /\ e # i
    BY <1>3, <2>3 DEF Points
  <2>4. QED
    BY <2>1, <2>2, <2>3
<1>q. \A e \in Inode, m \in Name : \A j : Points(e, m, j)' <=> Points(e, m, j) \/ (e = d /\ m = n /\ j = i)
  BY <1>n, <1>p
<1>4. /\ inode'[i] = [mode |-> "S_IFDIR", links |-> 2, blocks |-> 1]
      /\ inode'[d] = [inode[d] EXCEPT !.blocks = b, !.links = saturating_add(@)]
      /\ \A j \in Inode : j # i /\ j # d => inode'[j] = inode[j]
  BY <1>1, <1>2 DEF Types
<1>5. /\ inode[d] \in InodeRecord /\ inode[i].blocks = 0 /\ inode[i].mode = "none"
      /\ inode[d].links \in Nat /\ inode[d].blocks \in Nat /\ MaxLinks \in Nat
  BY <1>1, <1>2, InodeFacts DEF no_inode
<1>6. /\ inode'[d].mode = inode[d].mode /\ inode'[d].links = inode[d].links + 1 /\ inode'[d].blocks = b
      /\ inode'[d] \in InodeRecord
  <2>1. PICK l \in 0 .. MaxLinks : l = inode[d].links + 1 /\ l = saturating_add(inode[d].links)
    BY <1>5 DEF saturating_add
  <2>2. inode'[d] = [inode[d] EXCEPT !.blocks = b, !.links = l]
    BY <1>4, <1>5, <2>1 DEF InodeRecord
  <2>3. inode'[d] \in InodeRecord /\ inode'[d].mode = inode[d].mode /\ inode'[d].links = l
        /\ inode'[d].blocks = b
    <3> DEFINE v == inode'[d]
               w == inode[d]
    <3>1. w \in InodeRecord /\ v = [w EXCEPT !.blocks = b, !.links = l]
      BY <1>5, <2>2
    <3> HIDE DEF v, w
    <3>2. v \in InodeRecord /\ v.mode = w.mode /\ v.links = l /\ v.blocks = b
      BY ONLY <3>1, l \in 0 .. MaxLinks, b \in Nat DEF InodeRecord
    <3>3. QED
      BY <3>2 DEF v, w
  <2>4. QED
    BY <2>1, <2>3
<1>7. /\ inode'[i].mode = "S_IFDIR" /\ inode'[i].links = 2 /\ inode'[i].blocks = 1
      /\ inode'[i] \in InodeRecord
  <2>1. 2 \in 0 .. MaxLinks
    BY DirAssumption
  <2>2. [mode |-> "S_IFDIR", links |-> 2, blocks |-> 1] \in InodeRecord
    BY <2>1 DEF InodeRecord, Mode
  <2>3. inode'[i] \in InodeRecord
    BY <1>4, <2>2, Zenon
  <2>4. inode'[i].mode = "S_IFDIR" /\ inode'[i].links = 2 /\ inode'[i].blocks = 1
    <3>1. inode'[i] = [mode |-> "S_IFDIR", links |-> 2, blocks |-> 1]
      BY <1>4
    <3>2. QED
      BY ONLY <3>1
  <2>5. QED
    BY <2>3, <2>4
<1>8. \A j \in Inode : /\ IsDir(j)' <=> IsDir(j) \/ j = i
                       /\ j # i => inode'[j].mode = inode[j].mode
                       /\ j # i /\ j # d => inode'[j].links = inode[j].links
  BY <1>4, <1>6, <1>7 DEF IsDir
<1>9. Types'
  <2>1. inode' = [j \in Inode |-> inode'[j]] /\ dirs' = [j \in Inode |-> dirs'[j]]
    BY <1>1 DEF Types
  <2>2. \A j \in Inode : inode'[j] \in InodeRecord
    BY <1>1, <1>4, <1>6, <1>7, InodeFacts
  <2>3. inode' \in [Inode -> InodeRecord]
    BY <2>1, <2>2
  <2>4. \A j \in Inode : GoodDir(dirs'[j])
    BY <1>1, <1>3, NewDir DEF Types
  <2>5. used' \in SUBSET Inode
    BY <1>1 DEF Types
  <2>6. QED
    BY <2>1, <2>3, <2>4, <2>5 DEF Types
<1>10. Indexes'
  BY DEF Indexes
<1>11. Trees'
  <2> SUFFICES ASSUME NEW j \in Inode
               PROVE  /\ ~IsDir(j)' => dirs'[j] = <<>>
                      /\ IsDir(j)' => /\ Mapped(dirs'[j], inode'[j].blocks)
                                      /\ Points(j, ".", j)'
                                      /\ \E p \in Inode : /\ Points(j, "..", p)'
                                                          /\ j = Root \/ \E m \in Name : Points(p, m, j)'
    BY DEF Trees
  <2>1. ASSUME ~IsDir(j)' PROVE dirs'[j] = <<>>
    <3>1. ~IsDir(j) /\ j # i /\ j # d
      BY <1>8, <2>1
    <3>2. QED
      BY <1>1, <1>3, <3>1 DEF Trees
  <2>2. ASSUME IsDir(j)' PROVE Mapped(dirs'[j], inode'[j].blocks)
    <3>1. CASE j = d
      BY <1>3, <1>6, <3>1
    <3>2. CASE j = i
      <4>1. Len(dirs'[i]) = 1
        BY <1>3, NewDir
      <4>2. QED
        BY <1>7, <3>2, <4>1 DEF Mapped
    <3>3. CASE j # d /\ j # i
      <4>1. dirs'[j] = dirs[j] /\ inode'[j] = inode[j] /\ IsDir(j)
        BY <1>3, <1>4, <1>8, <2>2, <3>3
      <4>2. Mapped(dirs[j], inode[j].blocks)
        BY <1>1, <4>1 DEF Trees
      <4>3. QED
        BY <4>1, <4>2
    <3>4. QED
      BY <3>1, <3>2, <3>3
  <2>3. ASSUME IsDir(j)'
        PROVE  /\ Points(j, ".", j)'
               /\ \E p \in Inode : Points(j, "..", p)' /\ (j = Root \/ \E m \in Name : Points(p, m, j)')
    <3>1. CASE j = i
      BY <1>p, <3>1
    <3>2. CASE IsDir(j)
      BY <1>1, <1>p, <3>2 DEF Trees
    <3>3. QED
      BY <1>8, <2>3, <3>1, <3>2
  <2>4. QED
    BY <2>1, <2>2, <2>3
<1>12. Owned'
  <2>1. IsDir(Root)' /\ Root \in used'
    BY <1>1, <1>8, DirAssumption DEF Owned
  <2>2. ASSUME NEW j \in Inode, j # Root, ~IsNamed(j)' PROVE inode'[j] = no_inode
    <3>1. ~IsNamed(j) /\ j # i
      BY <1>q, <2>2 DEF IsNamed
    <3>2. inode[j] = no_inode
      BY <1>1, <2>2, <3>1 DEF Owned
    <3>3. j # d
      BY <3>2 DEF IsDir, no_inode
    <3>4. QED
      BY <1>4, <3>1, <3>2, <3>3
  <2>3. ASSUME NEW e \in Inode, NEW j \in Inode, NEW m \in Name, Points(e, m, j)'
        PROVE  j \in used' /\ inode'[j].mode # "none" /\ j # Root /\ j # e
    <3>1. CASE Points(e, m, j)
      BY <1>1, <1>2, <1>8, <3>1 DEF Owned
    <3>2. CASE e = d /\ j = i
      BY <1>2, <1>7, <3>2
    <3>3. QED
      BY <1>q, <2>3, <3>1, <3>2
  <2>4. ASSUME NEW j \in Inode, NEW e \in Inode, NEW f \in Inode, NEW m \in Name, NEW l \in Name,
               IsDir(j)', Points(e, m, j)', Points(f, l, j)'
        PROVE  e = f /\ m = l
    <3>1. CASE j = i
      BY <1>2, <1>q, <2>4, <3>1
    <3>2. CASE j # i
      BY <1>1, <1>q, <1>8, <2>4, <3>2 DEF Owned
    <3>3. QED
      BY <3>1, <3>2
  <2>5. QED
    BY <2>1, <2>2, <2>3, <2>4 DEF Owned
<1>13. Counts'
  <2> SUFFICES ASSUME NEW j \in Inode, j = Root \/ IsNamed(j)'
               PROVE  inode'[j].links = IF IsDir(j)' THEN 2 + Cardinality(Subs(j)')
                                        ELSE Cardinality(NamesOf(j)')
    BY DEF Counts
  <2>s. \A e \in Inode, m \in Name, x \in Inode :
           Points(e, m, x)' /\ IsDir(x)' <=> (Points(e, m, x) /\ IsDir(x)) \/ (e = d /\ m = n /\ x = i)
    BY <1>2, <1>8, <1>q
  <2>n. j # i => (IsNamed(j)' => IsNamed(j))
    BY <1>q DEF IsNamed
  <2>1. CASE j = i
    <3>1. Subs(i)' = {}
      BY <1>2, <2>s DEF Subs
    <3>2. Cardinality(Subs(i)') = 0
      BY <3>1, FS_EmptySet
    <3>3. QED
      BY <1>7, <1>8, <2>1, <3>2
  <2>2. CASE j = d
    <3>1. Subs(d)' = Subs(d) \cup {n}
      BY <2>s DEF Subs
    <3>2. n \notin Subs(d)
      BY DEF Subs
    <3>3. Cardinality(Subs(d) \cup {n}) = Cardinality(Subs(d)) + 1
      BY <3>2, NamesFinite, FS_AddElement
    <3>4. inode[d].links = 2 + Cardinality(Subs(d))
      BY <1>1, <1>2, <2>2, <2>n DEF Counts
    <3>5. Cardinality(Subs(d)) \in Nat
      BY NamesFinite
    <3>6. QED
      BY <1>6, <1>8, <2>2, <3>1, <3>3, <3>4, <3>5
  <2>3. CASE j # i /\ j # d
    <3>1. NamesOf(j)' = NamesOf(j)
      BY <1>q, <2>3 DEF NamesOf
    <3>2. Subs(j)' = Subs(j)
      BY <2>s, <2>3 DEF Subs
    <3>3. QED
      BY <1>1, <1>8, <2>3, <2>n, <3>1, <3>2 DEF Counts
  <2>4. QED
    BY <2>1, <2>2, <2>3
<1>14. Sums'
  <2>1. \A j \in Inode : j # d /\ j # i => inode'[j].blocks = inode[j].blocks
    BY <1>4
  <2>2. free' + inode'[d].blocks + inode'[i].blocks = free + inode[d].blocks + inode[i].blocks
    <3>1. free \in Nat
      BY <1>1 DEF Types
    <3>2. QED
      BY <1>5, <1>6, <1>7, <3>1
  <2>3. QED
    BY <1>1, <1>2, <1>9, <2>1, <2>2, SumsTwo
<1>15. ModesKept /\ NewName(d, n, i) /\ inode'[i].mode \in Mode
  <2>1. NewName(d, n, i)
    BY <1>q DEF NewName
  <2>2. ModesKept
    BY <1>2, <1>8 DEF ModesKept, IsNamed
  <2>3. QED
    BY <1>7, <2>1, <2>2 DEF Mode
<1>16. QED
  BY <1>15, <1>9, <1>10, <1>11, <1>12, <1>13, <1>14 DEF DirInv

\* A name in a directory leads to one inode.
LEMMA PointsOne ==
  ASSUME Types, NEW d \in Inode, NEW n, NEW i, NEW j, Points(d, n, i), Points(d, n, j)
  PROVE  i = j
BY HoldsOne DEF Types, Points

\* unlink takes the only name of inode i away and frees the inode; a directory
\* has no names then.
LEMMA UnlinkLast ==
  ASSUME DirInv, NEW d \in Inode, IsDir(d), NEW n \in Name, NEW i \in Inode, Points(d, n, i),
         \A e \in Inode, m \in Name : Points(e, m, i) => e = d /\ m = n,
         \A m \in Name : \A j : ~Points(i, m, j),
         NEW C, GoodDir(C), DirRemoved(dirs[d], C, n), Len(C) = Len(dirs[d]),
         used' = used \ {i}, dirs' = [dirs EXCEPT ![d] = C, ![i] = <<>>],
         inode' = [inode EXCEPT ![d].links = IF IsDir(i) THEN saturating_sub(@) ELSE @,
                                ![i] = no_inode],
         free' = free + inode[i].blocks, Indexed(index', inode', dirs')
  PROVE  DirInv' /\ ModesKept /\ NoName(d, n)
<1>1. Types /\ Trees /\ Owned /\ Counts /\ Sums
  BY DEF DirInv
<1>2. i # d /\ i # Root
  BY <1>1 DEF Owned
<1>3. /\ dirs'[d] = C /\ dirs'[i] = <<>>
      /\ \A e \in Inode : e # d /\ e # i => dirs'[e] = dirs[e]
  BY <1>1, <1>2 DEF Types
<1>n. \A m \in Name : m # "." /\ m # ".."
  BY DirAssumption DEF Dots
<1>p. \A e \in Inode : \A m, j : Points(e, m, j)' <=> Points(e, m, j) /\ e # i /\ ~(e = d /\ m = n)
  <2> TAKE e \in Inode
  <2> TAKE m, j
  <2>1. CASE e = d
    <3>1. Points(d, m, j) <=> \E u : Holds(dirs[d], m, j, u)
      BY DEF Points
    <3>2. Points(d, m, j)' <=> \E u : Holds(C, m, j, u)
      BY <1>3 DEF Points
    <3>3. Points(d, m, j)' <=> Points(d, m, j) /\ m # n
      BY <3>1, <3>2 DEF DirRemoved
    <3>4. QED
      BY <1>2, <2>1, <3>3
  <2>2. CASE e = i
    BY <1>3, <2>2, NoBlocks DEF Points
  <2>3. CASE e # d /\ e # i
    BY <1>3, <2>3 DEF Points
  <2>4. QED
    BY <2>1, <2>2, <2>3
<1>q. \A e \in Inode, m \in Name, j \in Inode : Points(e, m, j)' <=> Points(e, m, j) /\ j # i
  <2> TAKE e \in Inode, m \in Name, j \in Inode
  <2>1. Points(d, n, j) => j = i
    BY <1>1, PointsOne
  <2>2. QED
    BY <1>p, <2>1
<1>4. /\ inode'[i] = no_inode
      /\ inode'[d] = [inode[d] EXCEPT !.links = IF IsDir(i) THEN saturating_sub(@) ELSE @]
      /\ \A j \in Inode : j # i /\ j # d => inode'[j] = inode[j]
  BY <1>1, <1>2 DEF Types
<1>5. /\ inode[d] \in InodeRecord /\ inode[d].links \in Nat /\ inode[d].links <= MaxLinks
      /\ inode[d].blocks \in Nat /\ inode[i].blocks \in Nat /\ MaxLinks \in Nat
  BY <1>1, InodeFacts
<1>c. /\ inode[d].links = 2 + Cardinality(Subs(d))
      /\ Cardinality(Subs(d)) \in Nat /\ IsFiniteSet(Subs(d))
  <2>1. d = Root \/ IsNamed(d)
    BY <1>1 DEF Owned, IsDir, no_inode
  <2>2. QED
    BY <1>1, <2>1, NamesFinite DEF Counts
<1> DEFINE l == IF IsDir(i) THEN inode[d].links - 1 ELSE inode[d].links
<1>6. /\ inode'[d].mode = inode[d].mode /\ inode'[d].links = l
      /\ inode'[d].blocks = inode[d].blocks /\ inode'[d] \in InodeRecord
  <2>1. l \in 0 .. MaxLinks
    BY <1>5, <1>c
  <2>2. l = IF IsDir(i) THEN saturating_sub(inode[d].links) ELSE inode[d].links
    BY <1>5, <1>c DEF saturating_sub
  <2>3. inode'[d] = [inode[d] EXCEPT !.links = l]
    BY <1>4, <2>2
  <2> HIDE DEF l
  <2>4. QED
    BY <1>5, <2>1, <2>3 DEF InodeRecord
<1>7. inode'[i].mode = "none" /\ inode'[i].blocks = 0 /\ inode'[i] \in InodeRecord
  BY <1>4, <1>5 DEF no_inode, InodeRecord
<1>8. \A j \in Inode : /\ IsDir(j)' <=> IsDir(j) /\ j # i
                       /\ j # i => inode'[j].mode = inode[j].mode
                       /\ j # i /\ j # d => inode'[j].links = inode[j].links
  BY <1>4, <1>6, <1>7 DEF IsDir
<1>9. Types'
  <2>1. inode' = [j \in Inode |-> inode'[j]] /\ dirs' = [j \in Inode |-> dirs'[j]]
    BY <1>1 DEF Types
  <2>2. \A j \in Inode : inode'[j] \in InodeRecord
    BY <1>1, <1>4, <1>6, <1>7, InodeFacts
  <2>3. inode' \in [Inode -> InodeRecord]
    BY <2>1, <2>2
  <2>4. \A j \in Inode : GoodDir(dirs'[j])
    BY <1>1, <1>3, NoBlocks DEF Types
  <2>5. used' \in SUBSET Inode /\ free' \in Nat
    BY <1>1, <1>5 DEF Types
  <2>6. QED
    BY <2>1, <2>3, <2>4, <2>5 DEF Types
<1>10. Indexes'
  BY DEF Indexes
<1>11. Trees'
  <2> SUFFICES ASSUME NEW j \in Inode
               PROVE  /\ ~IsDir(j)' => dirs'[j] = <<>>
                      /\ IsDir(j)' => /\ Mapped(dirs'[j], inode'[j].blocks)
                                      /\ Points(j, ".", j)'
                                      /\ \E p \in Inode : /\ Points(j, "..", p)'
                                                          /\ j = Root \/ \E m \in Name : Points(p, m, j)'
    BY DEF Trees
  <2>1. ASSUME ~IsDir(j)' PROVE dirs'[j] = <<>>
    <3>1. CASE j = i
      BY <1>3, <3>1
    <3>2. CASE j # i
      <4>1. ~IsDir(j) /\ j # d
        BY <1>8, <2>1, <3>2
      <4>2. QED
        BY <1>1, <1>3, <3>2, <4>1 DEF Trees
    <3>3. QED
      BY <3>1, <3>2
  <2>2. ASSUME IsDir(j)' PROVE Mapped(dirs'[j], inode'[j].blocks)
    <3>1. IsDir(j) /\ j # i
      BY <1>8, <2>2
    <3>2. Len(dirs'[j]) = Len(dirs[j]) /\ inode'[j].blocks = inode[j].blocks
      BY <1>3, <1>4, <1>6, <3>1
    <3>3. Mapped(dirs[j], inode[j].blocks)
      BY <1>1, <3>1 DEF Trees
    <3>4. QED
      BY <3>2, <3>3 DEF Mapped
  <2>3. ASSUME IsDir(j)'
        PROVE  /\ Points(j, ".", j)'
               /\ \E p \in Inode : Points(j, "..", p)' /\ (j = Root \/ \E m \in Name : Points(p, m, j)')
    <3>1. IsDir(j) /\ j # i
      BY <1>8, <2>3
    <3>2. Points(j, ".", j)'
      BY <1>1, <1>n, <1>p, <3>1 DEF Trees
    <3>3. PICK p \in Inode : Points(j, "..", p) /\ (j = Root \/ \E m \in Name : Points(p, m, j))
      BY <1>1, <3>1 DEF Trees
    <3>4. Points(j, "..", p)'
      BY <1>n, <1>p, <3>1, <3>3
    <3>5. QED
      BY <1>q, <3>1, <3>2, <3>3, <3>4
  <2>4. QED
    BY <2>1, <2>2, <2>3
<1>12. Owned'
  <2>1. IsDir(Root)' /\ Root \in used'
    BY <1>1, <1>2, <1>8, DirAssumption DEF Owned
  <2>2. ASSUME NEW j \in Inode, j # Root, ~IsNamed(j)' PROVE inode'[j] = no_inode
    <3>1. CASE j = i
      BY <1>4, <3>1
    <3>2. CASE j # i
      <4>1. ~IsNamed(j)
        BY <1>q, <2>2, <3>2 DEF IsNamed
      <4>2. inode[j] = no_inode
        BY <1>1, <2>2, <4>1 DEF Owned
      <4>3. j # d
        BY <4>2 DEF IsDir, no_inode
      <4>4. QED
        BY <1>4, <3>2, <4>2, <4>3
    <3>3. QED
      BY <3>1, <3>2
  <2>3. ASSUME NEW e \in Inode, NEW j \in Inode, NEW m \in Name, Points(e, m, j)'
        PROVE  j \in used' /\ inode'[j].mode # "none" /\ j # Root /\ j # e
    <3>1. Points(e, m, j) /\ j # i
      BY <1>q, <2>3
    <3>2. j \in used /\ inode[j].mode # "none" /\ j # Root /\ j # e
      BY <1>1, <3>1 DEF Owned
    <3>3. QED
      BY <1>8, <3>1, <3>2
  <2>4. ASSUME NEW j \in Inode, NEW e \in Inode, NEW f \in Inode, NEW m \in Name, NEW o \in Name,
               IsDir(j)', Points(e, m, j)', Points(f, o, j)'
        PROVE  e = f /\ m = o
    BY <1>1, <1>8, <1>q, <2>4 DEF Owned
  <2>5. QED
    BY <2>1, <2>2, <2>3, <2>4 DEF Owned
<1>13. Counts'
  <2> SUFFICES ASSUME NEW j \in Inode, j = Root \/ IsNamed(j)'
               PROVE  inode'[j].links = IF IsDir(j)' THEN 2 + Cardinality(Subs(j)')
                                        ELSE Cardinality(NamesOf(j)')
    BY DEF Counts
  <2>1. j # i /\ (IsNamed(j)' => IsNamed(j))
    BY <1>2, <1>q DEF IsNamed
  <2>2. \A e \in Inode, m \in Name, x \in Inode :
           Points(e, m, x)' /\ IsDir(x)' <=> Points(e, m, x) /\ IsDir(x) /\ x # i
    BY <1>8, <1>q
  <2>3. CASE j = d /\ IsDir(i)
    <3>1. Subs(d)' = Subs(d) \ {n} /\ n \in Subs(d)
      <4>1. ASSUME NEW m \in Name PROVE m \in Subs(d)' <=> m \in Subs(d) /\ m # n
        <5>1. \A x \in Inode : Points(d, n, x) => x = i
          BY <1>1, PointsOne
        <5>2. \A x \in Inode : Points(d, m, x) => (x = i <=> m = n)
          BY <5>1
        <5>3. QED
          BY <2>2, <5>2 DEF Subs
      <4>2. n \in Subs(d)
        BY <2>3 DEF Subs
      <4>3. Subs(d)' \in SUBSET Name /\ Subs(d) \in SUBSET Name
        BY DEF Subs
      <4>4. QED
        BY <4>1, <4>2, <4>3
    <3>2. Cardinality(Subs(d) \ {n}) = Cardinality(Subs(d)) - 1
      BY <1>c, <3>1, FS_RemoveElement
    <3>3. QED
      BY <1>6, <1>8, <1>c, <2>1, <2>3, <3>1, <3>2
  <2>4. CASE j # d \/ ~IsDir(i)
    <3>1. inode'[j].links = inode[j].links
      BY <1>6, <1>8, <2>1, <2>4
    <3>2. NamesOf(j)' = NamesOf(j)
      BY <1>q, <2>1 DEF NamesOf
    <3>3. Subs(j)' = Subs(j)
      BY <2>2, <2>4 DEF Subs
    <3>4. QED
      BY <1>1, <1>8, <2>1, <3>1, <3>2, <3>3 DEF Counts
  <2>5. QED
    BY <2>3, <2>4
<1>14. Sums'
  <2>1. \A j \in Inode : j # i => inode'[j].blocks = inode[j].blocks
    BY <1>4, <1>6
  <2>2. free' + inode'[i].blocks = free + inode[i].blocks
    BY <1>1, <1>5, <1>7 DEF Types
  <2>3. QED
    BY <1>1, <1>9, <2>1, <2>2, SumsOne
<1>15. ModesKept /\ NoName(d, n)
  <2>1. NoName(d, n)
    BY <1>p DEF NoName
  <2>2. ModesKept
    <3>1. ~IsNamed(i)'
      BY <1>q DEF IsNamed
    <3>2. QED
      BY <1>8, <3>1 DEF ModesKept
  <2>3. QED
    BY <2>1, <2>2
<1>16. QED
  BY <1>15, <1>9, <1>10, <1>11, <1>12, <1>13, <1>14 DEF DirInv

\* unlink takes one of several names of a file away.
LEMMA UnlinkLink ==
  ASSUME DirInv, NEW d \in Inode, IsDir(d), NEW n \in Name, NEW i \in Inode, Points(d, n, i),
         ~IsDir(i), inode[i].links > 1,
         NEW C, GoodDir(C), DirRemoved(dirs[d], C, n), Len(C) = Len(dirs[d]),
         used' = used, dirs' = [dirs EXCEPT ![d] = C],
         inode' = [inode EXCEPT ![i].links = inode[i].links - 1],
         free' = free, Indexed(index', inode', dirs')
  PROVE  DirInv' /\ ModesKept /\ NoName(d, n) /\ IsNamed(i)'
<1>1. Types /\ Trees /\ Owned /\ Counts /\ Sums
  BY DEF DirInv
<1>2. i # d /\ i # Root /\ IsNamed(i)
  BY <1>1 DEF Owned, IsNamed
<1>3. dirs'[d] = C /\ \A e \in Inode : e # d => dirs'[e] = dirs[e]
  BY <1>1 DEF Types
<1>n. \A m \in Name : m # "." /\ m # ".."
  BY DirAssumption DEF Dots
<1>p. \A e \in Inode : \A m, j : Points(e, m, j)' <=> Points(e, m, j) /\ ~(e = d /\ m = n)
  <2> TAKE e \in Inode
  <2> TAKE m, j
  <2>1. CASE e = d
    <3>1. Points(d, m, j) <=> \E u : Holds(dirs[d], m, j, u)
      BY DEF Points
    <3>2. Points(d, m, j)' <=> \E u : Holds(C, m, j, u)
      BY <1>3 DEF Points
    <3>3. Points(d, m, j)' <=> Points(d, m, j) /\ m # n
      BY <3>1, <3>2 DEF DirRemoved
    <3>4. QED
      BY <2>1, <3>3
  <2>2. CASE e # d
    BY <1>3, <2>2 DEF Points
  <2>3. QED
    BY <2>1, <2>2
<1>q. \A e \in Inode : \A m, j : j # i => (Points(e, m, j)' <=> Points(e, m, j))
  <2> TAKE e \in Inode
  <2> TAKE m, j
  <2>1. Points(d, n, j) => j = i
    BY <1>1, PointsOne
  <2>2. QED
    BY <1>p, <2>1
<1>4. /\ inode'[i] = [inode[i] EXCEPT !.links = inode[i].links - 1]
      /\ \A j \in Inode : j # i => inode'[j] = inode[j]
  BY <1>1 DEF Types
<1>5. /\ inode[i] \in InodeRecord /\ inode[i].links \in Nat /\ inode[i].links <= MaxLinks
      /\ MaxLinks \in Nat
  BY <1>1, InodeFacts
<1>6. /\ inode'[i].mode = inode[i].mode /\ inode'[i].links = inode[i].links - 1
      /\ inode'[i].blocks = inode[i].blocks /\ inode'[i] \in InodeRecord
  <2>1. inode[i].links - 1 \in 0 .. MaxLinks
    BY <1>5
  <2>2. QED
    BY <1>4, <1>5, <2>1 DEF InodeRecord
<1>7. \A j \in Inode : /\ IsDir(j)' <=> IsDir(j)
                       /\ inode'[j].mode = inode[j].mode /\ inode'[j].blocks = inode[j].blocks
                       /\ j # i => inode'[j].links = inode[j].links
  BY <1>4, <1>6 DEF IsDir
<1>8. /\ NamesOf(i)' = NamesOf(i) \ {<<d, n>>} /\ <<d, n>> \in NamesOf(i)
      /\ inode[i].links = Cardinality(NamesOf(i))
  <2>1. NamesOf(i)' = NamesOf(i) \ {<<d, n>>} /\ <<d, n>> \in NamesOf(i)
    BY <1>p DEF NamesOf
  <2>2. inode[i].links = Cardinality(NamesOf(i))
    BY <1>1, <1>2 DEF Counts
  <2>3. QED
    BY <2>1, <2>2
<1>9. Cardinality(NamesOf(i)') = inode[i].links - 1
  BY <1>8, NamesFinite, FS_RemoveElement
<1>i. IsNamed(i)'
  <2>1. NamesOf(i)' # {}
    <3>1. inode[i].links - 1 # 0
      BY <1>5
    <3>2. QED
      BY <1>9, <3>1, FS_EmptySet
  <2>2. QED
    BY <2>1 DEF NamesOf, IsNamed
<1>10. Types'
  <2>1. inode' = [j \in Inode |-> inode'[j]] /\ dirs' = [j \in Inode |-> dirs'[j]]
    BY <1>1 DEF Types
  <2>2. \A j \in Inode : inode'[j] \in InodeRecord
    BY <1>1, <1>4, <1>6, InodeFacts
  <2>3. inode' \in [Inode -> InodeRecord]
    BY <2>1, <2>2
  <2>4. \A j \in Inode : GoodDir(dirs'[j])
    BY <1>1, <1>3 DEF Types
  <2>5. QED
    BY <1>1, <2>1, <2>3, <2>4 DEF Types
<1>11. Trees'
  <2> SUFFICES ASSUME NEW j \in Inode
               PROVE  /\ ~IsDir(j)' => dirs'[j] = <<>>
                      /\ IsDir(j)' => /\ Mapped(dirs'[j], inode'[j].blocks)
                                      /\ Points(j, ".", j)'
                                      /\ \E p \in Inode : /\ Points(j, "..", p)'
                                                          /\ j = Root \/ \E m \in Name : Points(p, m, j)'
    BY DEF Trees
  <2>1. ASSUME ~IsDir(j) PROVE dirs'[j] = <<>>
    BY <1>1, <1>3, <2>1 DEF Trees
  <2>2. ASSUME IsDir(j) PROVE Mapped(dirs'[j], inode'[j].blocks)
    <3>1. Len(dirs'[j]) = Len(dirs[j]) /\ inode'[j].blocks = inode[j].blocks
      BY <1>3, <1>7
    <3>2. Mapped(dirs[j], inode[j].blocks)
      BY <1>1, <2>2 DEF Trees
    <3>3. QED
      BY <3>1, <3>2 DEF Mapped
  <2>3. ASSUME IsDir(j)
        PROVE  /\ Points(j, ".", j)'
               /\ \E p \in Inode : Points(j, "..", p)' /\ (j = Root \/ \E m \in Name : Points(p, m, j)')
    <3>1. PICK p \in Inode : /\ Points(j, ".", j) /\ Points(j, "..", p)
                             /\ j = Root \/ \E m \in Name : Points(p, m, j)
      BY <1>1, <2>3 DEF Trees
    <3>2. Points(j, ".", j)' /\ Points(j, "..", p)'
      BY <1>n, <1>p, <3>1
    <3>3. QED
      BY <1>q, <2>3, <3>1, <3>2
  <2>4. QED
    BY <1>7, <2>1, <2>2, <2>3
<1>12. Owned'
  <2>1. IsDir(Root)' /\ Root \in used'
    BY <1>1, <1>7, DirAssumption DEF Owned
  <2>2. ASSUME NEW j \in Inode, j # Root, ~IsNamed(j)' PROVE inode'[j] = no_inode
    <3>1. j # i
      BY <1>i, <2>2
    <3>2. ~IsNamed(j)
      BY <1>q, <2>2, <3>1 DEF IsNamed
    <3>3. inode[j] = no_inode
      BY <1>1, <2>2, <3>2 DEF Owned
    <3>4. QED
      BY <1>4, <3>1, <3>3
  <2>3. ASSUME NEW e \in Inode, NEW j \in Inode, NEW m \in Name, Points(e, m, j)'
        PROVE  j \in used' /\ inode'[j].mode # "none" /\ j # Root /\ j # e
    BY <1>1, <1>7, <1>p, <2>3 DEF Owned
  <2>4. ASSUME NEW j \in Inode, NEW e \in Inode, NEW f \in Inode, NEW m \in Name, NEW o \in Name,
               IsDir(j)', Points(e, m, j)', Points(f, o, j)'
        PROVE  e = f /\ m = o
    BY <1>1, <1>7, <1>p, <2>4 DEF Owned
  <2>5. QED
    BY <2>1, <2>2, <2>3, <2>4 DEF Owned
<1>13. Counts'
  <2> SUFFICES ASSUME NEW j \in Inode, j = Root \/ IsNamed(j)'
               PROVE  inode'[j].links = IF IsDir(j)' THEN 2 + Cardinality(Subs(j)')
                                        ELSE Cardinality(NamesOf(j)')
    BY DEF Counts
  <2>1. CASE j = i
    BY <1>6, <1>7, <1>9, <2>1
  <2>2. CASE j # i
    <3>1. NamesOf(j)' = NamesOf(j)
      BY <1>q, <2>2 DEF NamesOf
    <3>2. Subs(j)' = Subs(j)
      BY <1>7, <1>q DEF Subs
    <3>3. IsNamed(j)' => IsNamed(j)
      BY <1>p DEF IsNamed
    <3>4. QED
      BY <1>1, <1>7, <2>2, <3>1, <3>2, <3>3 DEF Counts
  <2>3. QED
    BY <2>1, <2>2
<1>14. Sums'
  <2>1. free' + inode'[d].blocks = free + inode[d].blocks
    BY <1>7
  <2>2. QED
    BY <1>1, <1>7, <1>10, <2>1, SumsOne
<1>15. ModesKept /\ NoName(d, n)
  BY <1>p, <1>7 DEF ModesKept, NoName
<1>16. QED
  BY <1>15, <1>i, <1>10, <1>11, <1>12, <1>13, <1>14 DEF DirInv, Indexes

\* A call that fails writes directory d again and changes no name.
LEMMA Rewritten ==
  ASSUME DirInv, NEW d \in Inode, IsDir(d), NEW C, GoodDir(C), DirSame(dirs[d], C),
         NEW b \in Nat, Mapped(C, b),
         used' = used, dirs' = [dirs EXCEPT ![d] = C], inode' = [inode EXCEPT ![d].blocks = b],
         free' \in Nat, free' + b = free + inode[d].blocks, Indexed(index', inode', dirs')
  PROVE  DirInv' /\ ModesKept /\ NamesKept
<1>1. Types /\ Trees /\ Owned /\ Counts /\ Sums
  BY DEF DirInv
<1>2. dirs'[d] = C /\ \A e \in Inode : e # d => dirs'[e] = dirs[e]
  BY <1>1 DEF Types
<1>3. \A e \in Inode : \A m, j : Points(e, m, j)' <=> Points(e, m, j)
  BY <1>2 DEF Points, DirSame
<1>4. /\ inode'[d] = [inode[d] EXCEPT !.blocks = b]
      /\ \A j \in Inode : j # d => inode'[j] = inode[j]
  BY <1>1 DEF Types
<1>5. /\ inode'[d].mode = inode[d].mode /\ inode'[d].links = inode[d].links /\ inode'[d].blocks = b
      /\ inode'[d] \in InodeRecord
  <2>1. inode[d] \in InodeRecord
    BY <1>1, InodeFacts
  <2>2. QED
    BY <1>4, <2>1 DEF InodeRecord
<1>6. \A j \in Inode : /\ IsDir(j)' <=> IsDir(j)
                       /\ inode'[j].mode = inode[j].mode /\ inode'[j].links = inode[j].links
  BY <1>4, <1>5 DEF IsDir
<1>7. Types'
  <2>1. inode' = [j \in Inode |-> inode'[j]] /\ dirs' = [j \in Inode |-> dirs'[j]]
    BY <1>1 DEF Types
  <2>2. \A j \in Inode : inode'[j] \in InodeRecord
    BY <1>1, <1>4, <1>5, InodeFacts
  <2>3. inode' \in [Inode -> InodeRecord]
    BY <2>1, <2>2
  <2>4. \A j \in Inode : GoodDir(dirs'[j])
    BY <1>1, <1>2 DEF Types
  <2>5. QED
    BY <1>1, <2>1, <2>3, <2>4 DEF Types
<1>8. Trees'
  <2> SUFFICES ASSUME NEW j \in Inode
               PROVE  /\ ~IsDir(j)' => dirs'[j] = <<>>
                      /\ IsDir(j)' => /\ Mapped(dirs'[j], inode'[j].blocks)
                                      /\ Points(j, ".", j)'
                                      /\ \E p \in Inode : /\ Points(j, "..", p)'
                                                          /\ j = Root \/ \E m \in Name : Points(p, m, j)'
    BY DEF Trees
  <2>1. ASSUME ~IsDir(j) PROVE dirs'[j] = <<>>
    BY <1>1, <1>2, <2>1 DEF Trees
  <2>2. ASSUME IsDir(j) PROVE Mapped(dirs'[j], inode'[j].blocks)
    <3>1. CASE j = d
      BY <1>2, <1>5, <3>1
    <3>2. CASE j # d
      <4>1. dirs'[j] = dirs[j] /\ inode'[j] = inode[j]
        BY <1>2, <1>4, <3>2
      <4>2. Mapped(dirs[j], inode[j].blocks)
        BY <1>1, <2>2 DEF Trees
      <4>3. QED
        BY <4>1, <4>2
    <3>3. QED
      BY <3>1, <3>2
  <2>3. ASSUME IsDir(j)
        PROVE  /\ Points(j, ".", j)'
               /\ \E p \in Inode : Points(j, "..", p)' /\ (j = Root \/ \E m \in Name : Points(p, m, j)')
    BY <1>1, <1>3, <2>3 DEF Trees
  <2>4. QED
    BY <1>6, <2>1, <2>2, <2>3
<1>9. Owned'
  <2>1. IsDir(Root)' /\ Root \in used'
    BY <1>1, <1>6, DirAssumption DEF Owned
  <2>2. ASSUME NEW j \in Inode, j # Root, ~IsNamed(j)' PROVE inode'[j] = no_inode
    <3>1. ~IsNamed(j)
      BY <1>3, <2>2 DEF IsNamed
    <3>2. inode[j] = no_inode
      BY <1>1, <2>2, <3>1 DEF Owned
    <3>3. j # d
      BY <3>2 DEF IsDir, no_inode
    <3>4. QED
      BY <1>4, <3>2, <3>3
  <2>3. ASSUME NEW e \in Inode, NEW j \in Inode, NEW m \in Name, Points(e, m, j)'
        PROVE  j \in used' /\ inode'[j].mode # "none" /\ j # Root /\ j # e
    BY <1>1, <1>3, <1>6, <2>3 DEF Owned
  <2>4. ASSUME NEW j \in Inode, NEW e \in Inode, NEW f \in Inode, NEW m \in Name, NEW o \in Name,
               IsDir(j)', Points(e, m, j)', Points(f, o, j)'
        PROVE  e = f /\ m = o
    BY <1>1, <1>3, <1>6, <2>4 DEF Owned
  <2>5. QED
    BY <2>1, <2>2, <2>3, <2>4 DEF Owned
<1>10. Counts'
  <2> SUFFICES ASSUME NEW j \in Inode, j = Root \/ IsNamed(j)'
               PROVE  inode'[j].links = IF IsDir(j)' THEN 2 + Cardinality(Subs(j)')
                                        ELSE Cardinality(NamesOf(j)')
    BY DEF Counts
  <2>1. NamesOf(j)' = NamesOf(j) /\ Subs(j)' = Subs(j)
    BY <1>3, <1>6 DEF NamesOf, Subs
  <2>2. IsNamed(j)' => IsNamed(j)
    BY <1>3 DEF IsNamed
  <2>3. QED
    BY <1>1, <1>6, <2>1, <2>2 DEF Counts
<1>11. Sums'
  <2>1. \A j \in Inode : j # d => inode'[j].blocks = inode[j].blocks
    BY <1>4
  <2>2. QED
    BY <1>1, <1>5, <1>7, <2>1, SumsOne
<1>12. ModesKept /\ NamesKept
  BY <1>3, <1>6 DEF ModesKept, NamesKept
<1>13. QED
  BY <1>12, <1>7, <1>8, <1>9, <1>10, <1>11 DEF DirInv, Indexes

\* A set with one element for another.
LEMMA SwapElement ==
  ASSUME NEW S, IsFiniteSet(S), NEW x \in S, NEW y, y \notin S
  PROVE  Cardinality((S \ {x}) \cup {y}) = Cardinality(S)
<1>1. IsFiniteSet(S \ {x}) /\ Cardinality(S \ {x}) = Cardinality(S) - 1
  BY FS_RemoveElement
<1>2. Cardinality((S \ {x}) \cup {y}) = Cardinality(S \ {x}) + 1
  BY <1>1, FS_AddElement
<1>3. Cardinality(S) \in Nat
  BY FS_CardinalityType
<1>4. QED
  BY <1>1, <1>2, <1>3

\* rename gives inode i the name new for its name old in directory d.
LEMMA RenameEntry ==
  ASSUME DirInv, NEW d \in Inode, IsDir(d), NEW old \in Name, NEW new \in Name, old # new,
         NEW i \in Inode, Points(d, old, i), \A j : ~Points(d, new, j),
         NEW D, NEW t, DirAdded(dirs[d], D, new, i, t),
         NEW C, DirRemoved(D, C, old), GoodDir(C), NEW b \in Nat, Mapped(C, b),
         used' = used, dirs' = [dirs EXCEPT ![d] = C], inode' = [inode EXCEPT ![d].blocks = b],
         free' \in Nat, free' + b = free + inode[d].blocks, Indexed(index', inode', dirs')
  PROVE  DirInv' /\ ModesKept /\ OtherName(d, old, new, i)
<1>1. Types /\ Trees /\ Owned /\ Counts /\ Sums
  BY DEF DirInv
<1>2. /\ i # d /\ i # Root /\ IsNamed(i) /\ i \in used /\ inode[i].mode # "none"
      /\ IsDir(i) => \A e \in Inode, m \in Name : Points(e, m, i) => e = d /\ m = old
  BY <1>1 DEF Owned, IsNamed
<1>3. dirs'[d] = C /\ \A e \in Inode : e # d => dirs'[e] = dirs[e]
  BY <1>1 DEF Types
<1>n. \A m \in Name : m # "." /\ m # ".."
  BY DirAssumption DEF Dots
<1>p. \A e \in Inode : \A m, j : Points(e, m, j)' <=>
         (Points(e, m, j) /\ ~(e = d /\ m = old)) \/ (e = d /\ m = new /\ j = i)
  <2> TAKE e \in Inode
  <2> TAKE m, j
  <2>1. CASE e = d
    <3>1. Points(d, m, j) <=> \E u : Holds(dirs[d], m, j, u)
      BY DEF Points
    <3>2. Points(d, m, j)' <=> \E u : Holds(C, m, j, u)
      BY <1>3 DEF Points
    <3>3. \A u : Holds(C, m, j, u) <=> Holds(D, m, j, u) /\ m # old
      BY DEF DirRemoved
    <3>4. \A u : Holds(D, m, j, u) <=> Holds(dirs[d], m, j, u) \/ (m = new /\ j = i /\ u = t)
      BY DEF DirAdded
    <3>5. Points(d, m, j)' <=> (Points(d, m, j) \/ (m = new /\ j = i)) /\ m # old
      BY <3>1, <3>2, <3>3, <3>4
    <3>6. QED
      BY <2>1, <3>5
  <2>2. CASE e # d
    BY <1>3, <2>2 DEF Points
  <2>3. QED
    BY <2>1, <2>2
<1>q. \A e \in Inode : \A m, j : j # i => (Points(e, m, j)' <=> Points(e, m, j))
  <2> TAKE e \in Inode
  <2> TAKE m, j
  <2>1. Points(d, old, j) => j = i
    BY <1>1, PointsOne
  <2>2. QED
    BY <1>p, <2>1
<1>4. /\ inode'[d] = [inode[d] EXCEPT !.blocks = b]
      /\ \A j \in Inode : j # d => inode'[j] = inode[j]
  BY <1>1 DEF Types
<1>5. /\ inode'[d].mode = inode[d].mode /\ inode'[d].links = inode[d].links /\ inode'[d].blocks = b
      /\ inode'[d] \in InodeRecord
  <2>1. inode[d] \in InodeRecord
    BY <1>1, InodeFacts
  <2>2. QED
    BY <1>4, <2>1 DEF InodeRecord
<1>6. \A j \in Inode : /\ IsDir(j)' <=> IsDir(j)
                       /\ inode'[j].mode = inode[j].mode /\ inode'[j].links = inode[j].links
  BY <1>4, <1>5 DEF IsDir
<1>i. \A j \in Inode : IsNamed(j)' <=> IsNamed(j)
  <2> TAKE j \in Inode
  <2>1. CASE j = i
    BY <1>2, <1>p, <2>1 DEF IsNamed
  <2>2. CASE j # i
    BY <1>q, <2>2 DEF IsNamed
  <2>3. QED
    BY <2>1, <2>2
<1>7. Types'
  <2>1. inode' = [j \in Inode |-> inode'[j]] /\ dirs' = [j \in Inode |-> dirs'[j]]
    BY <1>1 DEF Types
  <2>2. \A j \in Inode : inode'[j] \in InodeRecord
    BY <1>1, <1>4, <1>5, InodeFacts
  <2>3. inode' \in [Inode -> InodeRecord]
    BY <2>1, <2>2
  <2>4. \A j \in Inode : GoodDir(dirs'[j])
    BY <1>1, <1>3 DEF Types
  <2>5. QED
    BY <1>1, <2>1, <2>3, <2>4 DEF Types
<1>8. Trees'
  <2> SUFFICES ASSUME NEW j \in Inode
               PROVE  /\ ~IsDir(j)' => dirs'[j] = <<>>
                      /\ IsDir(j)' => /\ Mapped(dirs'[j], inode'[j].blocks)
                                      /\ Points(j, ".", j)'
                                      /\ \E p \in Inode : /\ Points(j, "..", p)'
                                                          /\ j = Root \/ \E m \in Name : Points(p, m, j)'
    BY DEF Trees
  <2>1. ASSUME ~IsDir(j) PROVE dirs'[j] = <<>>
    BY <1>1, <1>3, <2>1 DEF Trees
  <2>2. ASSUME IsDir(j) PROVE Mapped(dirs'[j], inode'[j].blocks)
    <3>1. CASE j = d
      BY <1>3, <1>5, <3>1
    <3>2. CASE j # d
      <4>1. dirs'[j] = dirs[j] /\ inode'[j] = inode[j]
        BY <1>3, <1>4, <3>2
      <4>2. Mapped(dirs[j], inode[j].blocks)
        BY <1>1, <2>2 DEF Trees
      <4>3. QED
        BY <4>1, <4>2
    <3>3. QED
      BY <3>1, <3>2
  <2>3. ASSUME IsDir(j)
        PROVE  /\ Points(j, ".", j)'
               /\ \E p \in Inode : Points(j, "..", p)' /\ (j = Root \/ \E m \in Name : Points(p, m, j)')
    <3>1. PICK p \in Inode : /\ Points(j, ".", j) /\ Points(j, "..", p)
                             /\ j = Root \/ \E m \in Name : Points(p, m, j)
      BY <1>1, <2>3 DEF Trees
    <3>2. Points(j, ".", j)' /\ Points(j, "..", p)'
      BY <1>n, <1>p, <3>1
    <3>3. j = Root \/ \E m \in Name : Points(p, m, j)'
      <4>1. CASE j = i
        <5>1. p = d
          BY <1>2, <2>3, <3>1, <4>1
        <5>2. QED
          BY <1>p, <4>1, <5>1
      <4>2. CASE j # i
        BY <1>q, <3>1, <4>2
      <4>3. QED
        BY <4>1, <4>2
    <3>4. QED
      BY <3>2, <3>3
  <2>4. QED
    BY <1>6, <2>1, <2>2, <2>3
<1>9. Owned'
  <2>1. IsDir(Root)' /\ Root \in used'
    BY <1>1, <1>6, DirAssumption DEF Owned
  <2>2. ASSUME NEW j \in Inode, j # Root, ~IsNamed(j)' PROVE inode'[j] = no_inode
    <3>1. inode[j] = no_inode
      BY <1>1, <1>i, <2>2 DEF Owned
    <3>2. j # d
      BY <3>1 DEF IsDir, no_inode
    <3>3. QED
      BY <1>4, <3>1, <3>2
  <2>3. ASSUME NEW e \in Inode, NEW j \in Inode, NEW m \in Name, Points(e, m, j)'
        PROVE  j \in used' /\ inode'[j].mode # "none" /\ j # Root /\ j # e
    <3>1. CASE Points(e, m, j)
      BY <1>1, <1>6, <3>1 DEF Owned
    <3>2. CASE e = d /\ j = i
      BY <1>2, <1>6, <3>2
    <3>3. QED
      BY <1>p, <2>3, <3>1, <3>2
  <2>4. ASSUME NEW j \in Inode, NEW e \in Inode, NEW f \in Inode, NEW m \in Name, NEW o \in Name,
               IsDir(j)', Points(e, m, j)', Points(f, o, j)'
        PROVE  e = f /\ m = o
    <3>1. CASE j = i
      BY <1>2, <1>6, <1>p, <2>4, <3>1
    <3>2. CASE j # i
      BY <1>1, <1>6, <1>q, <2>4, <3>2 DEF Owned
    <3>3. QED
      BY <3>1, <3>2
  <2>5. QED
    BY <2>1, <2>2, <2>3, <2>4 DEF Owned
<1>10. Counts'
  <2> SUFFICES ASSUME NEW j \in Inode, j = Root \/ IsNamed(j)'
               PROVE  inode'[j].links = IF IsDir(j)' THEN 2 + Cardinality(Subs(j)')
                                        ELSE Cardinality(NamesOf(j)')
    BY DEF Counts
  <2>1. Cardinality(NamesOf(j)') = Cardinality(NamesOf(j))
    <3>1. CASE j = i
      <4>1. NamesOf(i)' = (NamesOf(i) \ {<<d, old>>}) \cup {<<d, new>>}
        BY <1>p DEF NamesOf
      <4>2. <<d, old>> \in NamesOf(i) /\ <<d, new>> \notin NamesOf(i)
        BY DEF NamesOf
      <4>3. QED
        BY <3>1, <4>1, <4>2, NamesFinite, SwapElement
    <3>2. CASE j # i
      <4>1. NamesOf(j)' = NamesOf(j)
        BY <1>q, <3>2 DEF NamesOf
      <4>2. QED
        BY <4>1
    <3>3. QED
      BY <3>1, <3>2
  <2>2. Cardinality(Subs(j)') = Cardinality(Subs(j))
    <3>1. CASE j = d /\ IsDir(i)
      <4>1. \A x \in Inode : Points(d, old, x) => x = i
        BY <1>1, PointsOne
      <4>2. Subs(d)' = (Subs(d) \ {old}) \cup {new}
        BY <1>6, <1>p, <3>1, <4>1 DEF Subs
      <4>3. old \in Subs(d) /\ new \notin Subs(d)
        BY <3>1 DEF Subs
      <4>4. QED
        BY <3>1, <4>2, <4>3, NamesFinite, SwapElement
    <3>2. CASE j # d \/ ~IsDir(i)
      <4>1. \A m \in Name, x \in Inode : Points(j, m, x)' /\ IsDir(x)' <=> Points(j, m, x) /\ IsDir(x)
        BY <1>6, <1>p, <1>q, <3>2
      <4>2. Subs(j)' = Subs(j)
        BY <4>1 DEF Subs
      <4>3. QED
        BY <4>2
    <3>3. QED
      BY <3>1, <3>2
  <2>3. QED
    BY <1>1, <1>6, <1>i, <2>1, <2>2 DEF Counts
<1>11. Sums'
  <2>1. \A j \in Inode : j # d => inode'[j].blocks = inode[j].blocks
    BY <1>4
  <2>2. QED
    BY <1>1, <1>5, <1>7, <2>1, SumsOne
<1>12. ModesKept /\ OtherName(d, old, new, i)
  BY <1>p, <1>6 DEF ModesKept, OtherName
<1>13. QED
  BY <1>12, <1>7, <1>8, <1>9, <1>10, <1>11 DEF DirInv, Indexes

-------------------------------------------------------------------------------
\* The cache follows the blocks of directory d when a name is added,
LEMMA WithName ==
  ASSUME NEW c, NEW ino, NEW D, Indexed(c, ino, D), NEW d \in Inode, NEW n, NEW i, NEW t,
         NEW ino2, NEW D2, DirAdded(D[d], D2[d], n, i, t),
         \A j \in Inode : c[j] # NotCached => ino2[j].mode = "S_IFDIR",
         \A j \in Inode : c[j] # NotCached /\ j # d => D2[j] = D[j]
  PROVE  Indexed(with_name(c, d, n, i, t), ino2, D2)
<1>1. c = [j \in Inode |-> c[j]] /\ \A j \in Inode : c[j] # NotCached => IsIndex(c[j], D[j])
  BY DEF Indexed
<1>2. CASE c[d] = NotCached
  <2>1. with_name(c, d, n, i, t) = c
    BY <1>2 DEF with_name
  <2>2. \A j \in Inode : c[j] # NotCached => IsIndex(c[j], D2[j])
    BY <1>1, <1>2
  <2>3. QED
    BY <1>1, <2>1, <2>2 DEF Indexed
<1>3. CASE c[d] # NotCached
  <2> DEFINE x == index_insert(c[d], n, i, t)
             w == [c EXCEPT ![d] = x]
  <2>1. with_name(c, d, n, i, t) = w
    BY <1>3 DEF with_name
  <2>2. IsIndex(x, D2[d])
    BY <1>1, <1>3, IndexInsert
  <2> HIDE DEF x
  <2>3. w = [j \in Inode |-> w[j]] /\ w[d] = x /\ \A j \in Inode : j # d => w[j] = c[j]
    BY <1>1
  <2> HIDE DEF w
  <2>4. ASSUME NEW j \in Inode, w[j] # NotCached
        PROVE  ino2[j].mode = "S_IFDIR" /\ IsIndex(w[j], D2[j])
    <3>1. CASE j = d
      BY <1>3, <2>2, <2>3, <3>1
    <3>2. CASE j # d
      BY <1>1, <2>3, <2>4, <3>2
    <3>3. QED
      BY <3>1, <3>2
  <2>5. QED
    BY <2>1, <2>3, <2>4 DEF Indexed
<1>4. QED
  BY <1>2, <1>3

\* when one is removed,
LEMMA WithoutName ==
  ASSUME NEW c, NEW ino, NEW D, Indexed(c, ino, D), NEW d \in Inode, NEW n,
         NEW ino2, NEW D2, DirRemoved(D[d], D2[d], n),
         \A j \in Inode : c[j] # NotCached => ino2[j].mode = "S_IFDIR",
         \A j \in Inode : c[j] # NotCached /\ j # d => D2[j] = D[j]
  PROVE  Indexed(without_name(c, d, n), ino2, D2)
<1>1. c = [j \in Inode |-> c[j]] /\ \A j \in Inode : c[j] # NotCached => IsIndex(c[j], D[j])
  BY DEF Indexed
<1>2. CASE c[d] = NotCached
  <2>1. without_name(c, d, n) = c
    BY <1>2 DEF without_name
  <2>2. \A j \in Inode : c[j] # NotCached => IsIndex(c[j], D2[j])
    BY <1>1, <1>2
  <2>3. QED
    BY <1>1, <2>1, <2>2 DEF Indexed
<1>3. CASE c[d] # NotCached
  <2> DEFINE x == index_remove(c[d], n)
             w == [c EXCEPT ![d] = x]
  <2>1. without_name(c, d, n) = w
    BY <1>3 DEF without_name
  <2>2. IsIndex(x, D2[d])
    BY <1>1, <1>3, IndexRemove
  <2> HIDE DEF x
  <2>3. w = [j \in Inode |-> w[j]] /\ w[d] = x /\ \A j \in Inode : j # d => w[j] = c[j]
    BY <1>1
  <2> HIDE DEF w
  <2>4. ASSUME NEW j \in Inode, w[j] # NotCached
        PROVE  ino2[j].mode = "S_IFDIR" /\ IsIndex(w[j], D2[j])
    <3>1. CASE j = d
      BY <1>3, <2>2, <2>3, <3>1
    <3>2. CASE j # d
      BY <1>1, <2>3, <2>4, <3>2
    <3>3. QED
      BY <3>1, <3>2
  <2>5. QED
    BY <2>1, <2>3, <2>4 DEF Indexed
<1>4. QED
  BY <1>2, <1>3

\* and when the blocks change and the names do not.
LEMMA SameNames ==
  ASSUME NEW c, NEW ino, NEW D, Indexed(c, ino, D), NEW d \in Inode,
         NEW ino2, NEW D2, DirSame(D[d], D2[d]),
         \A j \in Inode : c[j] # NotCached => ino2[j].mode = "S_IFDIR",
         \A j \in Inode : c[j] # NotCached /\ j # d => D2[j] = D[j]
  PROVE  Indexed(c, ino2, D2)
<1>1. c = [j \in Inode |-> c[j]] /\ \A j \in Inode : c[j] # NotCached => IsIndex(c[j], D[j])
  BY DEF Indexed
<1>2. ASSUME NEW j \in Inode, c[j] # NotCached PROVE IsIndex(c[j], D2[j])
  <2>1. CASE j = d
    BY <1>1, <1>2, <2>1, IndexSame
  <2>2. CASE j # d
    BY <1>1, <1>2, <2>2
  <2>3. QED
    BY <2>1, <2>2
<1>3. QED
  BY <1>1, <1>2 DEF Indexed

\* Every mode has its file type.
LEMMA FileTypes ==
  ASSUME NEW mode \in Mode
  PROVE  dir_entry_file_type(mode) \in FileType /\ rename_file_type(mode) \in FileType
<1>1. \/ mode = "S_IFDIR" \/ mode = "S_IFREG" \/ mode = "S_IFLNK" \/ mode = "S_IFIFO"
      \/ mode = "S_IFCHR" \/ mode = "S_IFBLK" \/ mode = "S_IFSOCK"
  BY DirAssumption DEF Mode
<1>2. dir_entry_file_type(mode) \in FileType
  BY <1>1 DEF dir_entry_file_type, FileType
<1>3. "FT_UNKNOWN" \in FileType
  BY DEF FileType
<1>4. QED
  BY <1>2, <1>3 DEF rename_file_type

\* dir_add_entry in a directory of the file system.
LEMMA AddOnDisk ==
  ASSUME DirInv, NEW d \in Inode, IsDir(d), NEW n \in Name \ TooLong, ~has_name(d, n),
         NEW i \in Inode, NEW t \in FileType, NEW avail \in Nat,
         NEW r, r = dir_add_entry(dirs[d], inode[d].blocks, avail, n, i, t)
  PROVE  /\ \A j : ~Points(d, n, j)
         /\ r.ret = "ok" => GoodDir(r.blocks) /\ DirAdded(dirs[d], r.blocks, n, i, t)
         /\ r.ret # "ok" => r.blocks = dirs[d]
         /\ Mapped(r.blocks, r.mapped) /\ r.mapped \in Nat /\ r.avail \in Nat
         /\ r.mapped + r.avail = inode[d].blocks + avail
<1>1. GoodDir(dirs[d]) /\ Mapped(dirs[d], inode[d].blocks) /\ inode[d].blocks \in Nat
  BY InodeFacts DEF DirInv, Types, Trees
<1>2. on_disk(dirs[d], n) = {} /\ \A j : ~Points(d, n, j)
  BY Lookup DEF DirInv
<1>3. /\ r.ret = "ok" => GoodDir(r.blocks) /\ DirAdded(dirs[d], r.blocks, n, i, t)
      /\ r.ret # "ok" => r.blocks = dirs[d]
      /\ Mapped(r.blocks, r.mapped) /\ r.avail \in Nat
      /\ r.mapped + r.avail = inode[d].blocks + avail
  BY <1>1, <1>2, AddEntry
<1>4. Len(r.blocks) \in Nat
  <2>1. GoodDir(r.blocks)
    BY <1>1, <1>3
  <2>2. QED
    BY <2>1, LenProperties DEF GoodDir
<1>5. r.mapped \in Nat
  BY <1>3, <1>4 DEF Mapped
<1>6. QED
  BY <1>2, <1>3, <1>5

\* A call that is refused.
LEMMA RefusedInv ==
  ASSUME DirInv, NEW d \in Inode, IsDir(d), NEW n, refused(d, n)
  PROVE  DirInv' /\ Effect
<1>1. Indexed(index, inode, dirs) /\ Indexed(indexed(d), inode, dirs)
  BY IndexedOK DEF DirInv, Indexes
<1>2. returns(index) \/ returns(indexed(d))
  BY DEF refused
<1>3. QED
  BY <1>1, <1>2, ReturnsInv

\* create_file, create_special and create_symlink keep the invariant.
LEMMA NewEntryInv ==
  ASSUME DirInv, NEW d \in Inode, IsDir(d), NEW n \in Name, NEW mode \in Mode, mode # "S_IFDIR",
         new_entry(d, n, mode)
  PROVE  DirInv' /\ Effect
<1>1. Types /\ Indexes /\ Trees /\ Owned /\ Indexed(indexed(d), inode, dirs)
  BY IndexedOK DEF DirInv
<1>2. CASE refused(d, n)
  BY <1>2, RefusedInv
<1>3. CASE returns(indexed(d))
  BY <1>1, <1>3, ReturnsInv
<1>4. CASE ~refused(d, n) /\ ~returns(indexed(d))
  <2> DEFINE t == dir_entry_file_type(mode)
             add(i) == dir_add_entry(dirs[d], inode[d].blocks, free, n, i, t)
             cache(i) == inode_caches_invalidate(indexed(d), i)
  <2>0. PICK i \in Inode \ used :
           /\ may_add(d, n)
           /\ \/ add(i).ret # "ok" /\ gives_back(i, cache(i))
              \/ /\ add(i).ret = "ok"
                 /\ used' = used \cup {i}
                 /\ \E k \in target_data(mode, add(i).avail) :
                      /\ inode' = [inode EXCEPT ![d].blocks = add(i).mapped,
                                    ![i] = [mode |-> mode, links |-> 1, blocks |-> k]]
                      /\ free' = add(i).avail - k
                 /\ dirs' = [dirs EXCEPT ![d] = add(i).blocks]
                 /\ index' = with_name(cache(i), d, n, i, t)
                 /\ done' = "created"
    <3> HIDE DEF t
    <3>1. new_entry(d, n, mode)
      OBVIOUS
    <3>2. QED
      BY <1>4, <3>1 DEF new_entry, t
  <2> HIDE DEF t, add, cache
  <2>1. PICK k :
           /\ may_add(d, n)
           /\ \/ add(i).ret # "ok" /\ gives_back(i, cache(i))
              \/ /\ add(i).ret = "ok"
                 /\ used' = used \cup {i}
                 /\ inode' = [inode EXCEPT ![d].blocks = add(i).mapped,
                                 ![i] = [mode |-> mode, links |-> 1, blocks |-> k]]
                 /\ dirs' = [dirs EXCEPT ![d] = add(i).blocks]
                 /\ free' = add(i).avail - k
                 /\ index' = with_name(cache(i), d, n, i, t)
                 /\ done' = "created"
                 /\ k \in target_data(mode, add(i).avail)
    BY <2>0
  <2> USE DEF t, add, cache
  <2> DEFINE r == add(i)
             c == cache(i)
  <2>2. n \in Name \ TooLong /\ ~has_name(d, n) /\ t \in FileType /\ free \in Nat
    BY <1>1, <2>1, FileTypes DEF may_add, Types
  <2>3. r = dir_add_entry(dirs[d], inode[d].blocks, free, n, i, t)
    OBVIOUS
  <2>4. /\ Indexed(c, inode, dirs) /\ c[i] = NotCached
    BY <1>1, InvalidateOK
  <2> HIDE DEF t, r, c, add, cache
  <2>6. /\ \A j : ~Points(d, n, j)
        /\ r.ret = "ok" => GoodDir(r.blocks) /\ DirAdded(dirs[d], r.blocks, n, i, t)
        /\ Mapped(r.blocks, r.mapped) /\ r.mapped \in Nat /\ r.avail \in Nat
        /\ r.mapped + r.avail = inode[d].blocks + free
    BY <2>2, <2>3, AddOnDisk
  <2>7. CASE r.ret # "ok" /\ returns(c)
    BY <2>4, <2>7, ReturnsInv
  <2>8. CASE /\ r.ret = "ok"
             /\ used' = used \cup {i}
             /\ inode' = [inode EXCEPT ![d].blocks = r.mapped,
                             ![i] = [mode |-> mode, links |-> 1, blocks |-> k]]
             /\ dirs' = [dirs EXCEPT ![d] = r.blocks]
             /\ free' = r.avail - k
             /\ index' = with_name(c, d, n, i, t)
             /\ done' = "created"
             /\ k \in target_data(mode, r.avail)
    <3>1. k \in Nat /\ r.avail - k \in Nat
      BY <2>6, <2>8 DEF target_data
    <3>2. inode[d].blocks \in Nat
      BY <1>1, InodeFacts
    <3>3. free' \in Nat /\ free' + r.mapped + k = free + inode[d].blocks
      BY <2>2, <2>6, <2>8, <3>1, <3>2
    <3>4. Indexed(index', inode', dirs')
      <4>1. i # d
        BY <1>1, Fresh
      <4>2. dirs'[d] = r.blocks /\ \A j \in Inode : j # d => dirs'[j] = dirs[j]
        BY <1>1, <2>8 DEF Types
      <4>3. \A j \in Inode : c[j] # NotCached => inode[j].mode = "S_IFDIR" /\ j # i
        BY <2>4 DEF Indexed
      <4>4. inode[d] \in InodeRecord
        BY <1>1, InodeFacts
      <4>5. \A j \in Inode : j # i => inode'[j].mode = inode[j].mode
        BY <1>1, <2>8, <4>1, <4>4 DEF Types, InodeRecord
      <4>6. DirAdded(dirs[d], dirs'[d], n, i, t)
        BY <2>6, <2>8, <4>2
      <4>7. Indexed(with_name(c, d, n, i, t), inode', dirs')
        BY <2>4, <4>2, <4>3, <4>5, <4>6, WithName
      <4>8. QED
        BY <2>8, <4>7
    <3>5. DirInv' /\ ModesKept /\ NewName(d, n, i) /\ inode'[i].mode \in Mode
      BY <2>6, <2>8, <3>1, <3>3, <3>4, NewFile
    <3>6. i # Root /\ ~IsNamed(i) /\ NotNamed(d, n)
      BY <1>1, <2>6, Fresh DEF IsNamed, NotNamed
    <3>7. Created
      BY <2>8, <3>5, <3>6 DEF Created
    <3>8. QED
      BY <2>8, <3>5, <3>7 DEF Effect
  <2>9. QED
    BY <2>1, <2>7, <2>8 DEF r, c, gives_back
<1>5. QED
  BY <1>2, <1>3, <1>4

-------------------------------------------------------------------------------
\* The names callers find are the ones on disk.
LEMMA NamesIn ==
  ASSUME Types, Indexes, NEW d \in Inode
  PROVE  /\ \A n \in Name, i \in Inode : Points(d, n, i) => [name |-> n, ino |-> i] \in names_in(d)
         /\ \A e \in names_in(d) : e.name \in Name /\ e.ino \in Inode /\ Points(d, e.name, e.ino)
<1> DEFINE x == dir_index(d)
<1>1. names_in(d) = {[name |-> n, ino |-> x[n].ino] : n \in DOMAIN x \cap Name}
  BY DEF names_in
<1>2. \A n \in DOMAIN x : Points(d, n, x[n].ino) /\ x[n].ino \in Inode
  BY Lookup DEF has_name, inode_of
<1>3. \A n, i : Points(d, n, i) => n \in DOMAIN x /\ x[n].ino = i
  BY Lookup DEF inode_of
<1> HIDE DEF x
<1>4. ASSUME NEW n \in Name, NEW i \in Inode, Points(d, n, i)
      PROVE  [name |-> n, ino |-> i] \in names_in(d)
  BY <1>1, <1>3, <1>4
<1>5. ASSUME NEW e \in names_in(d)
      PROVE  e.name \in Name /\ e.ino \in Inode /\ Points(d, e.name, e.ino)
  <2>1. PICK n \in DOMAIN x \cap Name : e = [name |-> n, ino |-> x[n].ino]
    BY <1>1
  <2>2. e.name = n /\ e.ino = x[n].ino
    BY <2>1
  <2>3. QED
    BY <1>2, <2>2
<1>6. QED
  BY <1>4, <1>5

\* Only a directory has names.
LEMMA NamesInDirs ==
  ASSUME Types, Trees, Owned, NEW d \in Inode, NEW n, NEW i, Points(d, n, i)
  PROVE  d \in directories
<1>1. IsDir(d)
  BY NoBlocks DEF Trees, Points
<1>2. d \in used
  BY <1>1, DirUsed
<1>3. QED
  BY <1>1, <1>2 DEF directories, IsDir

\* What lives is the root and what has a name on disk.
LEMMA LiveIsNamed ==
  ASSUME DirInv
  PROVE  /\ \A i : i \in live <=> i \in Inode /\ (i = Root \/ IsNamed(i))
         /\ \A i : i \in named <=> i \in Inode /\ IsNamed(i)
         /\ \A i : i \in directories <=> i \in Inode /\ IsDir(i)
<1>1. Types /\ Indexes /\ Trees /\ Owned /\ Root \in Inode
  BY DirAssumption DEF DirInv
<1>2. \A i : i \in directories <=> i \in Inode /\ IsDir(i)
  BY <1>1, DirUsed DEF directories, IsDir, Types
<1>3. ASSUME NEW i \in Inode, IsNamed(i) PROVE i \in named
  <2>1. PICK d \in Inode, n \in Name : Points(d, n, i)
    BY <1>3 DEF IsNamed
  <2>2. d \in directories
    BY <1>1, <2>1, NamesInDirs
  <2>3. [name |-> n, ino |-> i] \in names_in(d)
    BY <1>1, <2>1, NamesIn
  <2>4. i \in {e.ino : e \in names_in(d)}
    <3>1. [name |-> n, ino |-> i].ino = i
      OBVIOUS
    <3>2. QED
      BY <2>3, <3>1
  <2>5. QED
    BY <2>2, <2>4 DEF named
<1>4. ASSUME NEW i \in named PROVE i \in Inode /\ IsNamed(i)
  <2>1. PICK d \in directories : i \in {e.ino : e \in names_in(d)}
    BY DEF named
  <2>2. PICK e \in names_in(d) : i = e.ino
    BY <2>1
  <2>3. d \in Inode
    BY <1>2
  <2>4. e.name \in Name /\ e.ino \in Inode /\ Points(d, e.name, e.ino)
    BY <1>1, <2>2, <2>3, NamesIn
  <2>5. QED
    BY <2>2, <2>3, <2>4 DEF IsNamed
<1>5. QED
  BY <1>1, <1>2, <1>3, <1>4 DEF live

\* The names of an inode, and the subdirectories of a directory.
LEMMA NamesOfIsNames ==
  ASSUME DirInv, NEW i \in Inode
  PROVE  names_of(i) = NamesOf(i) /\ subdirectories(i) = Subs(i)
<1>1. Types /\ Indexes /\ Trees /\ Owned
  BY DEF DirInv
<1>2. ASSUME NEW p \in names_of(i) PROVE p \in NamesOf(i)
  <2>1. PICK d \in directories : p \in {<<d, e.name>> : e \in {x \in names_in(d) : x.ino = i}}
    BY DEF names_of
  <2>2. PICK e \in names_in(d) : e.ino = i /\ p = <<d, e.name>>
    BY <2>1
  <2>3. d \in Inode
    BY LiveIsNamed
  <2>4. e.name \in Name /\ Points(d, e.name, i)
    BY <1>1, <2>2, <2>3, NamesIn
  <2>5. QED
    BY <2>2, <2>3, <2>4 DEF NamesOf
<1>3. ASSUME NEW p \in NamesOf(i) PROVE p \in names_of(i)
  <2>1. PICK d \in Inode, n \in Name : p = <<d, n>> /\ Points(d, n, i)
    BY DEF NamesOf
  <2>2. d \in directories
    BY <1>1, <2>1, NamesInDirs
  <2>3. [name |-> n, ino |-> i] \in names_in(d)
    BY <1>1, <2>1, NamesIn
  <2>4. [name |-> n, ino |-> i].name = n /\ [name |-> n, ino |-> i].ino = i
    OBVIOUS
  <2>5. p \in {<<d, e.name>> : e \in {x \in names_in(d) : x.ino = i}}
    BY <2>1, <2>3, <2>4
  <2>6. QED
    BY <2>2, <2>5 DEF names_of
<1>4. ASSUME NEW n \in subdirectories(i) PROVE n \in Subs(i)
  <2>1. PICK e \in names_in(i) : inode[e.ino].mode = "S_IFDIR" /\ n = e.name
    BY DEF subdirectories
  <2>2. e.name \in Name /\ e.ino \in Inode /\ Points(i, e.name, e.ino)
    BY <1>1, <2>1, NamesIn
  <2>3. QED
    BY <2>1, <2>2 DEF Subs, IsDir
<1>5. ASSUME NEW n \in Subs(i) PROVE n \in subdirectories(i)
  <2>1. PICK j \in Inode : n \in Name /\ Points(i, n, j) /\ inode[j].mode = "S_IFDIR"
    BY DEF Subs, IsDir
  <2>2. [name |-> n, ino |-> j] \in names_in(i)
    BY <1>1, <2>1, NamesIn
  <2>3. [name |-> n, ino |-> j].name = n /\ [name |-> n, ino |-> j].ino = j
    OBVIOUS
  <2>4. [name |-> n, ino |-> j] \in {x \in names_in(i) : inode[x.ino].mode = "S_IFDIR"}
    BY <2>1, <2>2, <2>3
  <2>5. QED
    BY <2>3, <2>4 DEF subdirectories
<1>6. QED
  BY <1>2, <1>3, <1>4, <1>5

-------------------------------------------------------------------------------
\* link_inode keeps the invariant while its target is below the limit.
LEMMA LinkInv ==
  ASSUME DirInv, BelowLimit, NEW d \in Inode, IsDir(d), NEW n \in Name, NEW target \in live,
         link_inode(d, n, target)
  PROVE  DirInv' /\ Effect
<1>1. Types /\ Indexes /\ Trees /\ Owned /\ Indexed(indexed(d), inode, dirs)
  BY IndexedOK DEF DirInv
<1>2. CASE refused(d, n)
  BY <1>2, RefusedInv
<1>3. CASE returns(indexed(d))
  BY <1>1, <1>3, ReturnsInv
<1>4. CASE ~refused(d, n) /\ ~returns(indexed(d))
  <2> DEFINE t == dir_entry_file_type(inode[target].mode)
             r == dir_add_entry(dirs[d], inode[d].blocks, free, n, target, t)
  <2>1. /\ may_add(d, n) /\ inode[target].mode # "S_IFDIR" /\ r.ret = "ok"
        /\ inode' = [inode EXCEPT ![d].blocks = r.mapped, ![target].links = saturating_add(@)]
        /\ dirs' = [dirs EXCEPT ![d] = r.blocks]
        /\ free' = r.avail
        /\ index' = with_name(indexed(d), d, n, target, t)
        /\ used' = used /\ done' = "linked"
    BY <1>4 DEF link_inode
  <2>2. target \in Inode /\ ~IsDir(target) /\ IsNamed(target)
    BY <1>1, <2>1, LiveIsNamed DEF IsDir, Owned
  <2>3. inode[target].mode \in Mode
    BY <1>1, <2>2, InodeFacts DEF Owned, IsNamed
  <2>4. n \in Name \ TooLong /\ ~has_name(d, n) /\ t \in FileType /\ free \in Nat
    BY <1>1, <2>1, <2>3, FileTypes DEF may_add, Types
  <2>5. r = dir_add_entry(dirs[d], inode[d].blocks, free, n, target, t)
    OBVIOUS
  <2> HIDE DEF t, r
  <2>6. /\ \A j : ~Points(d, n, j)
        /\ GoodDir(r.blocks) /\ DirAdded(dirs[d], r.blocks, n, target, t)
        /\ Mapped(r.blocks, r.mapped) /\ r.mapped \in Nat /\ r.avail \in Nat
        /\ r.mapped + r.avail = inode[d].blocks + free
    BY <2>1, <2>2, <2>4, <2>5, AddOnDisk
  <2>7. free' \in Nat /\ free' + r.mapped = free + inode[d].blocks
    <3>1. inode[d].blocks \in Nat
      BY <1>1, InodeFacts
    <3>2. QED
      BY <2>1, <2>4, <2>6, <3>1
  <2>8. Indexed(index', inode', dirs')
    <3>1. dirs'[d] = r.blocks /\ \A j \in Inode : j # d => dirs'[j] = dirs[j]
      BY <1>1, <2>1 DEF Types
    <3>2. inode[d] \in InodeRecord /\ inode[target] \in InodeRecord
      BY <1>1, <2>2, InodeFacts
    <3>3. \A j \in Inode : inode'[j].mode = inode[j].mode
      BY <1>1, <2>1, <2>2, <3>2 DEF Types, InodeRecord
    <3>4. \A j \in Inode : indexed(d)[j] # NotCached => inode'[j].mode = "S_IFDIR"
      BY <1>1, <3>3 DEF Indexed
    <3>5. Indexed(with_name(indexed(d), d, n, target, t), inode', dirs')
      BY <1>1, <2>6, <3>1, <3>4, WithName
    <3>6. QED
      BY <2>1, <3>5
  <2>9. inode[target].links < MaxLinks
    BY <2>2 DEF BelowLimit
  <2>10. DirInv' /\ ModesKept /\ NewName(d, n, target)
    BY <2>1, <2>2, <2>6, <2>7, <2>8, <2>9, LinkFile
  <2>11. NotNamed(d, n)
    BY <2>6 DEF NotNamed
  <2>12. Linked
    BY <2>1, <2>2, <2>10, <2>11 DEF Linked
  <2>13. QED
    BY <2>1, <2>10, <2>12 DEF Effect
<1>5. QED
  BY <1>2, <1>3, <1>4

\* create_dir keeps the invariant while the directory is below the limit.
LEMMA CreateDirInv ==
  ASSUME DirInv, BelowLimit, NEW d \in Inode, IsDir(d), NEW n \in Name, create_dir(d, n)
  PROVE  DirInv' /\ Effect
<1>1. Types /\ Indexes /\ Trees /\ Owned /\ Indexed(indexed(d), inode, dirs)
  BY IndexedOK DEF DirInv
<1>2. CASE refused(d, n)
  BY <1>2, RefusedInv
<1>3. CASE returns(indexed(d))
  BY <1>1, <1>3, ReturnsInv
<1>4. CASE ~refused(d, n) /\ ~returns(indexed(d))
  <2> DEFINE add(i) == dir_add_entry(dirs[d], inode[d].blocks, free - 1, n, i, "FT_DIR")
             cache(i) == inode_caches_invalidate(indexed(d), i)
             new == [mode |-> "S_IFDIR", links |-> 2, blocks |-> 1]
  <2>1. PICK i \in Inode \ used :
           /\ may_add(d, n)
           /\ \/ free = 0 /\ loses(i, cache(i))
              \/ free > 0 /\ add(i).ret # "ok" /\ gives_back(i, cache(i))
              \/ /\ free > 0 /\ add(i).ret = "ok"
                 /\ used' = used \cup {i}
                 /\ inode' = [inode EXCEPT ![i] = new, ![d].blocks = add(i).mapped,
                                           ![d].links = saturating_add(@)]
                 /\ dirs' = [dirs EXCEPT ![i] = <<first_block(i, d)>>, ![d] = add(i).blocks]
                 /\ free' = add(i).avail
                 /\ index' = with_name(cache(i), d, n, i, "FT_DIR")
                 /\ done' = "created"
    BY <1>4 DEF create_dir
  <2> DEFINE r == add(i)
             c == cache(i)
  <2>2. n \in Name \ TooLong /\ ~has_name(d, n) /\ "FT_DIR" \in FileType /\ free \in Nat
    BY <1>1, <2>1 DEF may_add, Types, FileType
  <2>3. r = dir_add_entry(dirs[d], inode[d].blocks, free - 1, n, i, "FT_DIR")
    OBVIOUS
  <2>4. /\ Indexed(c, inode, dirs) /\ c[i] = NotCached
    BY <1>1, InvalidateOK
  <2> HIDE DEF r, c, add, cache
  <2>5. CASE free = 0 /\ loses(i, c)
    <3>1. /\ UNCHANGED <<inode, dirs, free>> /\ index' = c /\ used' = used \cup {i}
          /\ done' = "none"
      BY <2>5 DEF loses
    <3>2. used \subseteq used' /\ used' \subseteq Inode
      BY <1>1, <3>1 DEF Types
    <3>3. DirInv' /\ NamesKept /\ ModesKept
      BY <2>4, <3>1, <3>2, LookOnly
    <3>4. QED
      BY <2>5, <3>1, <3>3 DEF Effect
  <2>6. CASE returns(c)
    BY <2>4, <2>6, ReturnsInv
  <2>7. CASE /\ free > 0 /\ r.ret = "ok"
             /\ used' = used \cup {i}
             /\ inode' = [inode EXCEPT ![i] = new, ![d].blocks = r.mapped,
                                       ![d].links = saturating_add(@)]
             /\ dirs' = [dirs EXCEPT ![i] = <<first_block(i, d)>>, ![d] = r.blocks]
             /\ free' = r.avail
             /\ index' = with_name(c, d, n, i, "FT_DIR")
             /\ done' = "created"
    <3>1. free - 1 \in Nat
      BY <2>2, <2>7
    <3>2. /\ \A j : ~Points(d, n, j)
          /\ GoodDir(r.blocks) /\ DirAdded(dirs[d], r.blocks, n, i, "FT_DIR")
          /\ Mapped(r.blocks, r.mapped) /\ r.mapped \in Nat /\ r.avail \in Nat
          /\ r.mapped + r.avail = inode[d].blocks + (free - 1)
      BY <2>2, <2>3, <2>7, <3>1, AddOnDisk
    <3>3. free' \in Nat /\ free' + r.mapped + 1 = free + inode[d].blocks
      <4>1. inode[d].blocks \in Nat
        BY <1>1, InodeFacts
      <4>2. QED
        BY <2>2, <2>7, <3>2, <4>1
    <3>4. Indexed(index', inode', dirs')
      <4>1. i # d
        BY <1>1, Fresh
      <4>2. dirs'[d] = r.blocks /\ \A j \in Inode : j # d /\ j # i => dirs'[j] = dirs[j]
        BY <1>1, <2>7, <4>1 DEF Types
      <4>3. \A j \in Inode : c[j] # NotCached => inode[j].mode = "S_IFDIR" /\ j # i
        BY <2>4 DEF Indexed
      <4>4. inode[d] \in InodeRecord
        BY <1>1, InodeFacts
      <4>5. \A j \in Inode : j # i => inode'[j].mode = inode[j].mode
        BY <1>1, <2>7, <4>1, <4>4 DEF Types, InodeRecord
      <4>6. DirAdded(dirs[d], dirs'[d], n, i, "FT_DIR")
        BY <3>2, <4>2
      <4>7. Indexed(with_name(c, d, n, i, "FT_DIR"), inode', dirs')
        BY <2>4, <4>2, <4>3, <4>5, <4>6, WithName
      <4>8. QED
        BY <2>7, <4>7
    <3>5. inode[d].links < MaxLinks
      BY DEF BelowLimit
    <3>6. DirInv' /\ ModesKept /\ NewName(d, n, i) /\ inode'[i].mode \in Mode
      BY <2>7, <3>2, <3>3, <3>4, <3>5, NewDirectory
    <3>7. i # Root /\ ~IsNamed(i) /\ NotNamed(d, n)
      BY <1>1, <3>2, Fresh DEF IsNamed, NotNamed
    <3>8. Created
      BY <2>7, <3>6, <3>7 DEF Created
    <3>9. QED
      BY <2>7, <3>6, <3>8 DEF Effect
  <2>8. QED
    BY <2>1, <2>5, <2>6, <2>7 DEF r, c, gives_back
<1>5. QED
  BY <1>2, <1>3, <1>4

\* ls shows every name on disk.
LEMMA LsShows ==
  ASSUME Types, NEW i \in Inode, NEW m \in Name, NEW j, Points(i, m, j)
  PROVE  ls(i) # {}
<1>1. PICK t : Holds(dirs[i], m, j, t)
  BY DEF Points
<1>2. PICK b \in DOMAIN dirs[i] : InBlock(dirs[i][b], m, j, t)
  BY <1>1 DEF Holds
<1>3. PICK k \in DOMAIN dirs[i][b] : dirs[i][b][k].ino # NoInode /\ dirs[i][b][k].name = m
  BY <1>2 DEF InBlock
<1>4. <<b, k>> \in entry_places(i) /\ entry_at(i, <<b, k>>) = dirs[i][b][k]
  BY <1>3 DEF entry_places, entry_at
<1>5. dirs[i][b][k] \in read_dir_entries(i)
  BY <1>4 DEF read_dir_entries
<1>6. m \notin Dots
  BY DirAssumption
<1>7. m \in ls(i)
  BY <1>3, <1>5, <1>6 DEF ls
<1>8. QED
  BY <1>7

\* A file with one link has one name.
LEMMA OneName ==
  ASSUME DirInv, NEW d \in Inode, NEW n \in Name, NEW i \in Inode, Points(d, n, i), ~IsDir(i),
         saturating_sub(inode[i].links) = 0
  PROVE  \A e \in Inode, m \in Name : Points(e, m, i) => e = d /\ m = n
<1>1. inode[i].links = Cardinality(NamesOf(i)) /\ inode[i].links \in Nat
  BY InodeFacts DEF DirInv, Counts, IsNamed
<1>2. <<d, n>> \in NamesOf(i) /\ IsFiniteSet(NamesOf(i))
  BY NamesFinite DEF NamesOf
<1>3. Cardinality(NamesOf(i) \ {<<d, n>>}) = Cardinality(NamesOf(i)) - 1
      /\ IsFiniteSet(NamesOf(i) \ {<<d, n>>})
  BY <1>2, FS_RemoveElement
<1>4. Cardinality(NamesOf(i) \ {<<d, n>>}) \in Nat
  BY <1>3, FS_CardinalityType
<1>5. Cardinality(NamesOf(i) \ {<<d, n>>}) = 0
  BY <1>1, <1>3, <1>4 DEF saturating_sub
<1>6. NamesOf(i) \ {<<d, n>>} = {}
  BY <1>3, <1>5, FS_EmptySet
<1>7. ASSUME NEW e \in Inode, NEW m \in Name, Points(e, m, i)
      PROVE  e = d /\ m = n
  <2>1. <<e, m>> \in NamesOf(i)
    BY <1>7 DEF NamesOf
  <2>2. <<e, m>> = <<d, n>>
    BY <1>6, <2>1, Zenon
  <2>3. QED
    BY <2>2
<1>8. QED
  BY <1>7

\* unlink keeps the invariant.
LEMMA UnlinkInv ==
  ASSUME DirInv, NEW d \in Inode, IsDir(d), NEW n \in Name, unlink(d, n)
  PROVE  DirInv' /\ Effect
<1>1. Types /\ Indexes /\ Trees /\ Owned /\ Indexed(indexed(d), inode, dirs)
  BY IndexedOK DEF DirInv
<1>2. CASE returns(indexed(d))
  BY <1>1, <1>2, ReturnsInv
<1>3. CASE ~returns(indexed(d))
  <2>i. PICK i : i = inode_of(d, n)
    OBVIOUS
  <2> DEFINE c == indexed(d)
             C == dir_remove_entry(dirs[d], n)
             gone == IsDir(i) \/ links_left(i) = 0
  <2>1. /\ has_name(d, n) /\ ~(IsDir(i) /\ ls(i) # {}) /\ on_disk(dirs[d], n) # {}
        /\ dirs' = [dirs EXCEPT ![d] = C, ![i] = IF IsDir(i) THEN <<>> ELSE @]
        /\ inode' = [inode EXCEPT ![d].links = IF IsDir(i) THEN saturating_sub(@) ELSE @,
                                  ![i] = IF gone THEN no_inode ELSE [@ EXCEPT !.links = links_left(i)]]
        /\ free' = IF gone THEN free + freed(i) ELSE free
        /\ used' = IF gone THEN used \ {i} ELSE used
        /\ index' = without_name(IF gone THEN inode_caches_invalidate(c, i) ELSE c, d, n)
        /\ done' = "removed"
    BY <1>3, <2>i DEF unlink, IsDir
  <2>2. GoodDir(C) /\ DirRemoved(dirs[d], C, n) /\ Len(C) = Len(dirs[d])
    BY <1>1, <2>1, RemoveEntry DEF Types
  <2>3. Points(d, n, i) /\ i \in Inode
    BY <1>1, <2>1, <2>i, Lookup
  <2> HIDE DEF C
  <2>4. i # d /\ i # Root
    BY <1>1, <2>3 DEF Owned
  <2>5. \A m \in Name : \A j : ~IsDir(i) \/ ls(i) = {} => ~Points(i, m, j)
    BY <1>1, <2>3, LsShows, NoBlocks DEF Trees, Points
  <2>6. /\ inode[d] \in InodeRecord /\ inode[i] \in InodeRecord
        /\ inode[i].links \in Nat /\ inode[i].links <= MaxLinks
    BY <1>1, <2>3, InodeFacts
  <2>7. ~IsDir(i) => dirs[i] = <<>>
    BY <1>1, <2>3 DEF Trees
  <2>8. CASE gone
    <3> DEFINE z == inode_caches_invalidate(c, i)
    <3>1. dirs' = [dirs EXCEPT ![d] = C, ![i] = <<>>]
      <4>1. CASE IsDir(i)
        BY <2>1, <4>1
      <4>2. CASE ~IsDir(i)
        <5>1. dirs' = [dirs EXCEPT ![d] = C, ![i] = @]
          BY <2>1, <4>2
        <5>2. QED
          BY <1>1, <2>3, <2>4, <2>7, <4>2, <5>1 DEF Types
      <4>3. QED
        BY <4>1, <4>2
    <3>2. inode' = [inode EXCEPT ![d].links = IF IsDir(i) THEN saturating_sub(@) ELSE @,
                                 ![i] = no_inode]
      BY <2>1, <2>8
    <3>3. free' = free + inode[i].blocks /\ used' = used \ {i} /\ index' = without_name(z, d, n)
      BY <2>1, <2>8 DEF freed
    <3>4. \A e \in Inode, m \in Name : Points(e, m, i) => e = d /\ m = n
      <4>1. CASE IsDir(i)
        BY <1>1, <2>3, <4>1 DEF Owned
      <4>2. CASE ~IsDir(i)
        BY <2>3, <2>8, <4>2, OneName DEF links_left
      <4>3. QED
        BY <4>1, <4>2
    <3>5. \A m \in Name : \A j : ~Points(i, m, j)
      BY <2>1, <2>5
    <3>6. Indexed(z, inode, dirs) /\ z[i] = NotCached
      BY <1>1, <2>3, InvalidateOK
    <3> HIDE DEF z, gone, c
    <3>7. Indexed(index', inode', dirs')
      <4>1. dirs'[d] = C /\ \A j \in Inode : j # d /\ j # i => dirs'[j] = dirs[j]
        BY <1>1, <2>3, <2>4, <3>1 DEF Types
      <4>2. \A j \in Inode : z[j] # NotCached => inode[j].mode = "S_IFDIR" /\ j # i
        BY <3>6 DEF Indexed
      <4>3. \A j \in Inode : j # i => inode'[j].mode = inode[j].mode
        BY <1>1, <2>3, <2>4, <2>6, <3>2 DEF Types, InodeRecord
      <4>4. DirRemoved(dirs[d], dirs'[d], n)
        BY <2>2, <4>1
      <4>5. Indexed(without_name(z, d, n), inode', dirs')
        BY <3>6, <4>1, <4>2, <4>3, <4>4, WithoutName
      <4>6. QED
        BY <3>3, <4>5
    <3>8. DirInv' /\ ModesKept /\ NoName(d, n)
      BY <2>2, <2>3, <3>1, <3>2, <3>3, <3>4, <3>5, <3>7, UnlinkLast
    <3>9. Unlinked
      BY <2>3, <3>3, <3>5, <3>8 DEF Unlinked
    <3>10. QED
      BY <2>1, <3>8, <3>9 DEF Effect
  <2>9. CASE ~gone
    <3>1. ~IsDir(i) /\ inode[i].links > 1 /\ links_left(i) = inode[i].links - 1
      BY <2>6, <2>9 DEF links_left, saturating_sub
    <3>2. dirs' = [dirs EXCEPT ![d] = C]
      <4>1. dirs' = [dirs EXCEPT ![d] = C, ![i] = @]
        BY <2>1, <3>1
      <4>2. QED
        BY <1>1, <2>3, <2>4, <4>1 DEF Types
    <3>3. inode' = [inode EXCEPT ![i].links = inode[i].links - 1]
      <4>1. inode' = [inode EXCEPT ![d].links = @, ![i] = [@ EXCEPT !.links = inode[i].links - 1]]
        BY <2>1, <2>9, <3>1
      <4>2. [inode[d] EXCEPT !.links = @] = inode[d]
        BY <2>6 DEF InodeRecord
      <4>3. QED
        BY <1>1, <2>3, <2>4, <4>1, <4>2 DEF Types
    <3>4. free' = free /\ used' = used /\ index' = without_name(c, d, n)
      BY <2>1, <2>9
    <3>5. Indexed(c, inode, dirs)
      BY <1>1
    <3> HIDE DEF gone, c
    <3>6. Indexed(index', inode', dirs')
      <4>1. dirs'[d] = C /\ \A j \in Inode : j # d => dirs'[j] = dirs[j]
        BY <1>1, <3>2 DEF Types
      <4>2. \A j \in Inode : inode'[j].mode = inode[j].mode
        BY <1>1, <2>3, <2>6, <3>3 DEF Types, InodeRecord
      <4>3. \A j \in Inode : c[j] # NotCached => inode'[j].mode = "S_IFDIR"
        BY <3>5, <4>2 DEF Indexed
      <4>4. DirRemoved(dirs[d], dirs'[d], n)
        BY <2>2, <4>1
      <4>5. Indexed(without_name(c, d, n), inode', dirs')
        BY <3>5, <4>1, <4>3, <4>4, WithoutName
      <4>6. QED
        BY <3>4, <4>5
    <3>7. DirInv' /\ ModesKept /\ NoName(d, n) /\ IsNamed(i)'
      BY <2>2, <2>3, <3>1, <3>2, <3>3, <3>4, <3>6, UnlinkLink
    <3>8. \A m \in Name : \A j : ~Points(i, m, j)
      BY <2>5, <3>1
    <3>9. Unlinked
      BY <2>3, <3>4, <3>7, <3>8 DEF Unlinked
    <3>10. QED
      BY <2>1, <3>7, <3>9 DEF Effect
  <2>10. QED
    BY <2>8, <2>9
<1>4. QED
  BY <1>2, <1>3

\* rename keeps the invariant.
LEMMA RenameInv ==
  ASSUME DirInv, NEW d \in Inode, IsDir(d), NEW old \in Name, NEW new \in Name, rename(d, old, new)
  PROVE  DirInv' /\ Effect
<1>1. Types /\ Indexes /\ Trees /\ Owned /\ Indexed(indexed(d), inode, dirs)
      /\ Indexed(index, inode, dirs)
  BY IndexedOK DEF DirInv, Indexes
<1>2. CASE returns(indexed(d)) \/ returns(index)
  BY <1>1, <1>2, ReturnsInv
<1>3. CASE ~returns(indexed(d)) /\ ~returns(index)
  <2> DEFINE i == inode_of(d, old)
             c == indexed(d)
             t == rename_file_type(inode[i].mode)
             r == dir_add_entry(dirs[d], inode[d].blocks, free, new, i, t)
             C == dir_remove_entry(r.blocks, old)
             removed == on_disk(r.blocks, old) # {}
  <2>1. /\ old # new /\ ~has_name(d, new) /\ has_name(d, old)
        /\ inode' = [inode EXCEPT ![d].blocks = r.mapped]
        /\ free' = r.avail /\ used' = used
        /\ \/ (r.ret # "ok" \/ ~removed) /\ dirs' = [dirs EXCEPT ![d] = r.blocks] /\ index' = c
              /\ done' = "none"
           \/ /\ r.ret = "ok" /\ removed
              /\ dirs' = [dirs EXCEPT ![d] = C]
              /\ index' = with_name(without_name(c, d, old), d, new, i, t)
              /\ done' = "renamed"
    BY <1>3 DEF rename
  <2>2. r = dir_add_entry(dirs[d], inode[d].blocks, free, new, i, t) /\ Indexed(c, inode, dirs)
    BY <1>1
  <2>3. Points(d, old, i) /\ i \in Inode /\ on_disk(dirs[d], old) # {} /\ old \in Stored
    BY <1>1, <2>1, Lookup
  <2>4. inode[i].mode \in Mode
    BY <1>1, <2>3, InodeFacts DEF Owned
  <2>5. t \in FileType
    BY <2>4, FileTypes
  <2>6. removed <=> on_disk(r.blocks, old) # {}
    OBVIOUS
  <2>r. C = dir_remove_entry(r.blocks, old)
    OBVIOUS
  <2> HIDE DEF i, c, t, r, C, removed
  <2>7. GoodDir(dirs[d]) /\ Mapped(dirs[d], inode[d].blocks) /\ inode[d].blocks \in Nat /\ free \in Nat
    BY <1>1, InodeFacts DEF Types, Trees
  <2>8. inode[d] \in InodeRecord
    BY <1>1, InodeFacts
  <2>9. \A j \in Inode : inode'[j].mode = inode[j].mode
    BY <1>1, <2>1, <2>8 DEF Types, InodeRecord
  <2>10. \A j \in Inode : c[j] # NotCached => inode[j].mode = "S_IFDIR" /\ inode'[j].mode = "S_IFDIR"
    BY <2>2, <2>9 DEF Indexed
  <2>11. CASE r.ret # "ok"
    <3>1. /\ GoodDir(r.blocks) /\ DirSame(dirs[d], r.blocks) /\ Mapped(r.blocks, r.mapped)
          /\ r.avail \in Nat /\ r.mapped \in Nat /\ r.mapped + r.avail = inode[d].blocks + free
      <4>1. CASE new \in TooLong
        <5>1. /\ GoodDir(r.blocks) /\ DirSame(dirs[d], r.blocks) /\ Mapped(r.blocks, r.mapped)
              /\ r.avail \in Nat /\ r.mapped + r.avail = inode[d].blocks + free
          BY <2>2, <2>7, <4>1, LongEntry
        <5>2. Len(r.blocks) \in Nat
          BY <5>1, LenProperties DEF GoodDir
        <5>3. QED
          BY <5>1, <5>2 DEF Mapped
      <4>2. CASE new \in Name \ TooLong
        BY <2>1, <2>2, <2>3, <2>5, <2>7, <2>11, <4>2, AddOnDisk DEF DirSame
      <4>3. QED
        BY <4>1, <4>2
    <3>2. dirs' = [dirs EXCEPT ![d] = r.blocks] /\ index' = c /\ done' = "none"
      BY <2>1, <2>11
    <3>3. dirs'[d] = r.blocks /\ \A j \in Inode : j # d => dirs'[j] = dirs[j]
      BY <1>1, <3>2 DEF Types
    <3>4. Indexed(index', inode', dirs')
      <4>1. DirSame(dirs[d], dirs'[d])
        BY <3>1, <3>3
      <4>2. Indexed(c, inode', dirs')
        BY <2>2, <2>10, <3>3, <4>1, SameNames
      <4>3. QED
        BY <3>2, <4>2
    <3>5. free' \in Nat /\ free' + r.mapped = free + inode[d].blocks
      BY <2>1, <2>7, <3>1
    <3>6. DirInv' /\ ModesKept /\ NamesKept
      BY <2>1, <3>1, <3>2, <3>4, <3>5, Rewritten
    <3>7. QED
      BY <2>1, <3>2, <3>6 DEF Effect
  <2>12. CASE r.ret = "ok"
    <3>1. new \in Name \ TooLong
      <4>1. new \in TooLong => r.ret # "ok"
        BY <2>2, <2>7, LongEntry
      <4>2. QED
        BY <2>12, <4>1
    <3>2. /\ \A j : ~Points(d, new, j)
          /\ GoodDir(r.blocks) /\ DirAdded(dirs[d], r.blocks, new, i, t)
          /\ Mapped(r.blocks, r.mapped) /\ r.mapped \in Nat /\ r.avail \in Nat
          /\ r.mapped + r.avail = inode[d].blocks + free
      BY <2>1, <2>2, <2>3, <2>5, <2>7, <2>12, <3>1, AddOnDisk
    <3>3. removed
      <4>1. \E j, u : Holds(r.blocks, old, j, u)
        BY <2>3, <3>2 DEF Points, DirAdded
      <4>2. QED
        BY <2>6, <4>1, OnDisk
    <3>4. GoodDir(C) /\ DirRemoved(r.blocks, C, old) /\ Mapped(C, r.mapped)
      BY <2>6, <2>r, <3>2, <3>3, RemoveEntry DEF Mapped
    <3>5. /\ dirs' = [dirs EXCEPT ![d] = C] /\ done' = "renamed"
          /\ index' = with_name(without_name(c, d, old), d, new, i, t)
      BY <2>1, <2>12, <3>3
    <3>6. dirs'[d] = C /\ \A j \in Inode : j # d => dirs'[j] = dirs[j]
      BY <1>1, <3>5 DEF Types
    <3>7. Indexed(index', inode', dirs')
      <4> DEFINE R == dir_remove_entry(dirs[d], old)
                 D == [dirs EXCEPT ![d] = R]
                 z == without_name(c, d, old)
      <4>1. DirRemoved(dirs[d], R, old)
        BY <2>3, <2>7, RemoveEntry
      <4> HIDE DEF R
      <4>2. D[d] = R /\ \A j \in Inode : j # d => D[j] = dirs[j]
        BY <1>1 DEF Types
      <4> HIDE DEF D
      <4>3. Indexed(z, inode, D)
        BY <2>2, <2>10, <4>1, <4>2, WithoutName
      <4> HIDE DEF z
      <4>4. DirAdded(D[d], dirs'[d], new, i, t)
        <5>1. \A m, j, u : Holds(C, m, j, u) <=> Holds(r.blocks, m, j, u) /\ m # old
          BY <3>4 DEF DirRemoved
        <5>2. \A m, j, u : Holds(r.blocks, m, j, u) <=> Holds(dirs[d], m, j, u) \/ (m = new /\ j = i /\ u = t)
          BY <3>2 DEF DirAdded
        <5>3. \A m, j, u : Holds(R, m, j, u) <=> Holds(dirs[d], m, j, u) /\ m # old
          BY <4>1 DEF DirRemoved
        <5>4. \A m, j, u : Holds(C, m, j, u) <=> Holds(R, m, j, u) \/ (m = new /\ j = i /\ u = t)
          BY <2>1, <5>1, <5>2, <5>3
        <5>5. QED
          BY <3>6, <4>2, <5>4 DEF DirAdded
      <4>5. \A j \in Inode : z[j] # NotCached => inode'[j].mode = "S_IFDIR"
        BY <2>9, <4>3 DEF Indexed
      <4>6. \A j \in Inode : z[j] # NotCached /\ j # d => dirs'[j] = D[j]
        BY <3>6, <4>2
      <4>7. Indexed(with_name(z, d, new, i, t), inode', dirs')
        BY <4>3, <4>4, <4>5, <4>6, WithName
      <4>8. QED
        BY <3>5, <4>7 DEF z
    <3>8. free' \in Nat /\ free' + r.mapped = free + inode[d].blocks
      BY <2>1, <2>7, <3>2
    <3>9. DirInv' /\ ModesKept /\ OtherName(d, old, new, i)
      BY <2>1, <2>3, <3>2, <3>4, <3>5, <3>7, <3>8, RenameEntry
    <3>10. NotNamed(d, new)
      BY <3>2 DEF NotNamed
    <3>11. Renamed
      BY <2>1, <2>3, <3>9, <3>10 DEF Renamed
    <3>12. QED
      BY <3>5, <3>9, <3>11 DEF Effect
  <2>13. QED
    BY <2>11, <2>12
<1>4. QED
  BY <1>2, <1>3

\* Every step keeps the invariant.
LEMMA NextInv ==
  ASSUME DirInv, BelowLimit, [Next]_vars
  PROVE  DirInv' /\ (Effect \/ UNCHANGED vars)
<1>1. CASE UNCHANGED vars
  <2>1. UNCHANGED <<used, inode, dirs, index, free>>
    BY <1>1 DEF vars
  <2>2. Indexed(index', inode, dirs) /\ used \subseteq used' /\ used' \subseteq Inode
    BY <2>1 DEF DirInv, Indexes, Types
  <2>3. QED
    BY <1>1, <2>1, <2>2, LookOnly
<1>2. ASSUME NEW d \in Inode, NEW n \in Name, called_on(d),
             \/ find(d) \/ create_file(d, n) \/ (\E mode \in Special : create_special(d, n, mode))
             \/ create_symlink(d, n) \/ (\E target \in live : link_inode(d, n, target))
             \/ create_dir(d, n) \/ unlink(d, n) \/ (\E new \in Name : rename(d, n, new))
      PROVE  DirInv' /\ Effect
  <2>1. IsDir(d)
    BY <1>2 DEF called_on, IsDir
  <2>2. CASE find(d)
    BY <2>1, <2>2, IndexedOK, ReturnsInv DEF find, DirInv
  <2>3. CASE create_file(d, n)
    BY <2>1, <2>3, NewEntryInv DEF create_file, Mode
  <2>4. ASSUME NEW mode \in Special, create_special(d, n, mode) PROVE DirInv' /\ Effect
    <3>1. mode \in Mode /\ mode # "S_IFDIR"
      BY DirAssumption DEF Mode
    <3>2. QED
      BY <2>1, <2>4, <3>1, NewEntryInv DEF create_special
  <2>5. CASE create_symlink(d, n)
    BY <2>1, <2>5, NewEntryInv DEF create_symlink, Mode
  <2>6. ASSUME NEW target \in live, link_inode(d, n, target) PROVE DirInv' /\ Effect
    BY <2>1, <2>6, LinkInv
  <2>7. CASE create_dir(d, n)
    BY <2>1, <2>7, CreateDirInv
  <2>8. CASE unlink(d, n)
    BY <2>1, <2>8, UnlinkInv
  <2>9. ASSUME NEW new \in Name, rename(d, n, new) PROVE DirInv' /\ Effect
    BY <2>1, <2>9, RenameInv
  <2>10. QED
    BY <1>2, <2>2, <2>3, <2>4, <2>5, <2>6, <2>7, <2>8, <2>9
<1>3. QED
  BY <1>1, <1>2 DEF Next

-------------------------------------------------------------------------------
\* What the invariant says.  The types, and that no count is above the blocks
\* of the device.
LEMMA InvTypeOK ==
  ASSUME DirInv
  PROVE  TypeOK
<1>1. Types /\ Sums /\ index = [i \in Inode |-> index[i]]
  BY DEF DirInv, Indexes, Indexed
<1> DEFINE f == blocksOf
<1>2. \A i \in Inode : f[i] = inode[i].blocks /\ f[i] \in Nat
  BY <1>1, InodeFacts DEF blocksOf
<1>3. free + Total(f, Inode) = DataBlocks /\ free \in Nat /\ DataBlocks \in Nat /\ IsFiniteSet(Inode)
  BY <1>1, DirAssumption DEF Sums, Types
<1> HIDE DEF f
<1>4. ASSUME NEW i \in Inode PROVE inode[i].blocks \in 0 .. DataBlocks /\ free \in 0 .. DataBlocks
  <2>1. Total(f, Inode) = Total(f, Inode \ {i}) + f[i] /\ Total(f, Inode \ {i}) \in Nat
    BY <1>2, <1>3, TotalSplit
  <2>2. f[i] \in Nat /\ f[i] = inode[i].blocks
    BY <1>2
  <2>3. QED
    BY <1>3, <2>1, <2>2
<1>5. \A i \in Inode : inode[i].mode \in Mode \cup {"none"} /\ inode[i].links \in 0 .. MaxLinks
  BY <1>1, InodeFacts
<1>6. Root \in Inode
  BY DirAssumption
<1>7. DOMAIN dirs = Inode /\ DOMAIN index = Inode /\ used \subseteq Inode
  BY <1>1 DEF Types
<1>8. QED
  BY <1>4, <1>5, <1>6, <1>7 DEF TypeOK

\* A cached index is the only one its directory has.
LEMMA InvIndexCoherent ==
  ASSUME DirInv
  PROVE  IndexCoherent
<1> SUFFICES ASSUME NEW i \in Inode, index[i] # NotCached
             PROVE  i \in live \cap directories /\ index[i] = build_dir_index(i)
  BY DEF IndexCoherent
<1>1. Types /\ Owned /\ IsDir(i) /\ IsIndex(index[i], dirs[i])
  BY DEF DirInv, Indexes, Indexed, IsDir
<1>2. index[i] = build_dir_index(i)
  BY <1>1, BuildIndex, IndexUnique DEF Types
<1>3. i = Root \/ IsNamed(i)
  BY <1>1 DEF Owned, IsDir, no_inode
<1>4. QED
  BY <1>1, <1>2, <1>3, LiveIsNamed

\* Names are for inodes in use.
LEMMA InvEntriesNameInodes ==
  ASSUME DirInv
  PROVE  EntriesNameInodes
<1>1. Types /\ Indexes /\ Trees /\ Owned
  BY DEF DirInv
<1>2. named \subseteq used
  BY <1>1, LiveIsNamed DEF Owned, IsNamed
<1>3. ASSUME NEW d \in live \cap directories
      PROVE  /\ has_name(d, ".") /\ inode_of(d, ".") = d
             /\ has_name(d, "..")
             /\ d = Root \/ inode_of(d, "..") \in {p[1] : p \in names_of(d)}
  <2>1. d \in Inode /\ IsDir(d)
    BY LiveIsNamed
  <2>2. PICK p \in Inode : /\ Points(d, ".", d) /\ Points(d, "..", p)
                           /\ d = Root \/ \E n \in Name : Points(p, n, d)
    BY <1>1, <2>1 DEF Trees
  <2>3. has_name(d, ".") /\ inode_of(d, ".") = d /\ has_name(d, "..") /\ inode_of(d, "..") = p
    BY <1>1, <2>1, <2>2, Lookup
  <2>4. ASSUME NEW n \in Name, Points(p, n, d) PROVE p \in {q[1] : q \in names_of(d)}
    <3>1. <<p, n>> \in names_of(d)
      BY <2>1, <2>4, NamesOfIsNames DEF NamesOf
    <3>2. <<p, n>>[1] = p
      OBVIOUS
    <3>3. QED
      BY <3>1, <3>2, Zenon
  <2>5. QED
    BY <2>2, <2>3, <2>4
<1>4. QED
  BY <1>2, <1>3 DEF EntriesNameInodes

\* Link counts.
LEMMA InvLinkCounts ==
  ASSUME DirInv
  PROVE  LinkCounts
<1> SUFFICES ASSUME NEW i \in live
             PROVE  inode[i].links = IF inode[i].mode = "S_IFDIR"
                                     THEN 2 + Cardinality(subdirectories(i))
                                     ELSE Cardinality(names_of(i))
  BY DEF LinkCounts
<1>1. i \in Inode /\ (i = Root \/ IsNamed(i))
  BY LiveIsNamed
<1>2. names_of(i) = NamesOf(i) /\ subdirectories(i) = Subs(i)
  BY <1>1, NamesOfIsNames
<1>3. QED
  BY <1>1, <1>2 DEF DirInv, Counts, IsDir

\* Records.
LEMMA InvRecordsFit ==
  ASSUME DirInv
  PROVE  RecordsFit
<1> SUFFICES ASSUME NEW d \in directories, NEW b \in DOMAIN dirs[d]
             PROVE  LET block == dirs[d][b]
                    IN  /\ FoldLeft(LAMBDA s, e : s + e.rec, 0, block) <= BlockSize
                        /\ \A k \in DOMAIN block : block[k].rec >= Need[block[k].name]
                        /\ \A k \in 1 .. Len(block) - 1, n \in TooLong : ~fits_behind(block[k], n)
  BY DEF RecordsFit
<1> DEFINE block == dirs[d][b]
<1>1. block \in Block /\ Fit(block)
  <2>1. d \in Inode
    BY LiveIsNamed
  <2>2. GoodDir(dirs[d])
    BY <2>1 DEF DirInv, Types
  <2>3. QED
    BY <2>2 DEF GoodDir
<1> HIDE DEF block
<1>2. FoldLeft(LAMBDA s, e : s + e.rec, 0, block) = Total(lens(block), DOMAIN block)
  <2>1. /\ IsFiniteSet(DOMAIN block) /\ DOMAIN block \subseteq Nat
        /\ \A k \in DOMAIN block : block[k].rec \in Nat
    BY <1>1, LensFacts, RecordFacts
  <2>2. QED
    BY <2>1, FoldLeftIsTotal, Zenon
<1>3. Total(lens(block), DOMAIN block) <= BlockSize
  BY <1>1 DEF Fit
<1>4. \A k \in DOMAIN block : block[k].rec >= Need[block[k].name]
  BY <1>1 DEF Fit
<1>5. ASSUME NEW k \in 1 .. Len(block) - 1, NEW n \in TooLong PROVE ~fits_behind(block[k], n)
  <2>1. k \in DOMAIN block /\ k < Len(block)
    BY <1>1 DEF Block
  <2>2. block[k].rec <= Need[n]
    BY <1>1, <2>1 DEF Fit
  <2>3. block[k].rec \in Nat /\ block[k].name \in Stored
    BY <1>1, <2>1, RecordFacts DEF Block
  <2>4. Need[n] \in Nat /\ Need[block[k].name] \in Nat /\ Need[block[k].name] >= 1
    BY <2>3, DirAssumption DEF Stored
  <2>5. QED
    BY <2>2, <2>3, <2>4 DEF fits_behind
<1>6. QED
  BY <1>2, <1>3, <1>4, <1>5 DEF block

\* Blocks.
LEMMA InvBlocksCounted ==
  ASSUME DirInv
  PROVE  BlocksCounted
<1> DEFINE f == blocksOf
<1>1. Types /\ Owned /\ Sums
  BY DEF DirInv
<1>2. \A i \in Inode : f[i] = inode[i].blocks /\ f[i] \in Nat
  BY <1>1, InodeFacts DEF blocksOf
<1>3. live \in SUBSET Inode /\ IsFiniteSet(Inode)
  BY LiveIsNamed, DirAssumption
<1>4. IsFiniteSet(live)
  BY <1>3, FS_Subset
<1>5. \A i \in Inode : i \notin live => f[i] = 0
  BY <1>1, <1>2, LiveIsNamed DEF Owned, no_inode
<1>6. f = [i \in Inode |-> inode[i].blocks]
  BY DEF blocksOf
<1>7. free + Total(f, Inode) = DataBlocks
  BY <1>1 DEF Sums
<1> HIDE DEF f
<1>8. Cells(f, live) = Cells(f, Inode)
  <2>1. \A x \in Cells(f, Inode) : x \in Cells(f, live)
    <3> TAKE x \in Cells(f, Inode)
    <3>1. x[1] \in Inode /\ x[2] \in Nat /\ x[2] \in 1 .. f[x[1]] /\ x = <<x[1], x[2]>>
      BY DEF Cells
    <3>2. x[1] \in live
      BY <1>5, <3>1
    <3>3. QED
      BY <3>1, <3>2 DEF Cells
  <2>2. \A x \in Cells(f, live) : x \in Cells(f, Inode)
    BY <1>3 DEF Cells
  <2>3. QED
    BY <2>1, <2>2
<1>9. FoldFunctionOnSet(+, 0, f, live) = Total(f, live)
  BY <1>2, <1>3, <1>4, FoldIsTotal
<1>10. QED
  BY <1>6, <1>7, <1>8, <1>9 DEF BlocksCounted, Total

-------------------------------------------------------------------------------
\* The names as the abstract specification has them: one record for each name
\* on disk.
entry(d, n, i, k) == [dir |-> d, name |-> n, file |-> i, kind |-> k]
TreeOK ==
    /\ \A d, i \in Inode, n \in Name : Points(d, n, i) => entry(d, n, i, inode[i].mode) \in name_tree
    /\ \A e \in name_tree : \E d, i \in Inode, n \in Name :
          Points(d, n, i) /\ e = entry(d, n, i, inode[i].mode)
LiveOK == \A i : i \in live <=> i \in Inode /\ (i = Root \/ IsNamed(i))

\* The parts of such a record.
LEMMA EntryParts ==
  ASSUME NEW d, NEW n, NEW i, NEW k
  PROVE  /\ entry(d, n, i, k).dir = d /\ entry(d, n, i, k).name = n
         /\ entry(d, n, i, k).file = i /\ entry(d, n, i, k).kind = k
BY DEF entry

\* Lookups see the names on disk.
LEMMA InvTree ==
  DirInv => TreeOK /\ LiveOK
<1> SUFFICES ASSUME DirInv PROVE TreeOK /\ LiveOK
  OBVIOUS
<1>1. Types /\ Indexes /\ Trees /\ Owned
  BY DEF DirInv
<1>2. ASSUME NEW d \in Inode, NEW i \in Inode, NEW n \in Name, Points(d, n, i)
      PROVE  entry(d, n, i, inode[i].mode) \in name_tree
  <2>1. d \in directories
    BY <1>1, <1>2, NamesInDirs
  <2>2. PICK x \in names_in(d) : x.name = n /\ x.ino = i
    <3>1. [name |-> n, ino |-> i] \in names_in(d)
      BY <1>1, <1>2, NamesIn
    <3>2. [name |-> n, ino |-> i].name = n /\ [name |-> n, ino |-> i].ino = i
      OBVIOUS
    <3>3. QED
      BY <3>1, <3>2
  <2>3. entry(d, n, i, inode[i].mode) \in
           {[dir |-> d, name |-> e.name, file |-> e.ino, kind |-> inode[e.ino].mode] : e \in names_in(d)}
    BY <2>2 DEF entry
  <2>4. QED
    BY <2>1, <2>3 DEF name_tree
<1>3. ASSUME NEW e \in name_tree
      PROVE  \E d, i \in Inode, n \in Name : Points(d, n, i) /\ e = entry(d, n, i, inode[i].mode)
  <2>1. PICK d \in directories :
           e \in {[dir |-> d, name |-> x.name, file |-> x.ino, kind |-> inode[x.ino].mode] : x \in names_in(d)}
    BY DEF name_tree
  <2>2. PICK x \in names_in(d) : e = entry(d, x.name, x.ino, inode[x.ino].mode)
    BY <2>1 DEF entry
  <2>3. d \in Inode
    BY LiveIsNamed
  <2>4. x.name \in Name /\ x.ino \in Inode /\ Points(d, x.name, x.ino)
    BY <1>1, <2>2, <2>3, NamesIn
  <2>5. QED
    BY <2>2, <2>3, <2>4
<1>4. QED
  BY <1>2, <1>3, LiveIsNamed DEF TreeOK, LiveOK

\* What stays between the names of two states.
LEMMA TreeKeeps ==
  ASSUME TreeOK, TreeOK', ModesKept, NEW d \in Inode, NEW n \in Name, NEW i \in Inode,
         Points(d, n, i), Points(d, n, i)'
  PROVE  /\ inode'[i].mode = inode[i].mode
         /\ entry(d, n, i, inode[i].mode) \in name_tree
         /\ entry(d, n, i, inode[i].mode) \in name_tree'
<1>1. inode'[i].mode = inode[i].mode
  BY DEF ModesKept, IsNamed
<1>2. entry(d, n, i, inode[i].mode) \in name_tree
  BY DEF TreeOK
<1>3. entry(d, n, i, inode'[i].mode) \in name_tree'
  BY DEF TreeOK
<1>4. QED
  BY <1>1, <1>2, <1>3

\* A directory has its name in the tree.
LEMMA TreeDir ==
  ASSUME DirInv, TreeOK, NEW d \in Inode, IsDir(d)
  PROVE  Names!IsDirectory(d)
<1>1. d = Root \/ IsNamed(d)
  BY DEF DirInv, Owned, IsDir, no_inode
<1>2. ASSUME NEW p \in Inode, NEW n \in Name, Points(p, n, d)
      PROVE  \E e \in name_tree : e.file = d /\ e.kind = "S_IFDIR"
  <2>1. entry(p, n, d, "S_IFDIR") \in name_tree
    BY <1>2 DEF TreeOK, IsDir
  <2>2. QED
    BY <2>1, EntryParts
<1>3. QED
  BY <1>1, <1>2 DEF Names!IsDirectory, IsNamed

\* A name that is not on disk is not in the tree.
LEMMA TreeNoName ==
  ASSUME TreeOK, NEW d, NEW n, NotNamed(d, n)
  PROVE  Names!NameIn(d, n) = {}
<1>1. ASSUME NEW e \in name_tree, e.dir = d, e.name = n PROVE FALSE
  <2>1. PICK c \in Inode, i \in Inode, m \in Name : Points(c, m, i) /\ e = entry(c, m, i, inode[i].mode)
    BY DEF TreeOK
  <2>2. c = d /\ m = n
    BY <1>1, <2>1, EntryParts
  <2>3. QED
    BY <2>1, <2>2 DEF NotNamed
<1>2. QED
  BY <1>1 DEF Names!NameIn

\* The tree after a name was added,
LEMMA TreeNew ==
  ASSUME TreeOK, TreeOK', ModesKept, NEW d \in Inode, NEW n \in Name, NEW i \in Inode, NewName(d, n, i)
  PROVE  name_tree' = name_tree \cup {entry(d, n, i, inode'[i].mode)}
<1>1. ASSUME NEW x \in name_tree' PROVE x \in name_tree \cup {entry(d, n, i, inode'[i].mode)}
  <2>1. PICK e \in Inode, j \in Inode, m \in Name : Points(e, m, j)' /\ x = entry(e, m, j, inode'[j].mode)
    BY DEF TreeOK
  <2>2. CASE Points(e, m, j)
    BY <2>1, <2>2, TreeKeeps
  <2>3. CASE e = d /\ m = n /\ j = i
    BY <2>1, <2>3
  <2>4. QED
    BY <2>1, <2>2, <2>3 DEF NewName
<1>2. ASSUME NEW x \in name_tree PROVE x \in name_tree'
  <2>1. PICK e \in Inode, j \in Inode, m \in Name : Points(e, m, j) /\ x = entry(e, m, j, inode[j].mode)
    BY DEF TreeOK
  <2>2. Points(e, m, j)'
    BY <2>1 DEF NewName
  <2>3. QED
    BY <2>1, <2>2, TreeKeeps
<1>3. entry(d, n, i, inode'[i].mode) \in name_tree'
  BY DEF NewName, TreeOK
<1>4. QED
  BY <1>1, <1>2, <1>3

\* after one was removed,
LEMMA TreeLess ==
  ASSUME Types, TreeOK, TreeOK', ModesKept, NEW d \in Inode, NEW n \in Name, NEW i \in Inode,
         Points(d, n, i), NoName(d, n)
  PROVE  name_tree' = name_tree \ {entry(d, n, i, inode[i].mode)}
<1>1. ASSUME NEW x \in name_tree' PROVE x \in name_tree /\ x # entry(d, n, i, inode[i].mode)
  <2>1. PICK e \in Inode, j \in Inode, m \in Name : Points(e, m, j)' /\ x = entry(e, m, j, inode'[j].mode)
    BY DEF TreeOK
  <2>2. Points(e, m, j) /\ ~(e = d /\ m = n)
    BY <2>1 DEF NoName
  <2>3. x \in name_tree
    BY <2>1, <2>2, TreeKeeps
  <2>4. QED
    BY <2>1, <2>2, <2>3, EntryParts
<1>2. ASSUME NEW x \in name_tree, x # entry(d, n, i, inode[i].mode) PROVE x \in name_tree'
  <2>1. PICK e \in Inode, j \in Inode, m \in Name : Points(e, m, j) /\ x = entry(e, m, j, inode[j].mode)
    BY DEF TreeOK
  <2>2. ~(e = d /\ m = n)
    BY <1>2, <2>1, PointsOne
  <2>3. Points(e, m, j)'
    BY <2>1, <2>2 DEF NoName
  <2>4. QED
    BY <2>1, <2>3, TreeKeeps
<1>3. QED
  BY <1>1, <1>2

\* and after one took the place of another.
LEMMA TreeOther ==
  ASSUME Types, TreeOK, TreeOK', ModesKept, NEW d \in Inode, NEW old \in Name, NEW new \in Name,
         NEW i \in Inode, Points(d, old, i), NotNamed(d, new), OtherName(d, old, new, i)
  PROVE  name_tree' = (name_tree \ {entry(d, old, i, inode[i].mode)})
                         \cup {entry(d, new, i, inode[i].mode)}
<1>m. inode'[i].mode = inode[i].mode /\ Points(d, new, i)'
  <2>1. Points(d, new, i)'
    BY DEF OtherName
  <2>2. IsNamed(i) /\ IsNamed(i)'
    BY <2>1 DEF IsNamed
  <2>3. QED
    BY <2>1, <2>2 DEF ModesKept
<1>n. old # new
  BY DEF NotNamed
<1>1. ASSUME NEW x \in name_tree'
      PROVE  \/ x \in name_tree /\ x # entry(d, old, i, inode[i].mode)
             \/ x = entry(d, new, i, inode[i].mode)
  <2>1. PICK e \in Inode, j \in Inode, m \in Name : Points(e, m, j)' /\ x = entry(e, m, j, inode'[j].mode)
    BY DEF TreeOK
  <2>2. CASE Points(e, m, j) /\ ~(e = d /\ m = old)
    <3>1. x \in name_tree
      BY <2>1, <2>2, TreeKeeps
    <3>2. QED
      BY <2>1, <2>2, <3>1, EntryParts
  <2>3. CASE e = d /\ m = new /\ j = i
    BY <1>m, <2>1, <2>3
  <2>4. QED
    BY <2>1, <2>2, <2>3 DEF OtherName
<1>2. ASSUME NEW x \in name_tree, x # entry(d, old, i, inode[i].mode) PROVE x \in name_tree'
  <2>1. PICK e \in Inode, j \in Inode, m \in Name : Points(e, m, j) /\ x = entry(e, m, j, inode[j].mode)
    BY DEF TreeOK
  <2>2. ~(e = d /\ m = old)
    BY <1>2, <2>1, PointsOne
  <2>3. Points(e, m, j)'
    BY <2>1, <2>2 DEF OtherName
  <2>4. QED
    BY <2>1, <2>3, TreeKeeps
<1>3. entry(d, new, i, inode[i].mode) \in name_tree'
  BY <1>m DEF TreeOK
<1>4. QED
  BY <1>1, <1>2, <1>3

\* The tree is as it was when no name changed.
LEMMA TreeSame ==
  ASSUME TreeOK, TreeOK', ModesKept, NamesKept
  PROVE  name_tree' = name_tree
<1>1. ASSUME NEW x \in name_tree' PROVE x \in name_tree
  <2>1. PICK e \in Inode, j \in Inode, m \in Name : Points(e, m, j)' /\ x = entry(e, m, j, inode'[j].mode)
    BY DEF TreeOK
  <2>2. QED
    BY <2>1, TreeKeeps DEF NamesKept
<1>2. ASSUME NEW x \in name_tree PROVE x \in name_tree'
  <2>1. PICK e \in Inode, j \in Inode, m \in Name : Points(e, m, j) /\ x = entry(e, m, j, inode[j].mode)
    BY DEF TreeOK
  <2>2. QED
    BY <2>1, TreeKeeps DEF NamesKept
<1>3. QED
  BY <1>1, <1>2

\* Every call does to the tree what it says.
LEMMA NamesStep ==
  ASSUME DirInv, TreeOK, TreeOK', Effect
  PROVE  Names!NamesNext
<1>1. Types /\ ModesKept
  BY DEF DirInv, Effect
<1>2. CASE done' = "created" /\ Created
  <2>1. PICK d \in Inode, i \in Inode, n \in Name :
           /\ IsDir(d) /\ NotNamed(d, n)
           /\ i # Root /\ ~IsNamed(i) /\ inode'[i].mode \in Mode
           /\ NewName(d, n, i)
    BY <1>2 DEF Created
  <2>2. Names!IsDirectory(d) /\ Names!NameIn(d, n) = {}
    BY <2>1, TreeDir, TreeNoName
  <2>3. i \notin Names!Named
    <3>1. ASSUME NEW e \in name_tree, e.file = i PROVE FALSE
      <4>1. PICK c \in Inode, j \in Inode, m \in Name : Points(c, m, j) /\ e = entry(c, m, j, inode[j].mode)
        BY DEF TreeOK
      <4>2. j = i
        BY <3>1, <4>1, EntryParts
      <4>3. QED
        BY <2>1, <4>1, <4>2 DEF IsNamed
    <3>2. QED
      BY <3>1 DEF Names!Named
  <2>4. name_tree' = name_tree \cup {entry(d, n, i, inode'[i].mode)}
    BY <1>1, <2>1, TreeNew
  <2>5. Names!Create(d, n, i, inode'[i].mode)
    BY <2>1, <2>2, <2>3, <2>4 DEF Names!Create, entry
  <2>6. QED
    BY <1>2, <2>1, <2>5 DEF Names!NamesNext
<1>3. CASE done' = "linked" /\ Linked
  <2>1. PICK d \in Inode, i \in Inode, n \in Name :
           IsDir(d) /\ NotNamed(d, n) /\ ~IsDir(i) /\ IsNamed(i) /\ NewName(d, n, i)
    BY <1>3 DEF Linked
  <2>2. PICK p \in Inode, m \in Name : Points(p, m, i)
    BY <2>1 DEF IsNamed
  <2> DEFINE k == inode[i].mode
             e == entry(p, m, i, k)
  <2>3. Points(p, m, i)'
    BY <2>1, <2>2 DEF NewName
  <2>4. inode'[i].mode = k /\ e \in name_tree
    BY <1>1, <2>2, <2>3, TreeKeeps
  <2>5. Names!IsDirectory(d) /\ Names!NameIn(d, n) = {}
    BY <2>1, TreeDir, TreeNoName
  <2>6. name_tree' = name_tree \cup {entry(d, n, i, k)}
    BY <1>1, <2>1, <2>4, TreeNew
  <2>7. e.kind # "S_IFDIR"
    BY <2>1, EntryParts DEF IsDir
  <2>8. [e EXCEPT !.dir = d, !.name = n] = entry(d, n, i, k)
    <3> HIDE DEF k
    <3>1. e = [dir |-> p, name |-> m, file |-> i, kind |-> k]
      BY DEF entry
    <3>2. entry(d, n, i, k) = [dir |-> d, name |-> n, file |-> i, kind |-> k]
      BY DEF entry
    <3> HIDE DEF e
    <3>3. PICK x : x = [e EXCEPT !.dir = d, !.name = n]
      OBVIOUS
    <3>4. x = [dir |-> d, name |-> n, file |-> i, kind |-> k]
      BY ONLY <3>1, <3>3
    <3>5. QED
      BY <3>2, <3>3, <3>4
  <2> HIDE DEF e, k
  <2>9. Names!Link(d, n, e)
    BY <2>5, <2>6, <2>7, <2>8 DEF Names!Link
  <2>10. QED
    BY <1>3, <2>4, <2>9 DEF Names!NamesNext
<1>4. CASE done' = "removed" /\ Unlinked
  <2>1. PICK d \in Inode, i \in Inode, n \in Name :
           Points(d, n, i) /\ (\A m \in Name : \A j : ~Points(i, m, j)) /\ NoName(d, n)
    BY <1>4 DEF Unlinked
  <2> DEFINE e == entry(d, n, i, inode[i].mode)
  <2>2. e \in name_tree /\ name_tree' = name_tree \ {e} /\ e.file = i
    BY <1>1, <2>1, TreeLess, EntryParts DEF TreeOK
  <2>3. ASSUME NEW x \in name_tree PROVE x.dir # i
    <3>1. PICK c \in Inode, j \in Inode, m \in Name : Points(c, m, j) /\ x = entry(c, m, j, inode[j].mode)
      BY DEF TreeOK
    <3>2. x.dir = c
      BY <3>1, EntryParts
    <3>3. QED
      BY <2>1, <3>1, <3>2
  <2> HIDE DEF e
  <2>4. Names!Unlink(e)
    BY <2>2, <2>3 DEF Names!Unlink
  <2>5. QED
    BY <1>4, <2>2, <2>4 DEF Names!NamesNext
<1>5. CASE done' = "renamed" /\ Renamed
  <2>1. PICK d \in Inode, i \in Inode, old \in Name, new \in Name :
           Points(d, old, i) /\ NotNamed(d, new) /\ OtherName(d, old, new, i)
    BY <1>5 DEF Renamed
  <2> DEFINE k == inode[i].mode
             e == entry(d, old, i, k)
  <2>2. e \in name_tree /\ name_tree' = (name_tree \ {e}) \cup {entry(d, new, i, k)} /\ e.dir = d
    BY <1>1, <2>1, TreeOther, EntryParts DEF TreeOK
  <2>3. Names!NameIn(d, new) = {}
    BY <2>1, TreeNoName
  <2>4. [e EXCEPT !.name = new] = entry(d, new, i, k)
    BY DEF entry
  <2> HIDE DEF e, k
  <2>5. Names!Rename(e, new)
    BY <2>2, <2>3, <2>4 DEF Names!Rename
  <2>6. QED
    BY <1>5, <2>2, <2>5 DEF Names!NamesNext
<1>6. CASE done' = "none" /\ NamesKept
  BY <1>1, <1>6, TreeSame DEF Names!NamesNext
<1>7. QED
  BY <1>2, <1>3, <1>4, <1>5, <1>6 DEF Effect

\* No call but one that finds no data block loses an inode.
LEMMA LostStep ==
  ASSUME DirInv, DirInv', LiveOK, LiveOK', Effect
  PROVE  lost' \subseteq lost \/ (free = 0 /\ done' = "none")
<1> SUFFICES ASSUME ~(free = 0 /\ done' = "none"), NEW j \in lost'
             PROVE  j \in lost
  OBVIOUS
<1>1. j \in used' /\ used' \in SUBSET Inode
  BY DEF lost, DirInv, Types
<1>2. j \in Inode /\ j # Root /\ ~IsNamed(j)'
  BY <1>1 DEF lost, LiveOK
<1>3. \A e \in Inode, m \in Name : ~Points(e, m, j)'
  BY <1>2 DEF IsNamed
<1>4. j \in used /\ ~IsNamed(j)
  <2>1. CASE Created
    BY <1>1, <1>2, <1>3, <2>1 DEF Created, NewName, IsNamed
  <2>2. CASE Linked
    BY <1>1, <1>2, <1>3, <2>2 DEF Linked, NewName, IsNamed
  <2>3. CASE Unlinked
    <3>1. PICK d \in Inode, i \in Inode, n \in Name :
             /\ Points(d, n, i) /\ NoName(d, n)
             /\ (used' = used /\ IsNamed(i)') \/ used' = used \ {i}
      BY <2>3 DEF Unlinked
    <3>2. j # i /\ j \in used
      BY <1>1, <1>2, <3>1
    <3>3. ASSUME NEW e \in Inode, NEW m \in Name, Points(e, m, j) PROVE FALSE
      <4>1. Points(d, n, j) => j = i
        BY <3>1, PointsOne DEF DirInv
      <4>2. QED
        BY <1>2, <1>3, <3>1, <3>2, <3>3, <4>1 DEF NoName
    <3>4. QED
      BY <3>2, <3>3 DEF IsNamed
  <2>4. CASE Renamed
    <3>1. PICK d \in Inode, i \in Inode, old \in Name, new \in Name :
             Points(d, old, i) /\ OtherName(d, old, new, i) /\ used' = used
      BY <2>4 DEF Renamed
    <3>2. j # i
      BY <1>3, <3>1 DEF OtherName
    <3>3. ASSUME NEW e \in Inode, NEW m \in Name, Points(e, m, j) PROVE FALSE
      <4>1. Points(d, old, j) => j = i
        BY <3>1, PointsOne DEF DirInv
      <4>2. QED
        BY <1>2, <1>3, <3>1, <3>2, <3>3, <4>1 DEF OtherName
    <3>4. QED
      BY <1>1, <3>1, <3>3 DEF IsNamed
  <2>5. CASE NamesKept /\ used' = used
    BY <1>1, <1>2, <1>3, <2>5 DEF NamesKept, IsNamed
  <2>6. QED
    BY <2>1, <2>2, <2>3, <2>4, <2>5 DEF Effect
<1>5. QED
  BY <1>2, <1>4 DEF lost, LiveOK

-------------------------------------------------------------------------------
\* The invariant holds as long as no link count reaches its limit.
THEOREM DirInvariant == Spec /\ []BelowLimit => []DirInv
<1>1. Init => DirInv
  BY InitInv
<1>2. DirInv /\ BelowLimit /\ [Next]_vars => DirInv'
  BY NextInv
<1>3. QED
  BY <1>1, <1>2, PTL DEF Spec

\* Every variable keeps its type through every call, and no inode has, and no
\* call finds, more blocks than the device has.
THEOREM DirTypeOK == Spec /\ []BelowLimit => []TypeOK
<1>1. DirInv => TypeOK
  BY InvTypeOK
<1>2. QED
  BY <1>1, DirInvariant, PTL

\* DIR_INDEX_CACHE never answers what the blocks of a directory do not hold,
\* however calls that add, remove and rename names, and that give inodes back,
\* follow each other.
THEOREM DirIndexCoherent == Spec /\ []BelowLimit => []IndexCoherent
<1>1. DirInv => IndexCoherent
  BY InvIndexCoherent
<1>2. QED
  BY <1>1, DirInvariant, PTL

\* No name leads to an inode that was given back, and ".." leads to the
\* directory that has the name.
THEOREM DirEntriesNameInodes == Spec /\ []BelowLimit => []EntriesNameInodes
<1>1. DirInv => EntriesNameInodes
  BY InvEntriesNameInodes
<1>2. QED
  BY <1>1, DirInvariant, PTL

\* Below its limit a link count is the number of names, or of subdirectories
\* and two.
THEOREM DirLinkCounts == Spec /\ []BelowLimit => []LinkCounts
<1>1. DirInv => LinkCounts
  BY InvLinkCounts
<1>2. QED
  BY <1>1, DirInvariant, PTL

\* Splitting, reusing and cutting records keeps them in their blocks, and the
\* cut for a name that is too long loses no entry.
THEOREM DirRecordsFit == Spec /\ []BelowLimit => []RecordsFit
<1>1. DirInv => RecordsFit
  BY InvRecordsFit
<1>2. QED
  BY <1>1, DirInvariant, PTL

\* No data block is lost or counted twice by any call, the ones that fail
\* half-way included.
THEOREM DirBlocksCounted == Spec /\ []BelowLimit => []BlocksCounted
<1>1. DirInv => BlocksCounted
  BY InvBlocksCounted
<1>2. QED
  BY <1>1, DirInvariant, PTL

\* An inode is lost only by create_dir without a data block.
THEOREM DirLostOnlyWhenFull == Spec /\ []BelowLimit => LostOnlyWhenFull
<1>1. ASSUME DirInv, DirInv', LiveOK, LiveOK', BelowLimit, [Next]_vars
      PROVE  [lost' \subseteq lost \/ (free = 0 /\ done' = "none")]_vars
  <2>1. Effect \/ UNCHANGED vars
    BY <1>1, NextInv
  <2>2. QED
    BY <1>1, <2>1, LostStep
<1>2. DirInv => LiveOK
  BY InvTree
<1>3. QED
  BY <1>1, <1>2, DirInvariant, PTL DEF Spec, LostOnlyWhenFull

\* Lookups see one name space: the directories implement NameSpace.
THEOREM DirImplementsNames == Spec /\ []BelowLimit => ImplementsNames
<1>1. ASSUME Init, DirInv, TreeOK PROVE Names!NamesInit
  <2>1. ASSUME NEW e \in name_tree PROVE FALSE
    <3>1. PICK d \in Inode, i \in Inode, n \in Name : Points(d, n, i)
      BY <1>1 DEF TreeOK
    <3>2. i \in used /\ i # Root
      BY <1>1, <3>1 DEF DirInv, Owned
    <3>3. QED
      BY <1>1, <3>2 DEF Init
  <2>2. QED
    BY <1>1, <2>1 DEF Names!NamesInit, Init
<1>2. ASSUME DirInv, TreeOK, TreeOK', BelowLimit, [Next]_vars
      PROVE  [Names!NamesNext]_<<name_tree, done>>
  <2>1. CASE Effect
    BY <1>2, <2>1, NamesStep
  <2>2. CASE UNCHANGED vars
    <3>1. NamesKept /\ ModesKept /\ done' = done
      BY <2>2 DEF vars, NamesKept, ModesKept, Points
    <3>2. QED
      BY <1>2, <3>1, TreeSame
  <2>3. QED
    BY <1>2, <2>1, <2>2, NextInv
<1>3. DirInv => TreeOK
  BY InvTree
<1>4. QED
  BY <1>1, <1>2, <1>3, DirInvariant, PTL DEF Spec, ImplementsNames, Names!NamesSpec
===============================================================================
