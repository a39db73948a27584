----------------------------- MODULE ExtentsProofs -----------------------------
(***************************************************************************)
(* Proofs about the extent lists, for every set of blocks and every limit  *)
(* on the length of an extent.                                             *)
(***************************************************************************)
EXTENDS Extents, TLAPS, SequenceTheorems, FiniteSetTheorems, WellFoundedInduction

\* Extent list es takes logical block l to v.
maps(es, l, v) ==
    \E i \in 1 .. Len(es) : covers(es[i], l) /\ v = es[i].start + (l - es[i].block)

list(es) == es \in Seq(Extent) /\ sorted(es)

\* fs is es and one pair more.
extends(fs, es, l, p) ==
    \A k \in Nat, v \in Nat : maps(fs, k, v) <=> maps(es, k, v) \/ (k = l /\ v = p)

\* The fields of an extent of a list.
LEMMA ListType ==
  ASSUME NEW es, list(es)
  PROVE  /\ Len(es) \in Nat /\ DOMAIN es = 1 .. Len(es)
         /\ \A i \in 1 .. Len(es) :
              /\ es[i] \in Extent
              /\ es[i].block \in Nat /\ es[i].start \in Nat
              /\ es[i].len \in Nat /\ 1 <= es[i].len /\ es[i].len <= MaxLen
         /\ \A i, j \in 1 .. Len(es) : i < j => es[i].block + es[i].len <= es[j].block
<1>1. Len(es) \in Nat /\ DOMAIN es = 1 .. Len(es) /\ \A i \in 1 .. Len(es) : es[i] \in Extent
  BY DEF list
<1> QED
  BY <1>1, ExtentsAssumption DEF list, sorted, Extent

\* In a sorted list one extent at most covers a block.
LEMMA OneCover ==
  ASSUME NEW es, list(es), NEW l \in Nat,
         NEW i \in 1 .. Len(es), NEW j \in 1 .. Len(es),
         covers(es[i], l), covers(es[j], l)
  PROVE  i = j
<1> HIDE DEF list
<1>T. /\ \A a \in 1 .. Len(es) : es[a].block \in Nat /\ es[a].len \in Nat
      /\ \A a, b \in 1 .. Len(es) : a < b => es[a].block + es[a].len <= es[b].block
  BY ListType
<1>1. ASSUME NEW a \in 1 .. Len(es), NEW b \in 1 .. Len(es), a < b
      PROVE  ~(covers(es[a], l) /\ covers(es[b], l))
  <2>1. es[a].block + es[a].len <= es[b].block
    BY <1>1, <1>T
  <2>2. PICK A \in Nat, N \in Nat, B \in Nat :
           A = es[a].block /\ N = es[a].len /\ B = es[b].block
    BY <1>T
  <2>3. A + N <= B
    BY <2>1, <2>2
  <2>4. covers(es[a], l) => l < A + N
    BY <2>2 DEF covers
  <2>5. covers(es[b], l) => B <= l
    BY <2>2 DEF covers
  <2> QED
    BY <2>3, <2>4, <2>5
<1>2. ~(i < j) /\ ~(j < i)
  BY <1>1
<1> QED
  BY <1>2, ListType

\* A set of natural numbers that is not empty has a least element.
LEMMA Least ==
  ASSUME NEW T \in SUBSET Nat, NEW n \in T
  PROVE  \E i \in T : \A j \in T : i <= j
<1> DEFINE below == {1 .. k : k \in T}
<1>1. \A k \in Nat : 1 .. k \in FiniteSubsetsOf(Nat)
  BY FS_Interval DEF FiniteSubsetsOf
<1>2. below \subseteq FiniteSubsetsOf(Nat) /\ below # {}
  BY <1>1
<1>3. \E x \in below : \A y \in below : ~(<<y, x>> \in StrictSubsetOrdering(Nat))
  BY <1>2, WFMin, FS_StrictSubsetOrderingWellFounded
<1>4. PICK i \in T : \A j \in T : ~(<<1 .. j, 1 .. i>> \in StrictSubsetOrdering(Nat))
  BY <1>3
<1>5. ASSUME NEW j \in T, j < i
      PROVE  FALSE
  <2>1. 1 .. j \subseteq 1 .. i /\ i \in 1 .. i /\ i \notin 1 .. j
    BY <1>5
  <2>2. 1 .. j \in SUBSET Nat /\ 1 .. i \in SUBSET Nat
    OBVIOUS
  <2> QED
    BY <1>4, <2>1, <2>2 DEF StrictSubsetOrdering
<1> QED
  BY <1>4, <1>5

\* map_logical_block gives the block of the extent that covers l.
LEMMA MapAt ==
  ASSUME NEW es, list(es), NEW l \in Nat, NEW i \in 1 .. Len(es), covers(es[i], l)
  PROVE  /\ map_logical_block(es, l) = es[i].start + (l - es[i].block)
         /\ map_logical_block(es, l) \in Nat
<1>1. Len(es) \in Nat /\ es[i] \in Extent
  BY DEF list
<1>2. \A j \in 1 .. i - 1 : ~covers(es[j], l)
  <2> TAKE j \in 1 .. i - 1
  <2>1. j \in 1 .. Len(es) /\ j # i
    BY <1>1
  <2> QED
    BY <2>1, OneCover
<1> DEFINE pick == CHOOSE k \in 1 .. Len(es) :
                      covers(es[k], l) /\ \A j \in 1 .. k - 1 : ~covers(es[j], l)
<1>3. pick \in 1 .. Len(es) /\ covers(es[pick], l)
  BY <1>2
<1>4. pick = i
  BY <1>3, OneCover
<1>5. map_logical_block(es, l) = es[pick].start + (l - es[pick].block)
  BY DEF map_logical_block
<1> HIDE DEF pick
<1> QED
  BY <1>1, <1>4, <1>5, ExtentsAssumption DEF covers, Extent

\* maps and map_logical_block agree.
LEMMA MapMaps ==
  ASSUME NEW es, list(es), NEW l \in Nat
  PROVE  /\ map_logical_block(es, l) \in Nat \cup {NoBlock}
         /\ \A v \in Nat : maps(es, l, v) <=> map_logical_block(es, l) = v
<1>1. CASE \E i \in 1 .. Len(es) : covers(es[i], l)
  <2>1. PICK i \in 1 .. Len(es) : covers(es[i], l)
    BY <1>1
  <2>2. /\ map_logical_block(es, l) = es[i].start + (l - es[i].block)
        /\ map_logical_block(es, l) \in Nat
    BY <2>1, MapAt
  <2>3. ASSUME NEW v \in Nat, maps(es, l, v)
        PROVE  map_logical_block(es, l) = v
    <3>1. PICK j \in 1 .. Len(es) : covers(es[j], l) /\ v = es[j].start + (l - es[j].block)
      BY <2>3 DEF maps
    <3> QED
      BY <3>1, <2>1, <2>2, OneCover
  <2>4. ASSUME NEW v \in Nat, map_logical_block(es, l) = v
        PROVE  maps(es, l, v)
    BY <2>1, <2>2, <2>4 DEF maps
  <2> QED
    BY <2>2, <2>3, <2>4
<1>2. CASE ~ \E i \in 1 .. Len(es) : covers(es[i], l)
  <2>1. map_logical_block(es, l) = NoBlock
    BY <1>2 DEF map_logical_block
  <2> QED
    BY <2>1, <1>2, ExtentsAssumption DEF maps
<1> QED
  BY <1>1, <1>2

\* Every list has a place for l: the least index whose extent starts after l.
LEMMA InsertPos ==
  ASSUME NEW es, list(es), NEW l \in Nat
  PROVE  LET i == insert_pos(es, l)
         IN  /\ i \in 1 .. Len(es) + 1
             /\ \A j \in 1 .. i - 1 : es[j].block <= l
             /\ i <= Len(es) => l < es[i].block
<1> DEFINE T == {i \in 1 .. Len(es) + 1 : i <= Len(es) => l < es[i].block}
<1>1. Len(es) \in Nat
  BY DEF list
<1>2. T \subseteq Nat /\ Len(es) + 1 \in T
  BY <1>1
<1>3. PICK i \in T : \A j \in T : i <= j
  BY <1>2, Least
<1>4. \A j \in T : ~(j < i)
  BY <1>2, <1>3
<1>5. \A j \in 1 .. i - 1 : es[j].block <= l
  <2> TAKE j \in 1 .. i - 1
  <2>1. j \in 1 .. Len(es) /\ j < i
    BY <1>1, <1>3
  <2>2. es[j] \in Extent
    BY <2>1 DEF list
  <2>3. ~(l < es[j].block)
    BY <1>1, <1>4, <2>1
  <2> QED
    BY <2>2, <2>3 DEF Extent
<1>6. \E k \in 1 .. Len(es) + 1 :
        /\ \A j \in 1 .. k - 1 : es[j].block <= l
        /\ k <= Len(es) => l < es[k].block
  BY <1>3, <1>5
<1> QED
  BY <1>6 DEF insert_pos

\* Index i is the place of block l, which no extent covers.
place_at(es, i, l) ==
    /\ i \in 1 .. Len(es) + 1
    /\ \A j \in 1 .. i - 1 : es[j].block + es[j].len <= l
    /\ \A j \in i .. Len(es) : l < es[j].block

\* A new extent of its own.
LEMMA InsertAt ==
  ASSUME NEW es, list(es), NEW l \in Nat, NEW p \in Nat, NEW i, place_at(es, i, l)
  PROVE  /\ list(insert_at(es, i, new_extent(l, p)))
         /\ extends(insert_at(es, i, new_extent(l, p)), es, l, p)
<1> DEFINE e == new_extent(l, p)
           fs == insert_at(es, i, e)
<1>0. /\ Len(es) \in Nat /\ i \in 1 .. Len(es) + 1
      /\ \A j \in 1 .. i - 1 : es[j].block + es[j].len <= l
      /\ \A j \in i .. Len(es) : l < es[j].block
  BY ListType DEF place_at
<1>1. e \in Extent /\ e.block = l /\ e.len = 1 /\ e.start = p
  BY ExtentsAssumption DEF new_extent, Extent
<1>2. /\ fs = [j \in 1 .. Len(es) + 1 |->
                 IF j < i THEN es[j] ELSE IF j = i THEN e ELSE es[j - 1]]
      /\ \A j \in 1 .. Len(es) + 1 : fs[j] \in Extent
  BY <1>0, <1>1, ListType DEF insert_at
<1>3. fs \in Seq(Extent) /\ Len(fs) = Len(es) + 1
  BY <1>0, <1>2
<1>4. /\ \A j \in 1 .. i - 1 : fs[j] = es[j]
      /\ fs[i] = e
      /\ \A j \in i + 1 .. Len(es) + 1 : fs[j] = es[j - 1]
      /\ \A j \in i .. Len(es) : fs[j + 1] = es[j]
  BY <1>0, <1>2
<1>T. /\ \A j \in 1 .. Len(es) : es[j].block \in Nat /\ es[j].len \in Nat
      /\ \A j, k \in 1 .. Len(es) : j < k => es[j].block + es[j].len <= es[k].block
  BY ListType
<1> HIDE DEF fs, e
<1>5. sorted(fs)
  <2> SUFFICES ASSUME NEW a \in 1 .. Len(fs), NEW b \in 1 .. Len(fs), a < b
               PROVE  fs[a].block + fs[a].len <= fs[b].block
    BY DEF sorted
  <2>1. CASE b < i
    <3>1. /\ a \in 1 .. Len(es) /\ fs[a] = es[a]
          /\ b \in 1 .. Len(es) /\ fs[b] = es[b]
      BY <2>1, <1>0, <1>3, <1>4
    <3> QED
      BY <3>1, <1>T
  <2>2. CASE b = i
    <3>1. a \in 1 .. i - 1 /\ fs[a] = es[a] /\ fs[b].block = l
      BY <2>2, <1>0, <1>1, <1>3, <1>4
    <3> QED
      BY <3>1, <1>0
  <2>3. CASE b > i /\ a = i
    <3>1. b - 1 \in i .. Len(es) /\ fs[b] = es[b - 1]
      BY <2>3, <1>0, <1>3, <1>4
    <3>2. l < es[b - 1].block /\ b - 1 \in 1 .. Len(es)
      BY <3>1, <1>0
    <3>3. es[b - 1].block \in Nat
      BY <3>2, <1>T
    <3>4. fs[a].block = l /\ fs[a].len = 1
      BY <2>3, <1>1, <1>4
    <3> QED
      BY <3>1, <3>2, <3>3, <3>4
  <2>4. CASE b > i /\ a < i
    <3>1. b - 1 \in i .. Len(es) /\ fs[b] = es[b - 1] /\ fs[a] = es[a] /\ a \in 1 .. i - 1
      BY <2>4, <1>0, <1>3, <1>4
    <3>2. a \in 1 .. Len(es) /\ b - 1 \in 1 .. Len(es) /\ a < b - 1
      BY <3>1, <1>0
    <3> QED
      BY <3>1, <3>2, <1>T
  <2>5. CASE b > i /\ a > i
    <3>1. /\ b - 1 \in 1 .. Len(es) /\ fs[b] = es[b - 1]
          /\ a - 1 \in 1 .. Len(es) /\ fs[a] = es[a - 1]
      BY <2>5, <1>0, <1>3, <1>4
    <3>2. a - 1 < b - 1
      BY <2>5
    <3> QED
      BY <3>1, <3>2, <1>T
  <2> QED
    BY <2>1, <2>2, <2>3, <2>4, <2>5, <1>0, <1>3
<1>6. extends(fs, es, l, p)
  <2> SUFFICES ASSUME NEW k \in Nat, NEW v \in Nat
               PROVE  maps(fs, k, v) <=> maps(es, k, v) \/ (k = l /\ v = p)
    BY DEF extends
  <2>1. ASSUME maps(fs, k, v)
        PROVE  maps(es, k, v) \/ (k = l /\ v = p)
    <3>1. PICK j \in 1 .. Len(fs) : covers(fs[j], k) /\ v = fs[j].start + (k - fs[j].block)
      BY <2>1 DEF maps
    <3>2. CASE j < i
      BY <3>1, <3>2, <1>0, <1>3, <1>4 DEF maps
    <3>3. CASE j = i
      BY <3>1, <3>3, <1>1, <1>4 DEF covers
    <3>4. CASE j > i
      <4>1. j - 1 \in 1 .. Len(es) /\ fs[j] = es[j - 1]
        BY <3>4, <1>0, <1>3, <1>4
      <4> QED
        BY <3>1, <4>1 DEF maps
    <3> QED
      BY <3>2, <3>3, <3>4, <1>0, <1>3
  <2>2. ASSUME maps(es, k, v)
        PROVE  maps(fs, k, v)
    <3>1. PICK j \in 1 .. Len(es) : covers(es[j], k) /\ v = es[j].start + (k - es[j].block)
      BY <2>2 DEF maps
    <3>2. CASE j < i
      BY <3>1, <3>2, <1>0, <1>3, <1>4 DEF maps
    <3>3. CASE j >= i
      <4>1. j + 1 \in 1 .. Len(fs) /\ fs[j + 1] = es[j]
        BY <3>3, <1>0, <1>3, <1>4
      <4> QED
        BY <3>1, <4>1 DEF maps
    <3> QED
      BY <3>2, <3>3, <1>0
  <2>3. maps(fs, l, p)
    <3>1. covers(fs[i], l) /\ p = fs[i].start + (l - fs[i].block)
      BY <1>1, <1>4 DEF covers
    <3> QED
      BY <3>1, <1>0, <1>3 DEF maps
  <2> QED
    BY <2>1, <2>2, <2>3
<1> QED
  BY <1>3, <1>5, <1>6 DEF list, fs, e

\* The extent before l grows at its end.
LEMMA GrowPrev ==
  ASSUME NEW es, list(es), NEW l \in Nat, NEW p \in Nat, NEW i, place_at(es, i, l),
         merge_prev(es, i, l, p)
  PROVE  /\ list([es EXCEPT ![i - 1].len = @ + 1])
         /\ extends([es EXCEPT ![i - 1].len = @ + 1], es, l, p)
<1> DEFINE q == i - 1
           fs == [es EXCEPT ![i - 1].len = @ + 1]
<1>0. /\ Len(es) \in Nat /\ i \in 1 .. Len(es) + 1 /\ q \in 1 .. Len(es) /\ i = q + 1
      /\ \A j \in i .. Len(es) : l < es[j].block
      /\ l = es[q].block + es[q].len /\ p = es[q].start + es[q].len
      /\ es[q].len < MaxLen
      /\ DOMAIN es = 1 .. Len(es)
  BY ListType DEF place_at, merge_prev, follows
<1>1. /\ fs \in Seq(Extent) /\ Len(fs) = Len(es)
      /\ \A j \in 1 .. Len(es) : j # q => fs[j] = es[j]
      /\ fs[q] = [es[q] EXCEPT !.len = @ + 1]
  <2>0. es[q] \in Extent /\ es[q].len + 1 \in 1 .. MaxLen
    BY <1>0, ListType, ExtentsAssumption
  <2>1. [es[q] EXCEPT !.len = @ + 1] \in Extent
    BY <2>0 DEF Extent
  <2> QED
    BY <1>0, <2>1, ListType DEF list
<1>2. /\ fs[q].block = es[q].block /\ fs[q].start = es[q].start
      /\ fs[q].len = es[q].len + 1
  BY <1>0, <1>1, ListType DEF Extent
<1>T. /\ \A j \in 1 .. Len(es) : /\ es[j].block \in Nat /\ es[j].start \in Nat
                                  /\ es[j].len \in Nat /\ 1 <= es[j].len
      /\ \A j, k \in 1 .. Len(es) : j < k => es[j].block + es[j].len <= es[k].block
  BY ListType
<1> HIDE DEF fs, q
<1>L. Len(fs) = Len(es) /\ \A j \in 1 .. Len(es) : j # q => fs[j] = es[j]
  BY <1>1
<1>U. /\ Len(es) \in Nat /\ q \in 1 .. Len(es) /\ i = q + 1
      /\ \A j \in i .. Len(es) : l < es[j].block
      /\ l = es[q].block + es[q].len /\ p = es[q].start + es[q].len
  BY <1>0
<1>Q. PICK B \in Nat, N \in Nat, S \in Nat :
        1 <= N /\ es[q].block = B /\ es[q].len = N /\ es[q].start = S
  BY <1>T, <1>U
<1>V. /\ fs[q].block = B /\ fs[q].start = S /\ fs[q].len = N + 1
      /\ l = B + N /\ p = S + N
  BY <1>2, <1>Q, <1>U
<1>3. sorted(fs)
  <2> SUFFICES ASSUME NEW a \in 1 .. Len(fs), NEW b \in 1 .. Len(fs), a < b
               PROVE  fs[a].block + fs[a].len <= fs[b].block
    BY DEF sorted
  <2>1. CASE a = q
    <3>1. b \in i .. Len(es) /\ b \in 1 .. Len(es) /\ fs[b] = es[b]
      BY <2>1, <1>U, <1>L
    <3>2. l < es[b].block
      BY <3>1, <1>U
    <3>3. es[b].block \in Nat
      BY <3>1, <1>T
    <3>4. fs[a].block + fs[a].len = l + 1
      BY <2>1, <1>V
    <3> QED
      BY <3>1, <3>2, <3>3, <3>4
  <2>2. CASE b = q
    BY <2>2, <1>U, <1>L, <1>2, <1>T
  <2>3. CASE a # q /\ b # q
    <3>1. a \in 1 .. Len(es) /\ b \in 1 .. Len(es) /\ fs[a] = es[a] /\ fs[b] = es[b]
      BY <2>3, <1>L
    <3> QED
      BY <3>1, <1>T
  <2> QED
    BY <2>1, <2>2, <2>3
<1>4. extends(fs, es, l, p)
  <2> SUFFICES ASSUME NEW k \in Nat, NEW v \in Nat
               PROVE  maps(fs, k, v) <=> maps(es, k, v) \/ (k = l /\ v = p)
    BY DEF extends
  <2>1. ASSUME maps(fs, k, v)
        PROVE  maps(es, k, v) \/ (k = l /\ v = p)
    <3>1. PICK j \in 1 .. Len(fs) : covers(fs[j], k) /\ v = fs[j].start + (k - fs[j].block)
      BY <2>1 DEF maps
    <3>2. CASE j # q
      BY <3>1, <3>2, <1>L DEF maps
    <3>3. CASE j = q /\ k < l
      <4>1. covers(es[q], k) /\ v = es[q].start + (k - es[q].block)
        BY <3>1, <3>3, <1>U, <1>2, <1>T DEF covers
      <4> QED
        BY <4>1, <1>U DEF maps
    <3>4. CASE j = q /\ ~(k < l)
      <4>1. k < B + (N + 1) /\ v = S + (k - B)
        BY <3>1, <3>4, <1>V DEF covers
      <4> QED
        BY <3>4, <4>1, <1>V
    <3> QED
      BY <3>2, <3>3, <3>4
  <2>2. ASSUME maps(es, k, v)
        PROVE  maps(fs, k, v)
    <3>1. PICK j \in 1 .. Len(es) : covers(es[j], k) /\ v = es[j].start + (k - es[j].block)
      BY <2>2 DEF maps
    <3>2. covers(fs[j], k) /\ v = fs[j].start + (k - fs[j].block)
      <4>1. CASE j = q
        BY <3>1, <4>1, <1>2, <1>Q DEF covers
      <4>2. CASE j # q
        BY <3>1, <4>2, <1>L
      <4> QED
        BY <4>1, <4>2
    <3> QED
      BY <3>2, <1>L DEF maps
  <2>3. maps(fs, l, p)
    <3>1. covers(fs[q], l) /\ p = fs[q].start + (l - fs[q].block)
      BY <1>U, <1>2, <1>T DEF covers
    <3> QED
      BY <3>1, <1>U, <1>L DEF maps
  <2> QED
    BY <2>1, <2>2, <2>3
<1> QED
  BY <1>1, <1>3, <1>4 DEF list, fs

\* The extent after l grows at its front.
LEMMA GrowNext ==
  ASSUME NEW es, list(es), NEW l \in Nat, NEW p \in Nat, NEW i, place_at(es, i, l),
         merge_next(es, i, l, p)
  PROVE  LET fs == [es EXCEPT ![i] = [block |-> l, len |-> @.len + 1, start |-> p]]
         IN  list(fs) /\ extends(fs, es, l, p)
<1> DEFINE e == [block |-> l, len |-> es[i].len + 1, start |-> p]
           fs == [es EXCEPT ![i] = [block |-> l, len |-> @.len + 1, start |-> p]]
<1>0. /\ Len(es) \in Nat /\ i \in 1 .. Len(es)
      /\ \A j \in 1 .. i - 1 : es[j].block + es[j].len <= l
      /\ l + 1 = es[i].block /\ p + 1 = es[i].start
      /\ es[i].len < MaxLen
      /\ DOMAIN es = 1 .. Len(es)
  BY ListType DEF place_at, merge_next
<1>1. e \in Extent /\ e.block = l /\ e.start = p /\ e.len = es[i].len + 1
  BY <1>0, ListType, ExtentsAssumption DEF Extent
<1>2. /\ fs \in Seq(Extent) /\ Len(fs) = Len(es)
      /\ \A j \in 1 .. Len(es) : j # i => fs[j] = es[j]
      /\ fs[i] = e
  BY <1>0, <1>1, ListType DEF list
<1>T. /\ \A j \in 1 .. Len(es) : /\ es[j].block \in Nat /\ es[j].start \in Nat
                                  /\ es[j].len \in Nat /\ 1 <= es[j].len
      /\ \A j, k \in 1 .. Len(es) : j < k => es[j].block + es[j].len <= es[k].block
  BY ListType
<1> HIDE DEF fs, e
<1>L. /\ Len(fs) = Len(es) /\ \A j \in 1 .. Len(es) : j # i => fs[j] = es[j]
      /\ fs[i].block = l /\ fs[i].start = p /\ fs[i].len = es[i].len + 1
  BY <1>1, <1>2
<1>U. /\ Len(es) \in Nat /\ i \in 1 .. Len(es)
      /\ \A j \in 1 .. i - 1 : es[j].block + es[j].len <= l
      /\ l + 1 = es[i].block /\ p + 1 = es[i].start
  BY <1>0
<1>N. PICK N \in Nat : N = es[i].len
  BY <1>U, <1>T
<1>V. /\ es[i].block = l + 1 /\ es[i].start = p + 1 /\ es[i].len = N
      /\ fs[i].block = l /\ fs[i].start = p /\ fs[i].len = N + 1
  BY <1>N, <1>U, <1>L
<1>3. sorted(fs)
  <2> SUFFICES ASSUME NEW a \in 1 .. Len(fs), NEW b \in 1 .. Len(fs), a < b
               PROVE  fs[a].block + fs[a].len <= fs[b].block
    BY DEF sorted
  <2>1. CASE a = i
    <3>1. b \in 1 .. Len(es) /\ i < b /\ fs[b] = es[b]
      BY <2>1, <1>L
    <3>2. es[i].block + es[i].len <= es[b].block
      BY <3>1, <1>U, <1>T
    <3>3. fs[i].block + fs[i].len = es[i].block + es[i].len
      BY <1>V
    <3> QED
      BY <2>1, <3>1, <3>2, <3>3
  <2>2. CASE b = i
    <3>1. a \in 1 .. i - 1 /\ fs[a] = es[a]
      BY <2>2, <1>U, <1>L
    <3> QED
      BY <2>2, <3>1, <1>U, <1>L, <1>T
  <2>3. CASE a # i /\ b # i
    BY <2>3, <1>U, <1>L, <1>T
  <2> QED
    BY <2>1, <2>2, <2>3
<1>4. extends(fs, es, l, p)
  <2> SUFFICES ASSUME NEW k \in Nat, NEW v \in Nat
               PROVE  maps(fs, k, v) <=> maps(es, k, v) \/ (k = l /\ v = p)
    BY DEF extends
  <2>1. ASSUME maps(fs, k, v)
        PROVE  maps(es, k, v) \/ (k = l /\ v = p)
    <3>1. PICK j \in 1 .. Len(fs) : covers(fs[j], k) /\ v = fs[j].start + (k - fs[j].block)
      BY <2>1 DEF maps
    <3>2. CASE j # i
      BY <3>1, <3>2, <1>L DEF maps
    <3>3. CASE j = i /\ k > l
      <4>1. covers(es[i], k) /\ v = es[i].start + (k - es[i].block)
        BY <3>1, <3>3, <1>V DEF covers
      <4> QED
        BY <4>1, <1>U DEF maps
    <3>4. CASE j = i /\ ~(k > l)
      BY <3>1, <3>4, <1>V DEF covers
    <3> QED
      BY <3>2, <3>3, <3>4
  <2>2. ASSUME maps(es, k, v)
        PROVE  maps(fs, k, v)
    <3>1. PICK j \in 1 .. Len(es) : covers(es[j], k) /\ v = es[j].start + (k - es[j].block)
      BY <2>2 DEF maps
    <3>2. covers(fs[j], k) /\ v = fs[j].start + (k - fs[j].block)
      <4>1. CASE j = i
        <5>1. l + 1 <= k /\ k < l + 1 + N /\ v = p + 1 + (k - (l + 1))
          BY <3>1, <4>1, <1>V DEF covers
        <5>2. l <= k /\ k < l + (N + 1) /\ v = p + (k - l)
          BY <5>1
        <5> QED
          BY <4>1, <1>V, <5>2 DEF covers
      <4>2. CASE j # i
        BY <3>1, <4>2, <1>L
      <4> QED
        BY <4>1, <4>2
    <3> QED
      BY <3>2, <1>L DEF maps
  <2>3. maps(fs, l, p)
    <3>1. covers(fs[i], l) /\ p = fs[i].start + (l - fs[i].block)
      BY <1>U, <1>L, <1>T DEF covers
    <3> QED
      BY <3>1, <1>U, <1>L DEF maps
  <2> QED
    BY <2>1, <2>2, <2>3
<1> QED
  BY <1>2, <1>3, <1>4 DEF list, fs

\* The extents on both sides of l become one.
LEMMA Join ==
  ASSUME NEW es, list(es), NEW l \in Nat, NEW p \in Nat, NEW i, place_at(es, i, l),
         merge_prev(es, i, l, p), merge_next(es, i, l, p),
         es[i - 1].len + 1 + es[i].len <= MaxLen
  PROVE  list(join(es, i)) /\ extends(join(es, i), es, l, p)
<1> DEFINE q == i - 1
           g == [es[q] EXCEPT !.len = @ + 1 + es[i].len]
           gs == [es EXCEPT ![i - 1].len = @ + 1 + es[i].len]
           fs == join(es, i)
<1>1. /\ Len(es) \in Nat /\ q \in 1 .. Len(es) /\ i = q + 1 /\ i \in 1 .. Len(es)
      /\ DOMAIN es = 1 .. Len(es)
  BY ListType DEF place_at, merge_prev, merge_next
<1>T. /\ \A j \in 1 .. Len(es) : /\ es[j].block \in Nat /\ es[j].start \in Nat
                                  /\ es[j].len \in Nat /\ 1 <= es[j].len
      /\ \A j, k \in 1 .. Len(es) : j < k => es[j].block + es[j].len <= es[k].block
  BY ListType
<1>Q. PICK B \in Nat, N \in Nat, S \in Nat, M \in Nat :
        /\ 1 <= N /\ es[q].block = B /\ es[q].len = N /\ es[q].start = S
        /\ 1 <= M /\ es[i].len = M /\ N + 1 + M <= MaxLen
  BY <1>1, <1>T
<1>2. l = B + N /\ p = S + N /\ es[i].block = l + 1 /\ es[i].start = p + 1
  BY <1>1, <1>Q, <1>T DEF merge_prev, merge_next, follows
<1>3. g \in Extent /\ g.block = B /\ g.start = S /\ g.len = N + 1 + M
  <2>1. es[q] \in Extent /\ N + 1 + M \in 1 .. MaxLen
    BY <1>1, <1>Q, ListType, ExtentsAssumption
  <2>2. g = [es[q] EXCEPT !.len = N + 1 + M]
    BY <1>Q, <2>1 DEF Extent
  <2> QED
    BY <2>1, <2>2, <1>Q DEF Extent
<1>4. /\ gs \in Seq(Extent) /\ Len(gs) = Len(es)
      /\ \A j \in 1 .. Len(es) : gs[j] = IF j = q THEN g ELSE es[j]
  BY <1>1, <1>3, ListType DEF list
<1>5. fs = [j \in 1 .. Len(es) - 1 |-> IF j < i THEN gs[j] ELSE gs[j + 1]]
  BY <1>4 DEF join, remove_at
<1>6. /\ \A j \in 1 .. Len(es) - 1 : fs[j] \in Extent
      /\ \A j \in 1 .. q - 1 : fs[j] = es[j]
      /\ fs[q] = g
      /\ \A j \in i .. Len(es) - 1 : fs[j] = es[j + 1]
  <2> HIDE DEF fs, gs, g, q
  <2>1. \A j \in 1 .. Len(es) : gs[j] \in Extent
    BY <1>1, <1>4
  <2>2. \A j \in 1 .. Len(es) - 1 : fs[j] = IF j < i THEN gs[j] ELSE gs[j + 1]
    BY <1>5
  <2>3. \A j \in 1 .. Len(es) - 1 : fs[j] \in Extent
    BY <1>1, <2>1, <2>2
  <2>4. \A j \in 1 .. q - 1 : fs[j] = es[j]
    BY <1>1, <1>4, <2>2
  <2>5. fs[q] = g
    BY <1>1, <1>4, <2>2
  <2>6. \A j \in i .. Len(es) - 1 : fs[j] = es[j + 1]
    BY <1>1, <1>4, <2>2
  <2> QED
    BY <2>3, <2>4, <2>5, <2>6
<1> HIDE DEF fs, gs, g, q
<1>N. PICK n \in Nat : Len(es) = n + 1 /\ q \in 1 .. n
  <2>1. Len(es) - 1 \in Nat /\ Len(es) = (Len(es) - 1) + 1 /\ q \in 1 .. Len(es) - 1
    BY <1>1
  <2> QED
    BY <2>1
<1>7. fs \in Seq(Extent) /\ Len(fs) = n
  <2>1. fs \in [1 .. n -> Extent]
    BY <1>N, <1>5, <1>6
  <2> QED
    BY <2>1, <1>N
<1>L. /\ Len(fs) = n
      /\ \A j \in 1 .. n : j < q => fs[j] = es[j] /\ j \in 1 .. Len(es)
      /\ \A j \in 1 .. n : j > q => fs[j] = es[j + 1] /\ j + 1 \in 1 .. Len(es)
  BY <1>1, <1>N, <1>6, <1>7
<1>8. sorted(fs)
  <2> SUFFICES ASSUME NEW a \in 1 .. Len(fs), NEW b \in 1 .. Len(fs), a < b
               PROVE  fs[a].block + fs[a].len <= fs[b].block
    BY DEF sorted
  <2>1. CASE b < q
    <3>1. a \in 1 .. Len(es) /\ b \in 1 .. Len(es) /\ fs[a] = es[a] /\ fs[b] = es[b]
      BY <2>1, <1>1, <1>N, <1>L
    <3> QED
      BY <3>1, <1>T
  <2>2. CASE b = q
    <3>1. a \in 1 .. Len(es) /\ fs[a] = es[a] /\ fs[b].block = es[q].block /\ a < q
      BY <2>2, <1>1, <1>N, <1>3, <1>6, <1>L, <1>Q
    <3> QED
      BY <3>1, <1>1, <1>T
  <2>3. CASE b > q /\ a = q
    <3>1. b + 1 \in 1 .. Len(es) /\ i < b + 1 /\ fs[b] = es[b + 1]
      BY <2>3, <1>1, <1>N, <1>L
    <3>2. PICK C \in Nat : es[b + 1].block = C /\ (l + 1) + M <= C
      BY <3>1, <1>1, <1>2, <1>T, <1>Q
    <3>3. fs[a].block = B /\ fs[a].len = N + 1 + M
      BY <2>3, <1>3, <1>6
    <3>4. B + (N + 1 + M) <= C
      BY <3>2, <1>2
    <3> QED
      BY <3>1, <3>2, <3>3, <3>4
  <2>4. CASE b > q /\ a < q
    <3>1. b + 1 \in 1 .. Len(es) /\ a \in 1 .. Len(es) /\ a < b + 1
            /\ fs[b] = es[b + 1] /\ fs[a] = es[a]
      BY <2>4, <1>1, <1>N, <1>L
    <3> QED
      BY <3>1, <1>T
  <2>5. CASE b > q /\ a > q
    <3>1. b + 1 \in 1 .. Len(es) /\ a + 1 \in 1 .. Len(es) /\ a + 1 < b + 1
            /\ fs[b] = es[b + 1] /\ fs[a] = es[a + 1]
      BY <2>5, <1>1, <1>N, <1>L
    <3> QED
      BY <3>1, <1>T
  <2> QED
    BY <2>1, <2>2, <2>3, <2>4, <2>5, <1>1, <1>N, <1>L
<1>9. extends(fs, es, l, p)
  <2> SUFFICES ASSUME NEW k \in Nat, NEW v \in Nat
               PROVE  maps(fs, k, v) <=> maps(es, k, v) \/ (k = l /\ v = p)
    BY DEF extends
  <2>0. q \in 1 .. Len(fs) /\ fs[q].block = B /\ fs[q].start = S /\ fs[q].len = N + 1 + M
    BY <1>1, <1>N, <1>3, <1>6, <1>L
  <2>1. ASSUME maps(fs, k, v)
        PROVE  maps(es, k, v) \/ (k = l /\ v = p)
    <3>1. PICK j \in 1 .. Len(fs) : covers(fs[j], k) /\ v = fs[j].start + (k - fs[j].block)
      BY <2>1 DEF maps
    <3>2. CASE j < q
      <4>1. j \in 1 .. Len(es) /\ fs[j] = es[j]
        BY <3>2, <1>1, <1>N, <1>L
      <4> QED
        BY <3>1, <4>1 DEF maps
    <3>3. CASE j > q
      <4>1. j + 1 \in 1 .. Len(es) /\ fs[j] = es[j + 1]
        BY <3>3, <1>1, <1>N, <1>L
      <4> QED
        BY <3>1, <4>1 DEF maps
    <3>4. CASE j = q
      <4>1. B <= k /\ k < B + (N + 1 + M) /\ v = S + (k - B)
        BY <3>1, <3>4, <2>0 DEF covers
      <4>2. CASE k < l
        BY <4>1, <4>2, <1>1, <1>2, <1>Q DEF maps, covers
      <4>3. CASE k = l
        BY <4>1, <4>3, <1>2
      <4>4. CASE k > l
        <5>1. l + 1 <= k /\ k < (l + 1) + M /\ v = (p + 1) + (k - (l + 1))
          BY <4>1, <4>4, <1>2
        <5> QED
          BY <5>1, <1>1, <1>2, <1>Q DEF maps, covers
      <4> QED
        BY <4>2, <4>3, <4>4
    <3> QED
      BY <3>2, <3>3, <3>4, <1>1, <1>N, <1>L
  <2>2. ASSUME maps(es, k, v)
        PROVE  maps(fs, k, v)
    <3>1. PICK j \in 1 .. Len(es) : covers(es[j], k) /\ v = es[j].start + (k - es[j].block)
      BY <2>2 DEF maps
    <3>2. CASE j < q
      <4>1. j \in 1 .. Len(fs) /\ fs[j] = es[j]
        BY <3>2, <1>1, <1>N, <1>L
      <4> QED
        BY <3>1, <4>1 DEF maps
    <3>3. CASE j > i
      <4>1. j - 1 \in 1 .. Len(fs) /\ fs[j - 1] = es[j]
        BY <3>3, <1>1, <1>N, <1>L
      <4> QED
        BY <3>1, <4>1 DEF maps
    <3>4. CASE j = q
      <4>1. B <= k /\ k < B + N /\ v = S + (k - B)
        BY <3>1, <3>4, <1>Q DEF covers
      <4>2. k < B + (N + 1 + M)
        BY <4>1
      <4> QED
        BY <4>1, <4>2, <2>0 DEF maps, covers
    <3>5. CASE j = i
      <4>1. l + 1 <= k /\ k < (l + 1) + M /\ v = (p + 1) + (k - (l + 1))
        BY <3>1, <3>5, <1>2, <1>Q DEF covers
      <4>2. B <= k /\ k < B + (N + 1 + M) /\ v = S + (k - B)
        BY <4>1, <1>2
      <4> QED
        BY <4>2, <2>0 DEF maps, covers
    <3> QED
      BY <3>2, <3>3, <3>4, <3>5, <1>1
  <2>3. maps(fs, l, p)
    <3>1. B <= l /\ l < B + (N + 1 + M) /\ p = S + (l - B)
      BY <1>2
    <3> QED
      BY <3>1, <2>0 DEF maps, covers
  <2> QED
    BY <2>1, <2>2, <2>3
<1> QED
  BY <1>7, <1>8, <1>9 DEF list, fs

\* Whatever is merged, the list stays a list and gains one pair.
LEMMA Place ==
  ASSUME NEW es, list(es), NEW l \in Nat, NEW p \in Nat, NEW i, place_at(es, i, l)
  PROVE  list(place(es, i, l, p)) /\ extends(place(es, i, l, p), es, l, p)
<1>1. CASE /\ merge_prev(es, i, l, p) /\ merge_next(es, i, l, p)
           /\ es[i - 1].len + 1 + es[i].len <= MaxLen
  BY <1>1, Join DEF place
<1>2. CASE /\ merge_prev(es, i, l, p)
           /\ ~(merge_next(es, i, l, p) /\ es[i - 1].len + 1 + es[i].len <= MaxLen)
  BY <1>2, GrowPrev DEF place
<1>3. CASE ~merge_prev(es, i, l, p) /\ merge_next(es, i, l, p)
  BY <1>3, GrowNext DEF place
<1>4. CASE ~merge_prev(es, i, l, p) /\ ~merge_next(es, i, l, p)
  BY <1>4, InsertAt DEF place
<1> QED
  BY <1>1, <1>2, <1>3, <1>4

\* insert_block_mapping of a block the list does not map.
LEMMA InsertBlock ==
  ASSUME NEW es, list(es), NEW l \in Nat, NEW p \in Nat,
         map_logical_block(es, l) = NoBlock
  PROVE  /\ \E i : /\ place_at(es, i, l)
                   /\ insert_block_mapping(es, l, p) = place(es, i, l, p)
         /\ list(insert_block_mapping(es, l, p))
         /\ extends(insert_block_mapping(es, l, p), es, l, p)
<1> DEFINE i == insert_pos(es, l)
<1>1. /\ i \in 1 .. Len(es) + 1
      /\ \A j \in 1 .. i - 1 : es[j].block <= l
      /\ i <= Len(es) => l < es[i].block
  BY InsertPos
<1>2. \A j \in 1 .. Len(es) : ~covers(es[j], l)
  BY MapAt, ExtentsAssumption
<1> HIDE DEF i
<1>T. /\ Len(es) \in Nat
      /\ \A j \in 1 .. Len(es) : es[j].block \in Nat /\ es[j].len \in Nat /\ 1 <= es[j].len
      /\ \A j, k \in 1 .. Len(es) : j < k => es[j].block + es[j].len <= es[k].block
  BY ListType
<1>3. place_at(es, i, l)
  <2>1. ASSUME NEW j \in 1 .. i - 1
        PROVE  es[j].block + es[j].len <= l
    <3>1. j \in 1 .. Len(es)
      BY <1>1, <1>T
    <3> QED
      BY <3>1, <1>1, <1>2, <1>T DEF covers
  <2>2. ASSUME NEW j \in i .. Len(es)
        PROVE  l < es[j].block
    <3>1. i \in 1 .. Len(es) /\ j \in 1 .. Len(es) /\ l < es[i].block
      BY <1>1, <1>T
    <3>2. CASE j = i
      BY <3>1, <3>2
    <3>3. CASE i < j
      BY <3>1, <3>3, <1>T
    <3> QED
      BY <3>1, <3>2, <3>3
  <2> QED
    BY <1>1, <2>1, <2>2 DEF place_at
<1>4. insert_block_mapping(es, l, p) = place(es, i, l, p)
  <2>1. ~ \E j \in 1 .. i - 1 : covers(es[j], l)
    BY <1>1, <1>2, <1>T
  <2> QED
    BY <2>1 DEF insert_block_mapping, i
<1> QED
  BY <1>3, <1>4, Place

\* push_block_to_extents is the placing of a block after every extent.
LEMMA PushBlock ==
  ASSUME NEW es, list(es), NEW l \in Nat, NEW p \in Nat, is_end(es, l)
  PROVE  /\ place_at(es, Len(es) + 1, l)
         /\ push_block_to_extents(es, l, p) = place(es, Len(es) + 1, l, p)
<1> DEFINE i == Len(es) + 1
<1>1. Len(es) \in Nat /\ es \in Seq(Extent)
  BY ListType DEF list
<1>2. place_at(es, i, l)
  BY <1>1 DEF place_at, is_end
<1>3. ~merge_next(es, i, l, p)
  BY <1>1 DEF merge_next
<1>4. merge_prev(es, i, l, p) <=>
        Len(es) > 0 /\ follows(es[Len(es)], l, p) /\ es[Len(es)].len < MaxLen
  BY <1>1 DEF merge_prev
<1>5. new_extent(l, p) \in Extent
  BY ExtentsAssumption DEF new_extent, Extent
<1>6. Append(es, new_extent(l, p)) = insert_at(es, i, new_extent(l, p))
  <2> DEFINE e == new_extent(l, p)
             n == Len(es)
             fs == Append(es, e)
             gs == [j \in 1 .. n + 1 |-> IF j < i THEN es[j] ELSE IF j = i THEN e ELSE es[j - 1]]
  <2>1. fs \in Seq(Extent) /\ Len(fs) = n + 1
    BY <1>1, <1>5
  <2>2. fs \in [1 .. n + 1 -> Extent]
    BY <2>1, LenProperties
  <2>3. \A j \in 1 .. n + 1 : fs[j] = IF j = n + 1 THEN e ELSE es[j]
    BY <1>1, <1>5
  <2>4. \A j \in 1 .. n + 1 : gs[j] = fs[j]
    BY <1>1, <2>3
  <2> HIDE DEF fs, e
  <2> QED
    BY <2>2, <2>4 DEF insert_at, fs, e
<1>7. CASE merge_prev(es, i, l, p)
  <2>1. i - 1 = Len(es)
    BY <1>1
  <2>2. place(es, i, l, p) = [es EXCEPT ![i - 1].len = @ + 1]
    BY <1>3, <1>7 DEF place
  <2>3. push_block_to_extents(es, l, p) = [es EXCEPT ![Len(es)].len = @ + 1]
    BY <1>4, <1>7 DEF push_block_to_extents
  <2> QED
    BY <1>2, <2>1, <2>2, <2>3
<1>8. CASE ~merge_prev(es, i, l, p)
  <2>1. place(es, i, l, p) = insert_at(es, i, new_extent(l, p))
    BY <1>3, <1>8 DEF place
  <2>2. push_block_to_extents(es, l, p) = Append(es, new_extent(l, p))
    BY <1>4, <1>8 DEF push_block_to_extents
  <2> QED
    BY <1>2, <1>6, <2>1, <2>2
<1> QED
  BY <1>2, <1>7, <1>8

\* The new pair is a step of the abstract map.
LEMMA MapStep ==
  ASSUME list(extents), NEW l \in LBlock, NEW p \in PBlock, fresh(p),
         map_logical_block(extents, l) = NoBlock,
         list(extents'), extends(extents', extents, l, p)
  PROVE  Blocks!Map(l, p)
<1>1. l \in Nat /\ p \in Nat
  BY ExtentsAssumption
<1>2. ASSUME NEW k \in LBlock
      PROVE  map_logical_block(extents', k) =
               IF k = l THEN p ELSE map_logical_block(extents, k)
  <2>1. k \in Nat
    BY ExtentsAssumption
  <2>2. /\ map_logical_block(extents, k) \in Nat \cup {NoBlock}
        /\ \A v \in Nat : maps(extents, k, v) <=> map_logical_block(extents, k) = v
    BY <2>1, MapMaps
  <2>3. /\ map_logical_block(extents', k) \in Nat \cup {NoBlock}
        /\ \A v \in Nat : maps(extents', k, v) <=> map_logical_block(extents', k) = v
    BY <2>1, MapMaps
  <2>4. \A v \in Nat : maps(extents', k, v) <=> maps(extents, k, v) \/ (k = l /\ v = p)
    BY <2>1 DEF extends
  <2>5. CASE k = l
    BY <1>1, <2>3, <2>4, <2>5
  <2>6. CASE k # l
    <3>1. \A v \in Nat : map_logical_block(extents', k) = v <=>
                         map_logical_block(extents, k) = v
      BY <2>2, <2>3, <2>4, <2>6
    <3> QED
      BY <2>2, <2>3, <2>6, <3>1
  <2> QED
    BY <2>5, <2>6
<1>3. mapping' = [mapping EXCEPT ![l] = p]
  BY <1>2 DEF mapping
<1>4. mapping[l] = NoBlock /\ \A k \in LBlock : mapping[k] # p
  BY DEF mapping, fresh
<1> QED
  BY <1>3, <1>4 DEF Blocks!Map

\* A block after every extent is not mapped.
LEMMA EndUnmapped ==
  ASSUME NEW es, list(es), NEW l \in Nat, is_end(es, l)
  PROVE  map_logical_block(es, l) = NoBlock
<1>1. \A i \in 1 .. Len(es) : ~covers(es[i], l)
  BY ListType DEF is_end, covers
<1> QED
  BY <1>1 DEF map_logical_block

\* Both operations place a block the list does not map, and the block is new
\* to the map.
LEMMA StepPlaces ==
  ASSUME list(extents), NEW l \in LBlock, NEW p \in PBlock, insert(l, p) \/ push(l, p)
  PROVE  list(extents') /\ Blocks!Map(l, p)
<1>1. l \in Nat /\ p \in Nat
  BY ExtentsAssumption
<1>2. CASE insert(l, p)
  <2>1. list(extents') /\ extends(extents', extents, l, p)
    BY <1>1, <1>2, InsertBlock DEF insert
  <2> QED
    BY <1>2, <2>1, MapStep DEF insert
<1>3. CASE push(l, p)
  <2>1. /\ place_at(extents, Len(extents) + 1, l)
        /\ extents' = place(extents, Len(extents) + 1, l, p)
    BY <1>1, <1>3, PushBlock DEF push
  <2>2. list(extents') /\ extends(extents', extents, l, p)
    BY <1>1, <2>1, Place
  <2>3. map_logical_block(extents, l) = NoBlock
    BY <1>1, <1>3, EndUnmapped DEF push
  <2> QED
    BY <1>3, <2>2, <2>3, MapStep DEF push
<1> QED
  BY <1>2, <1>3

\* Every step keeps the list a list and is a step of the abstract map.
LEMMA NextList ==
  ASSUME list(extents), [Next]_extents
  PROVE  list(extents') /\ [Blocks!Grow]_mapping
<1>1. CASE Next
  <2>1. PICK l \in LBlock, p \in PBlock : insert(l, p) \/ push(l, p)
    BY <1>1 DEF Next
  <2>2. list(extents') /\ Blocks!Map(l, p)
    BY <2>1, StepPlaces
  <2> QED
    BY <2>2 DEF Blocks!Grow
<1>2. CASE UNCHANGED extents
  BY <1>2 DEF mapping
<1> QED
  BY <1>1, <1>2

\* A new file has an empty list and maps nothing.
LEMMA InitList ==
  ASSUME Init
  PROVE  list(extents) /\ Blocks!Empty
<1>1. extents = <<>> /\ Len(extents) = 0 /\ extents \in Seq(Extent)
  BY DEF Init
<1>2. \A l : map_logical_block(extents, l) = NoBlock
  BY <1>1 DEF map_logical_block
<1> QED
  BY <1>1, <1>2 DEF list, sorted, Blocks!Empty, mapping

\* No length outgrows its 15 bits, whatever is merged.
THEOREM ExtentsTypeOK == Spec => []TypeOK
<1>1. Init => list(extents)
  BY InitList
<1>2. list(extents) /\ [Next]_extents => list(extents)'
  BY NextList
<1>3. list(extents) => TypeOK
  BY DEF list, TypeOK
<1> QED
  BY <1>1, <1>2, <1>3, PTL DEF Spec

\* The list is always a sorted list of extents within the length limit: the
\* assertion debug_assert_extents_ordered makes in debug builds never fails.
THEOREM ExtentsOrdered == Spec => [](TypeOK /\ Ordered)
<1>1. Init => list(extents)
  BY InitList
<1>2. list(extents) /\ [Next]_extents => list(extents)'
  BY NextList
<1>3. list(extents) => TypeOK /\ Ordered
  BY DEF list, TypeOK, Ordered
<1> QED
  BY <1>1, <1>2, <1>3, PTL DEF Spec

\* An extent list is the growing injective map it stands for.
THEOREM ExtentsImplementBlockMap == Spec => ImplementsBlockMap
<1>1. Init => list(extents) /\ Blocks!Empty
  BY InitList
<1>2. list(extents) /\ [Next]_extents => list(extents)' /\ [Blocks!Grow]_mapping
  BY NextList
<1> QED
  BY <1>1, <1>2, PTL DEF Spec, ImplementsBlockMap, Blocks!MapSpec

\* insert_block_mapping and push_block_to_extents map the block they are given
\* to the block they are given, and no other.
THEOREM ExtentsPlacePair == Spec => PlacesPair
<1> DEFINE Placed == \A l \in LBlock, p \in PBlock :
                       insert(l, p) \/ push(l, p) => Blocks!Map(l, p)
<1>1. Init => list(extents)
  BY InitList
<1>2. list(extents) /\ [Next]_extents => list(extents)'
  BY NextList
<1>3. list(extents) => Placed
  BY StepPlaces
<1>4. list(extents) => [Placed]_extents
  BY <1>3
<1> QED
  BY <1>1, <1>2, <1>4, PTL DEF Spec, PlacesPair

\* Two neighbours that need not be one extent: tight, said of a pair.
apart(e, f) == follows(e, f.block, f.start) => e.len + f.len > MaxLen

\* A tight list is one whose neighbours are apart.
LEMMA TightApart ==
  ASSUME NEW es
  PROVE  tight(es) <=> \A i \in 1 .. Len(es) - 1 : apart(es[i], es[i + 1])
BY DEF tight, apart

\* The second of the two may grow at its end, the first at its front.
LEMMA ApartGrows ==
  ASSUME NEW e \in Extent, NEW f \in Extent, apart(e, f)
  PROVE  /\ \A g \in Extent : /\ g.block = f.block /\ g.start = f.start /\ f.len <= g.len
                              => apart(e, g)
         /\ \A g \in Extent : /\ g.block + g.len = e.block + e.len
                              /\ g.start + g.len = e.start + e.len
                              /\ e.len <= g.len
                              => apart(g, f)
<1>1. \A g \in Extent : g.block \in Nat /\ g.start \in Nat /\ g.len \in Nat
  BY ExtentsAssumption DEF Extent
<1>2. MaxLen \in Nat
  BY ExtentsAssumption
<1> QED
  BY <1>1, <1>2 DEF apart, follows

\* A block joins the extents it can, so its neighbours stay apart: the four
\* cases of place.
LEMMA TightInsertAt ==
  ASSUME NEW es, list(es), tight(es), NEW l \in Nat, NEW p \in Nat, NEW i, place_at(es, i, l),
         ~merge_prev(es, i, l, p), ~merge_next(es, i, l, p)
  PROVE  tight(insert_at(es, i, new_extent(l, p)))
<1> DEFINE e == new_extent(l, p)
           fs == insert_at(es, i, e)
           n == Len(es)
<1>1. /\ n \in Nat /\ i \in 1 .. n + 1
      /\ \A j \in 1 .. n : es[j] \in Extent /\ es[j].len \in Nat /\ es[j].len <= MaxLen
      /\ \A j \in 1 .. n - 1 : apart(es[j], es[j + 1])
      /\ MaxLen \in Nat
  BY ListType, ExtentsAssumption DEF place_at, tight, apart
<1>2. e.block = l /\ e.len = 1 /\ e.start = p
  BY DEF new_extent
<1>3. Len(fs) = n + 1
  <2>1. fs = [j \in 1 .. n + 1 |-> IF j < i THEN es[j] ELSE IF j = i THEN e ELSE es[j - 1]]
    BY DEF insert_at
  <2>2. DOMAIN fs = 1 .. n + 1
    BY <2>1
  <2>3. DOMAIN fs = 1 .. Len(fs) /\ Len(fs) \in Nat
    BY InsertAt, ListType
  <2> HIDE DEF fs
  <2> QED
    BY <1>1, <2>2, <2>3
<1>4. \A j \in 1 .. n + 1 : fs[j] = IF j < i THEN es[j] ELSE IF j = i THEN e ELSE es[j - 1]
  BY DEF insert_at
<1> HIDE DEF fs, e, n
<1> SUFFICES ASSUME NEW a \in 1 .. n PROVE apart(fs[a], fs[a + 1])
  <2>1. Len(fs) - 1 = n
    BY <1>1, <1>3
  <2> QED
    BY <2>1, TightApart DEF fs, e
<1>5. CASE a + 1 < i
  <2>1. fs[a] = es[a] /\ fs[a + 1] = es[a + 1] /\ a \in 1 .. n - 1
    BY <1>1, <1>4, <1>5
  <2> QED
    BY <1>1, <2>1
<1>6. CASE a + 1 = i
  <2>1. fs[a] = es[a] /\ fs[a + 1] = e /\ a \in 1 .. n /\ i > 1 /\ i - 1 = a
    BY <1>1, <1>4, <1>6
  <2>2. follows(es[a], l, p) => ~(es[a].len < MaxLen)
    BY <2>1 DEF merge_prev
  <2>3. ~(es[a].len < MaxLen) => es[a].len + 1 > MaxLen
    BY <1>1, <2>1
  <2> QED
    BY <1>2, <2>1, <2>2, <2>3 DEF apart
<1>7. CASE a = i
  <2>1. fs[a] = e /\ fs[a + 1] = es[i] /\ i \in 1 .. n /\ i <= n
    BY <1>1, <1>4, <1>7
  <2>2. follows(e, es[i].block, es[i].start) => ~(es[i].len < MaxLen)
    BY <1>2, <2>1 DEF merge_next, follows, n
  <2>3. ~(es[i].len < MaxLen) => 1 + es[i].len > MaxLen
    BY <1>1, <2>1
  <2> QED
    BY <1>2, <2>1, <2>2, <2>3 DEF apart
<1>8. CASE a > i
  <2>1. /\ fs[a] = es[a - 1] /\ fs[a + 1] = es[(a - 1) + 1]
        /\ a - 1 \in 1 .. n - 1
    BY <1>1, <1>4, <1>8
  <2> QED
    BY <1>1, <2>1
<1> QED
  BY <1>1, <1>5, <1>6, <1>7, <1>8

\* Growing the extent before a place keeps the list tight.
LEMMA TightGrowPrev ==
  ASSUME NEW es, list(es), tight(es), NEW l \in Nat, NEW p \in Nat, NEW i, place_at(es, i, l),
         merge_prev(es, i, l, p),
         ~(merge_next(es, i, l, p) /\ es[i - 1].len + 1 + es[i].len <= MaxLen)
  PROVE  tight([es EXCEPT ![i - 1].len = @ + 1])
<1> DEFINE fs == [es EXCEPT ![i - 1].len = @ + 1]
           q == i - 1
           n == Len(es)
<1>1. /\ n \in Nat /\ i \in 1 .. n + 1 /\ q \in 1 .. n /\ i = q + 1
      /\ l = es[q].block + es[q].len /\ p = es[q].start + es[q].len
      /\ DOMAIN es = 1 .. n
  BY ListType DEF place_at, merge_prev, follows
<1>2. /\ \A j \in 1 .. n : /\ es[j] \in Extent /\ es[j].block \in Nat /\ es[j].start \in Nat
                           /\ es[j].len \in Nat /\ es[j].len <= MaxLen
      /\ \A j \in 1 .. n - 1 : apart(es[j], es[j + 1])
      /\ MaxLen \in Nat
  BY ListType, ExtentsAssumption DEF tight, apart
<1>3. /\ \A j \in 1 .. n : j # q => fs[j] = es[j]
      /\ fs[q] = [es[q] EXCEPT !.len = @ + 1]
      /\ DOMAIN fs = 1 .. n
  BY <1>1
<1>4. Len(fs) = n /\ \A j \in 1 .. n : fs[j] \in Extent
  <2>1. list(fs)
    BY GrowPrev
  <2>2. DOMAIN fs = 1 .. Len(fs) /\ Len(fs) \in Nat /\ \A j \in 1 .. Len(fs) : fs[j] \in Extent
    BY <2>1, ListType
  <2> HIDE DEF fs
  <2> QED
    BY <1>1, <1>3, <2>2
<1>5. /\ fs[q].block = es[q].block /\ fs[q].start = es[q].start
      /\ fs[q].len = es[q].len + 1
  BY <1>1, <1>2, <1>3 DEF Extent
<1>6. ASSUME q < n, follows(fs[q], es[i].block, es[i].start)
      PROVE  fs[q].len + es[i].len > MaxLen
  <2>1. i \in 1 .. n /\ es[q].len \in Nat /\ es[i].len \in Nat
    BY <1>1, <1>2, <1>6
  <2>2. l + 1 = es[i].block /\ p + 1 = es[i].start
    <3>1. /\ es[i].block = es[q].block + (es[q].len + 1)
          /\ es[i].start = es[q].start + (es[q].len + 1)
      BY <1>5, <1>6 DEF follows
    <3>2. PICK B \in Nat, N \in Nat, S \in Nat :
             es[q].block = B /\ es[q].len = N /\ es[q].start = S
      BY <1>1, <1>2
    <3> QED
      BY <1>1, <3>1, <3>2
  <2>3. CASE es[i].len < MaxLen
    <3>1. merge_next(es, i, l, p)
      BY <2>1, <2>2, <2>3 DEF merge_next
    <3>2. ~(es[q].len + 1 + es[i].len <= MaxLen)
      BY <3>1
    <3> HIDE DEF q, fs
    <3> QED
      BY <1>2, <1>5, <2>1, <3>2, SMTT(20)
  <2>4. CASE ~(es[i].len < MaxLen)
    BY <1>2, <1>5, <2>1, <2>4, SMTT(20)
  <2> QED
    BY <2>3, <2>4
<1> HIDE DEF fs, q, n
<1> SUFFICES ASSUME NEW a \in 1 .. n - 1 PROVE apart(fs[a], fs[a + 1])
  BY <1>4, TightApart DEF fs
<1>7. CASE a = q
  <2>1. a + 1 = i /\ fs[i] = es[i] /\ q < n
    BY <1>1, <1>3, <1>7
  <2> QED
    BY <1>6, <1>7, <2>1 DEF apart
<1>8. CASE a + 1 = q
  <2>0. a \in 1 .. n /\ a # q
    BY <1>1, <1>8
  <2>1. fs[a] = es[a] /\ apart(es[a], es[q]) /\ es[q].len <= es[q].len + 1
    BY <1>1, <1>2, <1>3, <1>8, <2>0
  <2>2. es[a] \in Extent /\ es[q] \in Extent /\ fs[q] \in Extent
    BY <1>1, <1>2, <1>4, <2>0
  <2> QED
    BY <1>5, <1>8, <2>1, <2>2, ApartGrows
<1>9. CASE a # q /\ a + 1 # q
  <2>1. fs[a] = es[a] /\ fs[a + 1] = es[a + 1]
    BY <1>1, <1>3, <1>9
  <2> QED
    BY <1>2, <2>1
<1> QED
  BY <1>7, <1>8, <1>9

\* So does growing the extent behind it.
LEMMA TightGrowNext ==
  ASSUME NEW es, list(es), tight(es), NEW l \in Nat, NEW p \in Nat, NEW i, place_at(es, i, l),
         ~merge_prev(es, i, l, p), merge_next(es, i, l, p)
  PROVE  tight([es EXCEPT ![i] = [block |-> l, len |-> @.len + 1, start |-> p]])
<1> DEFINE g == [block |-> l, len |-> es[i].len + 1, start |-> p]
           fs == [es EXCEPT ![i] = [block |-> l, len |-> @.len + 1, start |-> p]]
           n == Len(es)
<1>1. /\ n \in Nat /\ i \in 1 .. n
      /\ l + 1 = es[i].block /\ p + 1 = es[i].start
      /\ DOMAIN es = 1 .. n
  BY ListType DEF place_at, merge_next
<1>2. /\ \A j \in 1 .. n : /\ es[j] \in Extent /\ es[j].block \in Nat /\ es[j].start \in Nat
                           /\ es[j].len \in Nat /\ 1 <= es[j].len /\ es[j].len <= MaxLen
      /\ \A j \in 1 .. n - 1 : apart(es[j], es[j + 1])
      /\ MaxLen \in Nat
  BY ListType, ExtentsAssumption DEF tight, apart
<1>3. /\ \A j \in 1 .. n : j # i => fs[j] = es[j]
      /\ fs[i] = g
      /\ DOMAIN fs = 1 .. n
  BY <1>1
<1>4. Len(fs) = n /\ \A j \in 1 .. n : fs[j] \in Extent
  <2>1. list(fs)
    BY GrowNext
  <2>2. DOMAIN fs = 1 .. Len(fs) /\ Len(fs) \in Nat /\ \A j \in 1 .. Len(fs) : fs[j] \in Extent
    BY <2>1, ListType
  <2> HIDE DEF fs
  <2> QED
    BY <1>1, <1>3, <2>2
<1>5. g.block = l /\ g.len = es[i].len + 1 /\ g.start = p
  OBVIOUS
<1> HIDE DEF fs, g, n
<1> SUFFICES ASSUME NEW a \in 1 .. n - 1 PROVE apart(fs[a], fs[a + 1])
  BY <1>4, TightApart DEF fs
<1>6. CASE a = i
  <2>1. fs[a] = g /\ fs[a + 1] = es[i + 1] /\ apart(es[i], es[i + 1]) /\ i + 1 \in 1 .. n
    BY <1>1, <1>2, <1>3, <1>6
  <2>2. g \in Extent /\ es[i] \in Extent /\ es[i + 1] \in Extent
    BY <1>1, <1>2, <1>3, <1>4, <2>1
  <2>3. /\ g.block + g.len = es[i].block + es[i].len
        /\ g.start + g.len = es[i].start + es[i].len
        /\ es[i].len <= g.len
    <3>1. PICK N \in Nat : es[i].len = N
      BY <1>1, <1>2
    <3> QED
      BY <1>1, <1>5, <3>1
  <2> QED
    BY <2>1, <2>2, <2>3, ApartGrows
<1>7. CASE a + 1 = i
  <2>1. fs[a] = es[a] /\ fs[a + 1] = g /\ a \in 1 .. n /\ i > 1 /\ i - 1 = a
    BY <1>1, <1>3, <1>7
  <2>2. follows(es[a], l, p) => ~(es[a].len < MaxLen)
    BY <2>1 DEF merge_prev
  <2>3. ~(es[a].len < MaxLen) => es[a].len + (es[i].len + 1) > MaxLen
    BY <1>1, <1>2, <2>1
  <2> QED
    BY <1>5, <2>1, <2>2, <2>3 DEF apart
<1>8. CASE a # i /\ a + 1 # i
  <2>1. fs[a] = es[a] /\ fs[a + 1] = es[a + 1]
    BY <1>1, <1>3, <1>8
  <2> QED
    BY <1>2, <2>1
<1> QED
  BY <1>6, <1>7, <1>8

\* And joining the two extents around it.
LEMMA TightJoin ==
  ASSUME NEW es, list(es), tight(es), NEW l \in Nat, NEW p \in Nat, NEW i, place_at(es, i, l),
         merge_prev(es, i, l, p), merge_next(es, i, l, p),
         es[i - 1].len + 1 + es[i].len <= MaxLen
  PROVE  tight(join(es, i))
<1> DEFINE q == i - 1
           fs == join(es, i)
           gs == [es EXCEPT ![i - 1].len = @ + 1 + es[i].len]
           n == Len(es)
<1>1. /\ n \in Nat /\ q \in 1 .. n /\ i \in 1 .. n /\ i = q + 1
      /\ DOMAIN es = 1 .. n
      /\ l = es[q].block + es[q].len /\ p = es[q].start + es[q].len
      /\ l + 1 = es[i].block /\ p + 1 = es[i].start
  BY ListType DEF place_at, merge_prev, merge_next, follows
<1>2. /\ \A j \in 1 .. n : /\ es[j] \in Extent /\ es[j].block \in Nat /\ es[j].start \in Nat
                           /\ es[j].len \in Nat /\ 1 <= es[j].len /\ es[j].len <= MaxLen
      /\ \A j \in 1 .. n - 1 : apart(es[j], es[j + 1])
  BY ListType, ExtentsAssumption DEF tight, apart
<1>3. /\ \A j \in 1 .. n : j # q => gs[j] = es[j]
      /\ gs[q] = [es[q] EXCEPT !.len = @ + 1 + es[i].len]
      /\ DOMAIN gs = 1 .. n
  BY <1>1
<1>4. /\ gs[q].block = es[q].block /\ gs[q].start = es[q].start
      /\ gs[q].len = es[q].len + 1 + es[i].len
      /\ gs[q] \in Extent
  <2>1. es[q] \in Extent /\ es[q].len + 1 + es[i].len \in 1 .. MaxLen
    <3>1. PICK N \in Nat, M \in Nat : es[q].len = N /\ es[i].len = M
      BY <1>1, <1>2
    <3>2. N + 1 + M <= MaxLen
      BY <3>1
    <3> QED
      BY <1>1, <1>2, <3>1, <3>2, ExtentsAssumption
  <2>2. gs[q] = [es[q] EXCEPT !.len = es[q].len + 1 + es[i].len]
    BY <1>3, <2>1 DEF Extent
  <2> QED
    BY <2>1, <2>2 DEF Extent
<1>5. Len(gs) = n
  <2>1. gs \in Seq(Extent)
    BY <1>1, <1>2, <1>3, <1>4 DEF list
  <2> QED
    BY <1>1, <1>3, <2>1
<1>6. fs = [j \in 1 .. n - 1 |-> IF j < i THEN gs[j] ELSE gs[j + 1]]
  BY <1>5 DEF join, remove_at
<1>7. Len(fs) = n - 1
  <2>1. DOMAIN fs = 1 .. n - 1
    BY <1>6
  <2>2. DOMAIN fs = 1 .. Len(fs) /\ Len(fs) \in Nat
    BY Join, ListType
  <2>3. PICK m \in Nat : m = n - 1
    <3>1. n \in Nat /\ i \in 1 .. n
      BY <1>1
    <3> HIDE DEF n
    <3>2. n - 1 \in Nat
      BY <3>1
    <3> QED
      BY <3>2
  <2>4. 1 .. m = 1 .. Len(fs)
    BY <2>1, <2>2, <2>3
  <2> HIDE DEF fs, n
  <2> QED
    BY <2>2, <2>3, <2>4
<1>8. \A j \in 1 .. n - 1 : fs[j] = IF j < i THEN gs[j] ELSE gs[j + 1]
  BY <1>6
<1> HIDE DEF fs, gs, q, n
<1> SUFFICES ASSUME NEW a \in 1 .. n - 2 PROVE apart(fs[a], fs[a + 1])
  <2>1. Len(fs) - 1 = n - 2
    BY <1>1, <1>7
  <2> QED
    BY <2>1, TightApart DEF fs
<1>A. /\ \A j \in 1 .. n - 1 : j < q => fs[j] = es[j]
      /\ fs[q] = gs[q]
      /\ \A j \in 1 .. n - 1 : j > q => fs[j] = es[j + 1]
  BY <1>1, <1>3, <1>8, SMTT(20)
<1>B. a \in 1 .. n - 1 /\ a + 1 \in 1 .. n - 1 /\ a \in 1 .. n
  BY <1>1
<1>9. CASE a = q
  <2>1. /\ fs[a] = gs[q] /\ fs[a + 1] = es[i + 1] /\ apart(es[i], es[i + 1])
        /\ i + 1 \in 1 .. n
    <3>1. i \in 1 .. n - 1 /\ i + 1 \in 1 .. n /\ a + 1 > q /\ a + 1 = i
      BY <1>1, <1>9
    <3> QED
      BY <1>2, <1>9, <1>A, <1>B, <3>1
  <2>2. es[i] \in Extent /\ es[i + 1] \in Extent
    BY <1>1, <1>2, <2>1
  <2>3. /\ gs[q].block + gs[q].len = es[i].block + es[i].len
        /\ gs[q].start + gs[q].len = es[i].start + es[i].len
        /\ es[i].len <= gs[q].len
    <3>1. PICK B \in Nat, N \in Nat, S \in Nat, M \in Nat :
             es[q].block = B /\ es[q].len = N /\ es[q].start = S /\ es[i].len = M
      BY <1>1, <1>2
    <3>2. /\ gs[q].block = B /\ gs[q].start = S /\ gs[q].len = N + 1 + M
          /\ es[i].block = B + N + 1 /\ es[i].start = S + N + 1
      BY <1>1, <1>4, <3>1
    <3> QED
      BY <3>1, <3>2
  <2> QED
    BY <1>4, <2>1, <2>2, <2>3, ApartGrows
<1>10. CASE a + 1 = q
  <2>1. fs[a] = es[a] /\ fs[a + 1] = gs[q] /\ apart(es[a], es[q])
    <3>1. a < q
      BY <1>1, <1>10
    <3> QED
      BY <1>2, <1>10, <1>A, <1>B, <3>1
  <2>2. es[a] \in Extent /\ es[q] \in Extent /\ es[q].len <= gs[q].len
    <3>1. PICK N \in Nat, M \in Nat : es[q].len = N /\ es[i].len = M
      BY <1>1, <1>2
    <3> QED
      BY <1>1, <1>2, <1>4, <1>B, <3>1
  <2> QED
    BY <1>4, <2>1, <2>2, ApartGrows
<1>11. CASE a + 1 < q
  <2>1. fs[a] = es[a] /\ fs[a + 1] = es[a + 1] /\ a \in 1 .. n - 1
    BY <1>1, <1>11, <1>A, <1>B
  <2> QED
    BY <1>2, <2>1
<1>12. CASE a > q
  <2>1. fs[a] = es[a + 1] /\ fs[a + 1] = es[(a + 1) + 1] /\ a + 1 \in 1 .. n - 1
    BY <1>1, <1>12, <1>A, <1>B
  <2> QED
    BY <1>2, <2>1
<1> QED
  BY <1>1, <1>9, <1>10, <1>11, <1>12

\* Placing a block leaves no two extents that one could hold.
LEMMA TightPlace ==
  ASSUME NEW es, list(es), tight(es), NEW l \in Nat, NEW p \in Nat, NEW i, place_at(es, i, l)
  PROVE  tight(place(es, i, l, p))
<1>1. CASE /\ merge_prev(es, i, l, p) /\ merge_next(es, i, l, p)
           /\ es[i - 1].len + 1 + es[i].len <= MaxLen
  BY <1>1, TightJoin DEF place
<1>2. CASE /\ merge_prev(es, i, l, p)
           /\ ~(merge_next(es, i, l, p) /\ es[i - 1].len + 1 + es[i].len <= MaxLen)
  BY <1>2, TightGrowPrev DEF place
<1>3. CASE ~merge_prev(es, i, l, p) /\ merge_next(es, i, l, p)
  BY <1>3, TightGrowNext DEF place
<1>4. CASE ~merge_prev(es, i, l, p) /\ ~merge_next(es, i, l, p)
  BY <1>4, TightInsertAt DEF place
<1> QED
  BY <1>1, <1>2, <1>3, <1>4

\* Whatever the order the blocks of a file come in and wherever they land, the
\* list never keeps two extents that would fit into one.
THEOREM ExtentsCompact == Spec => []Compact
<1>1. Init => list(extents) /\ Compact
  BY InitList DEF Init, Compact, tight
<1>2. list(extents) /\ [Next]_extents => list(extents)'
  BY NextList
<1>3. list(extents) /\ Compact /\ [Next]_extents => Compact'
  <2> SUFFICES ASSUME list(extents), Compact, [Next]_extents PROVE Compact'
    OBVIOUS
  <2>1. CASE Next
    <3>1. PICK l \in LBlock, p \in PBlock : insert(l, p) \/ push(l, p)
      BY <2>1 DEF Next
    <3>2. l \in Nat /\ p \in Nat
      BY ExtentsAssumption
    <3>3. \E i : place_at(extents, i, l) /\ extents' = place(extents, i, l, p)
      BY <3>1, <3>2, InsertBlock, PushBlock DEF insert, push
    <3> QED
      BY <3>2, <3>3, TightPlace DEF Compact
  <2>2. CASE UNCHANGED extents
    BY <2>2 DEF Compact
  <2> QED
    BY <2>1, <2>2
<1> QED
  BY <1>1, <1>2, <1>3, PTL DEF Spec
================================================================================
