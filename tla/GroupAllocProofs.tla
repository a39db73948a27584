--------------------------- MODULE GroupAllocProofs ---------------------------
(***************************************************************************)
(* Proofs about GroupAlloc, for every geometry: any group size, any number *)
(* of groups, any size of the device and any first unit.                   *)
(***************************************************************************)
EXTENDS GroupAlloc, TLAPS

\* A number splits in one way into a group and a bit of the group.
LEMMA SplitUnique ==
  ASSUME NEW P \in Nat \ {0}, NEW g \in Nat, NEW h \in Nat,
         NEW b \in 0 .. P - 1, NEW c \in 0 .. P - 1, g * P + b = h * P + c
  PROVE  g = h /\ b = c
<1>1. ASSUME NEW x \in Nat, NEW y \in Nat, x < y, NEW i \in 0 .. P - 1, NEW j \in 0 .. P - 1
      PROVE  x * P + i < y * P + j
  <2>1. PICK d \in Nat : y = x + 1 + d
    <3>1. y - x - 1 \in Nat
      BY <1>1
    <3>2. QED
      BY <3>1
  <2>2. y * P = x * P + P + d * P
    BY <2>1
  <2>3. d * P \in Nat /\ x * P \in Nat
    OBVIOUS
  <2>4. QED
    BY <2>2, <2>3
<1>2. ~(g < h) /\ ~(h < g)
  BY <1>1
<1>3. g = h
  BY <1>2
<1>4. QED
  BY <1>3

\* Quotient and remainder give the number back.
LEMMA Euclid ==
  ASSUME NEW P \in Int, P > 0, NEW r \in Int
  PROVE  r = P * (r \div P) + (r % P)
OBVIOUS

\* Division gives that split.
LEMMA DivModSplit ==
  ASSUME NEW P \in Nat \ {0}, NEW r \in Nat
  PROVE  /\ r \div P \in Nat /\ r % P \in 0 .. P - 1
         /\ r = (r \div P) * P + (r % P)
<1>1. r \div P \in Nat
  OBVIOUS
<1>2. r % P \in 0 .. P - 1
  OBVIOUS
<1>3. r = P * (r \div P) + (r % P)
  <2>1. P \in Int /\ P > 0 /\ r \in Int
    OBVIOUS
  <2>2. QED
    BY <2>1, Euclid
<1>4. P * (r \div P) = (r \div P) * P
  BY <1>1
<1>5. QED
  BY <1>1, <1>2, <1>3, <1>4

\* ... and back: the group and the bit of a number built from them.
LEMMA DivModOfSplit ==
  ASSUME NEW P \in Nat \ {0}, NEW g \in Nat, NEW b \in 0 .. P - 1
  PROVE  (g * P + b) \div P = g /\ (g * P + b) % P = b
<1> DEFINE r == g * P + b
<1>1. r \in Nat
  OBVIOUS
<1>2. r \div P \in Nat /\ r % P \in 0 .. P - 1 /\ r = (r \div P) * P + (r % P)
  BY <1>1, DivModSplit
<1>3. QED
  BY <1>2, SplitUnique

\* A unit of group g: its group and bit are g and b again.
LEMMA UnitOfSplit ==
  ASSUME NEW g \in 0 .. Groups - 1, NEW b \in 0 .. PerGroup - 1,
         NEW u, u = group_start(g) + b
  PROVE  /\ u \in Nat
         /\ (u - First) \div PerGroup = g
         /\ (u - First) % PerGroup = b
<1>1. g \in Nat /\ g * PerGroup \in Nat
  BY GroupAssumption
<1>2. u - First = g * PerGroup + b
  BY <1>1, GroupAssumption DEF group_start
<1>3. QED
  BY <1>1, <1>2, DivModOfSplit, GroupAssumption DEF group_start

\* Every unit lies in a group, at a bit that the group really has.
LEMMA SplitOfUnit ==
  ASSUME NEW u \in Unit
  PROVE  LET g == (u - First) \div PerGroup
             b == (u - First) % PerGroup
         IN  /\ g \in 0 .. Groups - 1 /\ b \in 0 .. PerGroup - 1
             /\ u = group_start(g) + b
             /\ group_start(g) < Total
             /\ b \in 0 .. bits_in_group(g) - 1
<1> DEFINE r == u - First
           g == r \div PerGroup
           b == r % PerGroup
<1>1. r \in Nat /\ u \in Nat /\ u < Total
  BY GroupAssumption DEF Unit
<1>2. g \in Nat /\ b \in 0 .. PerGroup - 1 /\ r = g * PerGroup + b
  BY <1>1, DivModSplit, GroupAssumption
<1>3. g * PerGroup \in Nat
  BY <1>2, GroupAssumption
<1>4. u = group_start(g) + b
  BY <1>1, <1>2, <1>3, GroupAssumption DEF group_start
<1>5. group_start(g) < Total
  BY <1>1, <1>2, <1>3, <1>4, GroupAssumption DEF group_start
<1>6. g < Groups
  <2>1. SUFFICES ASSUME ~(g < Groups) PROVE FALSE
    OBVIOUS
  <2>2. PICK d \in Nat : g = Groups + d
    <3> HIDE DEF g
    <3>1. g - Groups \in Nat /\ g = Groups + (g - Groups)
      BY <1>2, <2>1, GroupAssumption
    <3>2. QED
      BY <3>1
  <2>3. g * PerGroup = Groups * PerGroup + d * PerGroup
    BY <2>2, GroupAssumption
  <2>4. d * PerGroup \in Nat /\ Groups * PerGroup \in Nat
    BY GroupAssumption
  <2>5. QED
    BY <1>5, <2>3, <2>4, GroupAssumption DEF group_start
<1>7. b \in 0 .. bits_in_group(g) - 1
  BY <1>1, <1>2, <1>3, <1>4, GroupAssumption DEF bits_in_group, group_start
<1>8. QED
  BY <1>2, <1>4, <1>5, <1>6, <1>7, GroupAssumption

\* A bit of a visited group within its size is a unit.
LEMMA BitIsUnit ==
  ASSUME NEW g \in 0 .. Groups - 1, group_start(g) < Total,
         NEW b \in 0 .. bits_in_group(g) - 1
  PROVE  b \in 0 .. PerGroup - 1 /\ group_start(g) + b \in Unit
<1>1. g \in Nat /\ g * PerGroup \in Nat /\ group_start(g) \in Nat /\ First <= group_start(g)
  BY GroupAssumption DEF group_start
<1>2. QED
  BY <1>1, GroupAssumption DEF bits_in_group, Unit

\* The two passes together look at every group that starts on the device.
LEMMA PassesCover ==
  ASSUME TypeOK, NEW g \in 0 .. Groups - 1, group_start(g) < Total
  PROVE  g \in visited(0) \cup visited(1)
<1>1. start_group \in Int
  BY GroupAssumption DEF TypeOK, start_group, start_rel
<1>2. QED
  BY <1>1, GroupAssumption DEF visited

\* The bit that a successful search sets is a unit, and it was free.
LEMMA AllocUnit ==
  ASSUME TypeOK, alloc
  PROVE  \E g \in 0 .. Groups - 1, b \in 0 .. PerGroup - 1 :
            /\ group_start(g) + b \in Unit
            /\ b \notin bitmap[g]
            /\ bitmap' = [bitmap EXCEPT ![g] = @ \cup {b}]
            /\ cursor' = group_start(g) + b + 1
            /\ ret' = group_start(g) + b
            /\ freed' = NoUnit
<1>1. PICK pass \in {0, 1}, g \in 0 .. Groups - 1, b \in 0 .. PerGroup - 1 :
        /\ finds_group(pass, g)
        /\ finds_bit(g, IF pass = 0 /\ g = start_group THEN start_local ELSE 0,
                     bits_in_group(g), b)
        /\ bitmap' = [bitmap EXCEPT ![g] = @ \cup {b}]
        /\ cursor' = group_start(g) + b + 1
        /\ ret' = group_start(g) + b
        /\ freed' = NoUnit
  BY DEF alloc
<1>2. group_start(g) < Total /\ group_start(g) \in Nat
  BY <1>1, GroupAssumption DEF finds_group, visited, group_start
<1>3. start_local \in Nat /\ bits_in_group(g) \in Nat
  <2>1. start_rel \in Nat
    BY GroupAssumption DEF TypeOK, start_rel
  <2>2. start_local \in Nat
    BY <2>1, GroupAssumption, DivModSplit DEF start_local
  <2>3. bits_in_group(g) \in Nat
    BY <1>2, GroupAssumption DEF bits_in_group
  <2>4. QED
    BY <2>2, <2>3
<1>4. b \in 0 .. bits_in_group(g) - 1 /\ b \notin bitmap[g]
  BY <1>1, <1>3 DEF finds_bit, free_bits
<1>5. group_start(g) + b \in Unit
  BY <1>2, <1>4, BitIsUnit
<1>6. QED
  BY <1>1, <1>4, <1>5

\* The units in use after bit b of group g is set, or cleared.
LEMMA UsedAfter ==
  ASSUME TypeOK, NEW g \in 0 .. Groups - 1, NEW b \in 0 .. PerGroup - 1
  PROVE  /\ bitmap' = [bitmap EXCEPT ![g] = @ \cup {b}] =>
               used' = used \cup ({group_start(g) + b} \cap Unit)
         /\ bitmap' = [bitmap EXCEPT ![g] = @ \ {b}] =>
               used' = used \ {group_start(g) + b}
<1> DEFINE grp(u) == (u - First) \div PerGroup
           bit(u) == (u - First) % PerGroup
           v == group_start(g) + b
<1>1. \A u \in Unit : /\ grp(u) \in 0 .. Groups - 1
                      /\ bit(u) \in 0 .. PerGroup - 1
                      /\ u = group_start(grp(u)) + bit(u)
  BY SplitOfUnit
<1>2. grp(v) = g /\ bit(v) = b
  <2>1. ASSUME NEW u, u = v PROVE grp(u) = g /\ bit(u) = b
    BY <2>1, UnitOfSplit
  <2>2. QED
    BY <2>1
<1>3. used = {u \in Unit : bit(u) \in bitmap[grp(u)]}
  BY DEF used
<1>4. used' = {u \in Unit : bit(u) \in bitmap'[grp(u)]}
  BY DEF used
<1>5. \A u \in Unit : u # v => grp(u) # g \/ bit(u) # b
  BY <1>1
<1>6. bitmap \in [0 .. Groups - 1 -> SUBSET (0 .. PerGroup - 1)]
  BY DEF TypeOK
<1> HIDE DEF grp, bit, v
<1>7. ASSUME bitmap' = [bitmap EXCEPT ![g] = @ \cup {b}]
      PROVE  used' = used \cup ({v} \cap Unit)
  <2>1. \A u \in Unit : bit(u) \in bitmap'[grp(u)] <=> bit(u) \in bitmap[grp(u)] \/ u = v
    BY <1>1, <1>2, <1>5, <1>6, <1>7
  <2>2. QED
    BY <1>3, <1>4, <2>1
<1>8. ASSUME bitmap' = [bitmap EXCEPT ![g] = @ \ {b}]
      PROVE  used' = used \ {v}
  <2>1. \A u \in Unit : bit(u) \in bitmap'[grp(u)] <=> bit(u) \in bitmap[grp(u)] /\ u # v
    BY <1>1, <1>2, <1>5, <1>6, <1>8
  <2>2. QED
    BY <1>3, <1>4, <2>1
<1>9. QED
  BY <1>7, <1>8 DEF v

\* None: both passes came back empty, so every unit is in use.
LEMMA NoneMeansFull ==
  ASSUME TypeOK, alloc_none
  PROVE  used = Unit
<1>1. SUFFICES ASSUME NEW u \in Unit PROVE u \in used
  BY DEF used
<1> DEFINE g == (u - First) \div PerGroup
           b == (u - First) % PerGroup
<1>2. /\ g \in 0 .. Groups - 1 /\ group_start(g) < Total
      /\ b \in 0 .. bits_in_group(g) - 1
  BY SplitOfUnit
<1>3. g \in visited(0) \cup visited(1)
  BY <1>2, PassesCover
<1>4. ~has_free(g)
  BY <1>3 DEF alloc_none
<1>5. b \in bitmap[g]
  BY <1>2, <1>4 DEF has_free, free_bits
<1>6. QED
  BY <1>5 DEF used

\* Every step preserves the types and is a step of the abstract allocator.
LEMMA NextAllocator ==
  TypeOK /\ [Next]_vars => TypeOK' /\ [Abstract!AllocatorNext]_(Abstract!allocatorVars)
<1> SUFFICES ASSUME TypeOK, [Next]_vars
             PROVE  TypeOK' /\ [Abstract!AllocatorNext]_(Abstract!allocatorVars)
  OBVIOUS
<1> USE DEF Abstract!AllocatorNext, Abstract!allocatorVars
<1>1. CASE alloc
  <2>1. PICK g \in 0 .. Groups - 1, b \in 0 .. PerGroup - 1 :
            /\ group_start(g) + b \in Unit
            /\ b \notin bitmap[g]
            /\ bitmap' = [bitmap EXCEPT ![g] = @ \cup {b}]
            /\ cursor' = group_start(g) + b + 1
            /\ ret' = group_start(g) + b
            /\ freed' = NoUnit
    BY <1>1, AllocUnit
  <2>2. TypeOK'
    BY <2>1, UnitOfSplit DEF TypeOK
  <2>3. group_start(g) + b \notin used
    <3>1. ASSUME NEW u, u = group_start(g) + b PROVE u \notin used
      <4>1. (u - First) \div PerGroup = g /\ (u - First) % PerGroup = b
        BY <3>1, UnitOfSplit
      <4>2. QED
        BY <2>1, <4>1 DEF used
    <3>2. QED
      BY <3>1
  <2>4. used' = used \cup {group_start(g) + b}
    <3>1. used' = used \cup ({group_start(g) + b} \cap Unit)
      BY <2>1, UsedAfter
    <3>2. QED
      BY <2>1, <3>1
  <2>5. Abstract!Alloc(group_start(g) + b)
    BY <2>1, <2>3, <2>4 DEF Abstract!Alloc
  <2>6. QED
    BY <2>1, <2>2, <2>5
<1>2. CASE alloc_none
  <2>1. TypeOK'
    BY <1>2 DEF TypeOK, alloc_none
  <2>2. used' = used
    BY <1>2 DEF used, alloc_none
  <2>3. Abstract!Exhausted
    BY <1>2, <2>2, NoneMeansFull DEF alloc_none, Abstract!Exhausted
  <2>4. QED
    BY <2>1, <2>3
<1>3. ASSUME NEW u \in Number, dealloc(u)
      PROVE  TypeOK' /\ [Abstract!AllocatorNext]_(Abstract!allocatorVars)
  <2> DEFINE g == (u - First) \div PerGroup
             b == (u - First) % PerGroup
  <2>1. ret' = NoUnit /\ freed' = u /\ cursor' = cursor
    BY <1>3 DEF dealloc
  <2>2. CASE u < First \/ g >= Groups
    <3>1. bitmap' = bitmap
      BY <1>3, <2>2 DEF dealloc
    <3>2. u \notin Unit
      <4>1. SUFFICES ASSUME u \in Unit PROVE FALSE
        OBVIOUS
      <4>2. First <= u /\ g \in 0 .. Groups - 1
        BY <4>1, SplitOfUnit DEF Unit
      <4> HIDE DEF g
      <4>3. QED
        BY <2>2, <4>1, <4>2, GroupAssumption DEF Unit
    <3>3. used' = used \ {u}
      BY <3>1, <3>2 DEF used
    <3>4. Abstract!Free(u)
      BY <2>1, <3>3 DEF Abstract!Free
    <3>5. QED
      BY <2>1, <3>1, <3>4 DEF TypeOK
  <2>3. CASE ~(u < First \/ g >= Groups)
    <3>1. /\ g \in 0 .. Groups - 1 /\ b \in 0 .. PerGroup - 1
          /\ u = group_start(g) + b
      <4>1. u - First \in Nat /\ u \in Nat
        BY <2>3, GroupAssumption DEF Number
      <4>2. /\ g \in Nat /\ b \in 0 .. PerGroup - 1
            /\ u - First = g * PerGroup + b
        BY <4>1, DivModSplit, GroupAssumption
      <4>3. g * PerGroup \in Nat
        BY <4>2, GroupAssumption
      <4>4. QED
        BY <2>3, <4>1, <4>2, <4>3, GroupAssumption DEF group_start
    <3>2. bitmap' = [bitmap EXCEPT ![g] = @ \ {b}]
      BY <1>3, <2>3 DEF dealloc
    <3>3. TypeOK'
      BY <2>1, <3>1, <3>2 DEF TypeOK
    <3>4. used' = used \ {u}
      BY <3>1, <3>2, UsedAfter
    <3>5. Abstract!Free(u)
      BY <2>1, <3>4 DEF Abstract!Free
    <3>6. QED
      BY <3>3, <3>5
  <2>4. QED
    BY <2>2, <2>3
<1>4. CASE UNCHANGED vars
  BY <1>4 DEF vars, TypeOK, used
<1>5. QED
  BY <1>1, <1>2, <1>3, <1>4 DEF Next

\* For every geometry the search never hands out a unit in use or off the
\* device, returns None only when every unit is in use, and dealloc clears the
\* unit it is given and no other.
THEOREM GroupAllocImplements == Spec => ImplementsAllocator
<1>1. Init => TypeOK /\ Abstract!AllocatorInit
  BY GroupAssumption DEF Init, TypeOK, Abstract!AllocatorInit, used
<1>2. TypeOK /\ [Next]_vars => TypeOK' /\ [Abstract!AllocatorNext]_(Abstract!allocatorVars)
  BY NextAllocator
<1>3. QED
  BY <1>1, <1>2, PTL DEF Spec, ImplementsAllocator, Abstract!AllocatorSpec

\* Type correctness of the allocator.
THEOREM GroupAllocTypeOK == Spec => []TypeOK
<1>1. Init => TypeOK
  BY GroupAssumption DEF Init, TypeOK
<1>2. TypeOK /\ [Next]_vars => TypeOK'
  BY NextAllocator
<1>3. QED
  BY <1>1, <1>2, PTL DEF Spec

\* The search begins at the cursor, so a free unit there is the one found.
LEMMA AllocAtCursor ==
  ASSUME TypeOK, alloc, cursor \in Unit \ used
  PROVE  ret' = cursor
<1>1. PICK pass \in {0, 1}, g \in 0 .. Groups - 1, b \in 0 .. PerGroup - 1 :
        /\ finds_group(pass, g)
        /\ finds_bit(g, IF pass = 0 /\ g = start_group THEN start_local ELSE 0,
                     bits_in_group(g), b)
        /\ ret' = group_start(g) + b
  BY DEF alloc
<1>2. start_rel = cursor - First
  BY GroupAssumption DEF start_rel, Unit, TypeOK
<1>3. /\ start_group \in 0 .. Groups - 1
      /\ cursor = group_start(start_group) + start_local
      /\ group_start(start_group) < Total
      /\ start_local \in 0 .. bits_in_group(start_group) - 1
  BY <1>2, SplitOfUnit DEF start_group, start_local
<1>4. start_local \notin bitmap[start_group]
  BY <1>2 DEF used, start_group, start_local
<1>5. has_free(start_group)
  BY <1>3, <1>4 DEF has_free, free_bits
<1>6. start_group \in visited(0)
  BY <1>3, GroupAssumption DEF visited
<1>7. pass = 0 /\ g = start_group
  <2>1. pass = 0
    BY <1>1, <1>5, <1>6 DEF finds_group
  <2>2. start_group <= g /\ ~(start_group < g)
    BY <1>1, <1>3, <1>5, <1>6, <2>1 DEF finds_group, visited
  <2>3. QED
    BY <1>3, <2>1, <2>2, GroupAssumption
<1>8. bits_in_group(g) \in Int
  BY <1>3, <1>7, GroupAssumption DEF bits_in_group, group_start
<1>9. b = start_local
  BY <1>1, <1>3, <1>4, <1>7, <1>8, GroupAssumption DEF finds_bit, free_bits
<1>10. QED
  BY <1>1, <1>3, <1>7, <1>9

\* For every geometry a free unit at the cursor is handed out next, across the
\* border of a group too: a file that grows alone stays contiguous.
THEOREM GroupAllocSequential == Spec => Sequential
<1>1. TypeOK /\ [Next]_vars => [alloc /\ cursor \in Unit \ used => ret' = cursor]_vars
  BY AllocAtCursor
<1>2. QED
  BY <1>1, GroupAllocTypeOK, PTL DEF Spec, Sequential
===============================================================================
