---------------------------- MODULE Ext4LayoutProofs ----------------------------
(***************************************************************************)
(* Proofs about where things are on an ext4 image.                         *)
(*                                                                         *)
(* The two allocators of a mounted file system, for every geometry: each   *)
(* keeps what GroupAlloc promises while the other one runs, and the inodes *)
(* below s_first_ino stay reserved.                                        *)
(*                                                                         *)
(* The blocks of an indirect file, for every number of direct pointers and *)
(* of pointers in a block, and for every image: get_block_num finds block  *)
(* l at the l-th place of the layout, so a read returns the file in order. *)
(***************************************************************************)
EXTENDS Ext4Alloc, GroupAllocProofs, IndirectFile, SequenceTheorems, FiniteSetTheorems, TLAPS

-------------------------------------------------------------------------------
\* The two allocators

\* The facts about GroupAlloc, of the inodes.
InodeFacts == INSTANCE GroupAllocProofs
    WITH First <- 1, PerGroup <- InodesPerGroup, Total <- 1 + LastInode,
         Start <- FirstIno, MaxUnit <- 1 + LastInode,
         bitmap <- inode_bitmap, cursor <- next_alloc_inode, ret <- inode_ret,
         freed <- inode_freed

\* The inodes of a file system are a geometry GroupAlloc allows.
LEMMA InodeGeometry ==
    /\ LastInode \in Nat
    /\ Inodes!GroupAssumption
<1>1. LastInode \in Nat
  BY GroupAssumption, InodeAssumption DEF LastInode
<1>2. QED
  BY <1>1, GroupAssumption, InodeAssumption DEF LastInode, Inodes!GroupAssumption

\* They are facts about the instance that Ext4Alloc makes.
LEMMA SameInodes ==
    /\ InodeFacts!TypeOK <=> Inodes!TypeOK
    /\ InodeFacts!used = Inodes!used
    /\ InodeFacts!vars = inodeVars
    /\ InodeFacts!Init <=> Inodes!Init
    /\ InodeFacts!alloc <=> Inodes!alloc
    /\ InodeFacts!alloc_none <=> Inodes!alloc_none
    /\ \A u : InodeFacts!dealloc(u) <=> Inodes!dealloc(u)
<1>1. InodeFacts!TypeOK <=> Inodes!TypeOK
  BY Zenon DEF InodeFacts!TypeOK, Inodes!TypeOK, InodeFacts!Unit, Inodes!Unit, InodeFacts!Number, Inodes!Number
<1>2. InodeFacts!used = Inodes!used
  BY Zenon DEF InodeFacts!used, Inodes!used, InodeFacts!Unit, Inodes!Unit
<1>3. InodeFacts!vars = inodeVars
  BY Zenon DEF InodeFacts!vars, inodeVars
<1>4. InodeFacts!Init <=> Inodes!Init
  BY Zenon DEF InodeFacts!Init, Inodes!Init
<1>5. InodeFacts!alloc <=> Inodes!alloc
  BY Zenon DEF InodeFacts!alloc, Inodes!alloc, InodeFacts!finds_group, Inodes!finds_group,
       InodeFacts!finds_bit, Inodes!finds_bit, InodeFacts!free_bits, Inodes!free_bits,
       InodeFacts!visited, Inodes!visited, InodeFacts!has_free, Inodes!has_free, 
       InodeFacts!bits_in_group, Inodes!bits_in_group, InodeFacts!group_start, Inodes!group_start,
       InodeFacts!start_group, Inodes!start_group, InodeFacts!start_local, Inodes!start_local,
       InodeFacts!start_rel, Inodes!start_rel
<1>6. InodeFacts!alloc_none <=> Inodes!alloc_none
  BY Zenon DEF InodeFacts!alloc_none, Inodes!alloc_none, InodeFacts!free_bits, Inodes!free_bits,
       InodeFacts!visited, Inodes!visited, InodeFacts!has_free, Inodes!has_free, 
       InodeFacts!bits_in_group, Inodes!bits_in_group, InodeFacts!group_start, Inodes!group_start,
       InodeFacts!start_group, Inodes!start_group, 
       InodeFacts!start_rel, Inodes!start_rel
<1>7. \A u : InodeFacts!dealloc(u) <=> Inodes!dealloc(u)
  BY Zenon DEF InodeFacts!dealloc, Inodes!dealloc
<1> QED
  BY <1>1, <1>2, <1>3, <1>4, <1>5, <1>6, <1>7

\* Blocks and inodes share no state: a call on the one leaves the other alone.
LEMMA CallsApart ==
  ASSUME [Ext4Next]_<<vars, inodeVars>>
  PROVE  /\ [Next]_vars
         /\ [InodeFacts!Next]_(InodeFacts!vars)
<1> USE DEF InodeFacts!vars, inodeVars
<1>1. CASE alloc_block
  BY <1>1 DEF alloc_block, Next
<1>2. CASE alloc_inode
  BY <1>2, SameInodes DEF alloc_inode, InodeFacts!Next
<1>3. CASE \E b \in Number : dealloc_block(b)
  BY <1>3 DEF dealloc_block, Next
<1>4. ASSUME NEW i \in {0} \cup FirstIno .. 1 + LastInode, dealloc_inode(i)
      PROVE  UNCHANGED vars /\ InodeFacts!Next
  <2>1. UNCHANGED vars /\ InodeFacts!dealloc(i)
    BY <1>4, SameInodes DEF dealloc_inode
  <2>2. i \in InodeFacts!Number
    BY InodeGeometry, InodeAssumption DEF InodeFacts!Number
  <2>3. QED
    BY <2>1, <2>2 DEF InodeFacts!Next
<1>5. CASE UNCHANGED <<vars, inodeVars>>
  BY <1>5 DEF vars
<1>6. QED
  BY <1>1, <1>2, <1>3, <1>4, <1>5 DEF Ext4Next

\* The block allocator of a mounted file system keeps its promises while
\* inodes are allocated and freed: types, the abstract allocator, and growth
\* that stays contiguous.
THEOREM Ext4Blocks == Ext4Spec => []TypeOK /\ ImplementsAllocator /\ Sequential
<1>1. try_open => Init
  BY DEF try_open
<1>2. [Ext4Next]_<<vars, inodeVars>> => [Next]_vars
  BY CallsApart
<1>3. Ext4Spec => Spec
  BY <1>1, <1>2, PTL DEF Ext4Spec, Spec
<1>4. QED
  BY <1>3, GroupAllocTypeOK, GroupAllocImplements, GroupAllocSequential, PTL

\* Every step keeps the types of the inode bitmaps and is a step of the
\* abstract allocator of inodes.
LEMMA InodeStep ==
  ASSUME Inodes!TypeOK, [Ext4Next]_<<vars, inodeVars>>
  PROVE  Inodes!TypeOK' /\ [Inodes!Abstract!AllocatorNext]_(Inodes!Abstract!allocatorVars)
<1>1. InodeFacts!TypeOK /\ [InodeFacts!Next]_(InodeFacts!vars)
  BY SameInodes, CallsApart
<1>2. /\ InodeFacts!TypeOK'
      /\ [InodeFacts!Abstract!AllocatorNext]_(InodeFacts!Abstract!allocatorVars)
  BY <1>1, InodeGeometry, InodeFacts!NextAllocator DEF Inodes!GroupAssumption
<1>3. Inodes!TypeOK'
  BY <1>2, Zenon DEF InodeFacts!TypeOK, Inodes!TypeOK, InodeFacts!Unit, Inodes!Unit,
     InodeFacts!Number, Inodes!Number
<1>4. [Inodes!Abstract!AllocatorNext]_(Inodes!Abstract!allocatorVars)
  BY <1>2, Zenon DEF InodeFacts!Abstract!AllocatorNext, Inodes!Abstract!AllocatorNext,
     InodeFacts!Abstract!allocatorVars, Inodes!Abstract!allocatorVars,
     InodeFacts!Abstract!Alloc, Inodes!Abstract!Alloc,
     InodeFacts!Abstract!Free, Inodes!Abstract!Free,
     InodeFacts!Abstract!Exhausted, Inodes!Abstract!Exhausted,
     InodeFacts!Unit, Inodes!Unit, InodeFacts!Number, Inodes!Number,
     InodeFacts!used, Inodes!used
<1>5. QED
  BY <1>3, <1>4

\* The inodes of a mounted image.
LEMMA InodeInit ==
  ASSUME try_open
  PROVE  Inodes!TypeOK /\ Inodes!Abstract!AllocatorInit
<1>1. InodeFacts!Init
  BY SameInodes DEF try_open
<1>2. Inodes!TypeOK
  BY InodeGeometry DEF try_open, Inodes!Init, Inodes!TypeOK, Inodes!GroupAssumption
<1>3. Inodes!Abstract!AllocatorInit
  BY InodeGeometry DEF try_open, Inodes!Init, Inodes!Abstract!AllocatorInit, Inodes!used
<1>4. QED
  BY <1>2, <1>3

\* For every geometry inodes are handed out as the abstract allocator says: no
\* inode in use is handed out, None means that every inode is in use, and
\* dealloc_inode gives back the inode it names.
THEOREM Ext4InodesImplement == Ext4Spec => InodesImplement
<1>1. try_open => Inodes!TypeOK /\ Inodes!Abstract!AllocatorInit
  BY InodeInit
<1>2. Inodes!TypeOK /\ [Ext4Next]_<<vars, inodeVars>> =>
        Inodes!TypeOK' /\ [Inodes!Abstract!AllocatorNext]_(Inodes!Abstract!allocatorVars)
  BY InodeStep
<1>3. QED
  BY <1>1, <1>2, PTL DEF Ext4Spec, InodesImplement, Inodes!ImplementsAllocator,
     Inodes!Abstract!AllocatorSpec

\* The strengthening that keeps reserved inodes reserved: they stay marked in
\* use, because the callers never free one.
Reserved ==
    /\ Inodes!TypeOK
    /\ 1 .. FirstIno - 1 \subseteq Inodes!used
    /\ ReservedInodesKept

\* Every step keeps the reserved inodes marked.
LEMMA ReservedStep ==
  ASSUME Reserved, [Ext4Next]_<<vars, inodeVars>>
  PROVE  Reserved'
<1> USE DEF Inodes!Abstract!allocatorVars
<1>1. /\ Inodes!TypeOK'
      /\ [Inodes!Abstract!AllocatorNext]_(Inodes!Abstract!allocatorVars)
  BY InodeStep DEF Reserved
<1>2. 1 .. FirstIno - 1 \subseteq Inodes!used /\ ReservedInodesKept
  BY DEF Reserved
<1> SUFFICES 1 .. FirstIno - 1 \subseteq Inodes!used' /\ ReservedInodesKept'
  BY <1>1 DEF Reserved
<1>3. ASSUME NEW u \in Inodes!Unit, Inodes!Abstract!Alloc(u)
      PROVE  1 .. FirstIno - 1 \subseteq Inodes!used' /\ ReservedInodesKept'
  <2>1. inode_ret' = u /\ u \notin Inodes!used /\ Inodes!used' = Inodes!used \cup {u}
    BY <1>3 DEF Inodes!Abstract!Alloc
  <2>2. u \in Nat \ {0}
    BY InodeGeometry DEF Inodes!Unit
  <2>3. u \notin 1 .. FirstIno - 1
    BY <1>2, <2>1
  <2>4. u >= FirstIno
    BY <2>2, <2>3, InodeAssumption
  <2>5. QED
    BY <1>2, <2>1, <2>4 DEF ReservedInodesKept
<1>4. CASE Inodes!Abstract!Exhausted
  BY <1>2, <1>4 DEF Inodes!Abstract!Exhausted, ReservedInodesKept
<1>5. ASSUME NEW i \in {0} \cup FirstIno .. 1 + LastInode, dealloc_inode(i)
      PROVE  1 .. FirstIno - 1 \subseteq Inodes!used' /\ ReservedInodesKept'
  <2>1. inode_ret' = NoUnit /\ inode_freed' = i
    BY <1>5 DEF dealloc_inode, Inodes!dealloc
  <2>2. inode_freed' # NoUnit
    BY <2>1, GroupAssumption, InodeGeometry, InodeAssumption
  <2>3. CASE UNCHANGED Inodes!Abstract!allocatorVars
    BY <1>2, <2>3 DEF ReservedInodesKept
  <2>4. CASE \E u \in Inodes!Number : Inodes!Abstract!Free(u)
    <3>1. Inodes!used' = Inodes!used \ {i}
      BY <2>1, <2>4 DEF Inodes!Abstract!Free
    <3>2. i \notin 1 .. FirstIno - 1
      BY InodeAssumption, InodeGeometry
    <3>3. QED
      BY <1>2, <2>1, <3>1, <3>2 DEF ReservedInodesKept
  <2>5. QED
    BY <1>1, <2>1, <2>2, <2>3, <2>4
       DEF Inodes!Abstract!AllocatorNext, Inodes!Abstract!Alloc, Inodes!Abstract!Exhausted
<1>6. CASE UNCHANGED inodeVars
  <2>1. UNCHANGED <<inode_ret, Inodes!used>>
    BY <1>6 DEF inodeVars, Inodes!used
  <2>2. QED
    BY <1>2, <2>1 DEF ReservedInodesKept
<1>7. CASE alloc_inode
  <2>1. inode_freed' = NoUnit
    BY <1>7 DEF alloc_inode, Inodes!alloc, Inodes!alloc_none
  <2>2. \A u \in Inodes!Number : ~Inodes!Abstract!Free(u)
    BY <2>1, GroupAssumption, InodeGeometry DEF Inodes!Number, Inodes!Abstract!Free
  <2>3. CASE UNCHANGED Inodes!Abstract!allocatorVars
    BY <1>2, <2>3 DEF ReservedInodesKept
  <2>4. QED
    BY <1>1, <1>3, <1>4, <2>2, <2>3 DEF Inodes!Abstract!AllocatorNext
<1>8. QED
  BY <1>5, <1>6, <1>7 DEF Ext4Next, alloc_block, dealloc_block

\* A search that wraps starts again at inode 1 and still hands out no inode
\* below s_first_ino, whatever the number and the size of the groups.
THEOREM Ext4ReservedInodesKept == Ext4Spec => []ReservedInodesKept
<1>1. try_open => Reserved
  BY InodeInit DEF try_open, Reserved, ReservedInodesKept, Inodes!Init
<1>2. Reserved /\ [Ext4Next]_<<vars, inodeVars>> => Reserved'
  BY ReservedStep
<1>3. Reserved => ReservedInodesKept
  BY DEF Reserved
<1>4. QED
  BY <1>1, <1>2, <1>3, PTL DEF Ext4Spec

-------------------------------------------------------------------------------
\* Indirect files

\* Division with remainder.
LEMMA DivMod ==
  ASSUME NEW P \in Nat \ {0}, NEW r \in Nat
  PROVE  /\ r \div P \in Nat /\ r % P \in 0 .. P - 1
         /\ r = P * (r \div P) + (r % P)
OBVIOUS

\* The order of numbers is that of their quotients, then of their remainders.
LEMMA SplitOrder ==
  ASSUME NEW P \in Nat \ {0}, NEW g \in Nat, NEW h \in Nat,
         NEW b \in 0 .. P - 1, NEW c \in 0 .. P - 1
  PROVE  /\ g < h => P * g + b < P * h + c
         /\ P * g + b < P * h + c => g < h \/ (g = h /\ b < c)
<1>1. ASSUME NEW x \in Nat, NEW y \in Nat, x < y, NEW i \in 0 .. P - 1, NEW j \in 0 .. P - 1
      PROVE  P * x + i < P * y + j
  <2>1. PICK d \in Nat : y = x + 1 + d
    <3>1. y - x - 1 \in Nat
      BY <1>1
    <3>2. QED
      BY <3>1
  <2>2. P * y = P * x + P + P * d
    BY <2>1
  <2>3. P * d \in Nat /\ P * x \in Nat
    OBVIOUS
  <2>4. QED
    BY <2>2, <2>3
<1>2. g < h => P * g + b < P * h + c
  BY <1>1
<1>3. h < g => P * h + c < P * g + b
  BY <1>1
<1>4. P * g \in Nat /\ P * h \in Nat
  OBVIOUS
<1>5. QED
  BY <1>2, <1>3, <1>4

\* A number built from a quotient and a remainder has them.
LEMMA DivModOf ==
  ASSUME NEW P \in Nat \ {0}, NEW g \in Nat, NEW b \in 0 .. P - 1
  PROVE  /\ P * g + b \in Nat
         /\ (P * g + b) \div P = g
         /\ (P * g + b) % P = b
<1>1. P * g \in Nat
  OBVIOUS
<1>2. PICK r \in Nat : r = P * g + b
  BY <1>1
<1>3. PICK q \in Nat, m \in 0 .. P - 1 : q = r \div P /\ m = r % P /\ r = P * q + m
  BY DivMod
<1>4. ~(g < q) /\ ~(q < g)
  <2>1. g < q => P * g + b < P * q + m
    BY SplitOrder
  <2>2. q < g => P * q + m < P * g + b
    BY SplitOrder
  <2>3. P * q \in Nat
    OBVIOUS
  <2>4. QED
    BY <1>1, <1>2, <1>3, <2>1, <2>2, <2>3
<1>5. q = g
  BY <1>4
<1>6. m = b
  BY <1>1, <1>2, <1>3, <1>5
<1>7. QED
  BY <1>2, <1>3, <1>5, <1>6

\* A number has one quotient and one remainder.
LEMMA QuotientUnique ==
  ASSUME NEW P \in Nat \ {0}, NEW g \in Nat, NEW h \in Nat,
         NEW b \in 0 .. P - 1, NEW c \in 0 .. P - 1, P * g + b = P * h + c
  PROVE  g = h /\ b = c
<1>1. P * g \in Nat /\ P * h \in Nat
  OBVIOUS
<1>2. ~(g < h) /\ ~(h < g)
  <2>1. g < h => P * g + b < P * h + c
    BY SplitOrder
  <2>2. h < g => P * h + c < P * g + b
    BY SplitOrder
  <2>3. QED
    BY <1>1, <2>1, <2>2
<1>3. g = h
  BY <1>2
<1>4. QED
  BY <1>1, <1>3

\* A number below n blocks of P is in one of them.
LEMMA SplitBound ==
  ASSUME NEW P \in Nat \ {0}, NEW n \in Nat, NEW g \in Nat, NEW b \in 0 .. P - 1,
         P * g + b < P * n
  PROVE  g < n
<1>1. P * g + b < P * n + 0 => g < n
  <2>1. 0 \in 0 .. P - 1
    OBVIOUS
  <2>2. QED
    BY <2>1, SplitOrder
<1>2. P * n \in Nat
  OBVIOUS
<1>3. QED
  BY <1>1, <1>2

-------------------------------------------------------------------------------
\* A path into a tree: its root, then an index for every level.
LEMMA Prefixed ==
  ASSUME NEW r \in Nat, NEW n \in Nat, NEW p \in [1 .. n -> Index]
  PROVE  \E s \in Seq(Nat) :
            /\ s = <<r>> \o p /\ Len(s) = n + 1 /\ s[1] = r
            /\ \A i \in 1 .. n : s[i + 1] = p[i]
<1>1. Index \subseteq Nat
  BY IndirectAssumption DEF Index
<1>2. p \in [1 .. n -> Nat]
  BY <1>1
<1>3. p \in Seq(Nat) /\ Len(p) = n
  <2>1. p \in Seq(Nat)
    BY <1>2, SeqDef
  <2>2. DOMAIN p = 1 .. n /\ DOMAIN p = 1 .. Len(p) /\ Len(p) \in Nat
    BY <2>1, <1>2, LenProperties
  <2>3. QED
    BY <2>1, <2>2
<1>4. <<r>> \in Seq(Nat) /\ Len(<<r>>) = 1 /\ <<r>>[1] = r
  OBVIOUS
<1>5. /\ <<r>> \o p \in Seq(Nat)
      /\ Len(<<r>> \o p) = 1 + n
      /\ \A i \in 1 .. 1 + n : (<<r>> \o p)[i] = IF i <= 1 THEN <<r>>[i] ELSE p[i - 1]
  BY <1>3, <1>4, ConcatProperties
<1> DEFINE s == <<r>> \o p
<1> HIDE DEF s
<1>6. /\ s \in Seq(Nat) /\ Len(s) = 1 + n
      /\ \A i \in 1 .. 1 + n : s[i] = IF i <= 1 THEN <<r>>[i] ELSE p[i - 1]
  BY <1>5 DEF s
<1>7. Len(s) = n + 1 /\ s[1] = r
  BY <1>4, <1>6
<1>8. ASSUME NEW i \in 1 .. n PROVE s[i + 1] = p[i]
  BY <1>6
<1>9. s = <<r>> \o p
  BY DEF s
<1>10. QED
  BY <1>6, <1>7, <1>8, <1>9

\* Sequences of up to four numbers, by their elements.
LEMMA ShortSeq ==
  ASSUME NEW s \in Seq(Nat)
  PROVE  /\ Len(s) = 1 => s = <<s[1]>>
         /\ Len(s) = 2 => s = <<s[1], s[2]>>
         /\ Len(s) = 3 => s = <<s[1], s[2], s[3]>>
         /\ Len(s) = 4 => s = <<s[1], s[2], s[3], s[4]>>
<1>0. \A i \in 1 .. Len(s) : s[i] \in Nat
  BY ElementOfSeq
<1>1. ASSUME Len(s) = 1 PROVE s = <<s[1]>>
  <2>1. <<s[1]>> \in Seq(Nat)
    BY <1>0, <1>1
  <2>2. QED
    BY <1>1, <2>1, SeqEqual
<1>2. ASSUME Len(s) = 2 PROVE s = <<s[1], s[2]>>
  <2>1. <<s[1], s[2]>> \in Seq(Nat)
    BY <1>0, <1>2
  <2>2. QED
    BY <1>2, <2>1, SeqEqual
<1>3. ASSUME Len(s) = 3 PROVE s = <<s[1], s[2], s[3]>>
  <2>1. <<s[1], s[2], s[3]>> \in Seq(Nat)
    BY <1>0, <1>3
  <2>2. QED
    BY <1>3, <2>1, SeqEqual
<1>4. ASSUME Len(s) = 4 PROVE s = <<s[1], s[2], s[3], s[4]>>
  <2>1. <<s[1], s[2], s[3], s[4]>> \in Seq(Nat)
    BY <1>0, <1>4
  <2>2. QED
    BY <1>4, <2>1, SeqEqual
<1>5. QED
  BY <1>1, <1>2, <1>3, <1>4

\* The paths of the trees, written out.
LEMMA Paths ==
  ASSUME NEW r \in Nat, NEW q
  PROVE  /\ q \in Tree(r, 0) <=> q = <<r>>
         /\ q \in Tree(r, 1) <=> \E a \in Index : q = <<r, a>>
         /\ q \in Tree(r, 2) <=> \E a, b \in Index : q = <<r, a, b>>
         /\ q \in Tree(r, 3) <=> \E a, b, c \in Index : q = <<r, a, b, c>>
<1>1. q \in Tree(r, 0) <=> q = <<r>>
  <2>1. ASSUME NEW p \in [1 .. 0 -> Index] PROVE <<r>> \o p = <<r>>
    BY Prefixed, ShortSeq
  <2>2. << >> \in [1 .. 0 -> Index]
    OBVIOUS
  <2>3. QED
    BY <2>1, <2>2 DEF Tree
<1>2. q \in Tree(r, 1) <=> \E a \in Index : q = <<r, a>>
  <2>1. ASSUME NEW p \in [1 .. 1 -> Index] PROVE <<r>> \o p = <<r, p[1]>>
    <3>1. PICK s \in Seq(Nat) :
            /\ s = <<r>> \o p /\ Len(s) = 1 + 1 /\ s[1] = r
            /\ \A i \in 1 .. 1 : s[i + 1] = p[i]
      <4>1. 1 \in Nat
        OBVIOUS
      <4>2. QED
        BY <4>1, Prefixed, ZenonT(30)
    <3>2. s[2] = p[1]
      <4>1. s[1 + 1] = p[1]
        BY <3>1
      <4>2. QED
        BY <4>1
    <3>3. Len(s) = 2
      BY <3>1
    <3>4. QED
      BY <3>1, <3>2, <3>3, ShortSeq
  <2>2. ASSUME q \in Tree(r, 1) PROVE \E a \in Index : q = <<r, a>>
    <3>1. PICK p \in [1 .. 1 -> Index] : q = <<r>> \o p
      BY <2>2 DEF Tree
    <3>2. p[1] \in Index
      OBVIOUS
    <3>3. QED
      BY <2>1, <3>1, <3>2
  <2>3. ASSUME NEW a \in Index, q = <<r, a>> PROVE q \in Tree(r, 1)
    <3>1. <<a>> \in [1 .. 1 -> Index] /\ <<a>>[1] = a
      OBVIOUS
    <3>2. <<r>> \o <<a>> = <<r, a>>
      BY <2>1, <3>1
    <3>3. QED
      BY <2>3, <3>1, <3>2 DEF Tree
  <2>4. QED
    BY <2>2, <2>3
<1>3. q \in Tree(r, 2) <=> \E a, b \in Index : q = <<r, a, b>>
  <2>1. ASSUME NEW p \in [1 .. 2 -> Index] PROVE <<r>> \o p = <<r, p[1], p[2]>>
    <3>1. PICK s \in Seq(Nat) :
            /\ s = <<r>> \o p /\ Len(s) = 2 + 1 /\ s[1] = r
            /\ \A i \in 1 .. 2 : s[i + 1] = p[i]
      <4>1. 2 \in Nat
        OBVIOUS
      <4>2. QED
        BY <4>1, Prefixed, ZenonT(30)
    <3>2. s[2] = p[1] /\ s[3] = p[2]
      <4>1. s[1 + 1] = p[1] /\ s[2 + 1] = p[2]
        BY <3>1
      <4>2. QED
        BY <4>1
    <3>3. Len(s) = 3
      BY <3>1
    <3>4. QED
      BY <3>1, <3>2, <3>3, ShortSeq
  <2>2. ASSUME q \in Tree(r, 2) PROVE \E a, b \in Index : q = <<r, a, b>>
    <3>1. PICK p \in [1 .. 2 -> Index] : q = <<r>> \o p
      BY <2>2 DEF Tree
    <3>2. p[1] \in Index /\ p[2] \in Index
      OBVIOUS
    <3>3. QED
      BY <2>1, <3>1, <3>2
  <2>3. ASSUME NEW a \in Index, NEW b \in Index, q = <<r, a, b>> PROVE q \in Tree(r, 2)
    <3>1. <<a, b>> \in [1 .. 2 -> Index] /\ <<a, b>>[1] = a /\ <<a, b>>[2] = b
      OBVIOUS
    <3>2. <<r>> \o <<a, b>> = <<r, a, b>>
      BY <2>1, <3>1
    <3>3. QED
      BY <2>3, <3>1, <3>2 DEF Tree
  <2>4. QED
    BY <2>2, <2>3
<1>4. q \in Tree(r, 3) <=> \E a, b, c \in Index : q = <<r, a, b, c>>
  <2>1. ASSUME NEW p \in [1 .. 3 -> Index] PROVE <<r>> \o p = <<r, p[1], p[2], p[3]>>
    <3>1. PICK s \in Seq(Nat) :
            /\ s = <<r>> \o p /\ Len(s) = 3 + 1 /\ s[1] = r
            /\ \A i \in 1 .. 3 : s[i + 1] = p[i]
      <4>1. 3 \in Nat
        OBVIOUS
      <4>2. QED
        BY <4>1, Prefixed, ZenonT(30)
    <3>2. s[2] = p[1] /\ s[3] = p[2] /\ s[4] = p[3]
      <4>1. s[1 + 1] = p[1] /\ s[2 + 1] = p[2] /\ s[3 + 1] = p[3]
        BY <3>1
      <4>2. QED
        BY <4>1
    <3>3. Len(s) = 4
      BY <3>1
    <3>4. QED
      BY <3>1, <3>2, <3>3, ShortSeq
  <2>2. ASSUME q \in Tree(r, 3) PROVE \E a, b, c \in Index : q = <<r, a, b, c>>
    <3>1. PICK p \in [1 .. 3 -> Index] : q = <<r>> \o p
      BY <2>2 DEF Tree
    <3>2. p[1] \in Index /\ p[2] \in Index /\ p[3] \in Index
      OBVIOUS
    <3>3. QED
      BY <2>1, <3>1, <3>2
  <2>3. ASSUME NEW a \in Index, NEW b \in Index, NEW c \in Index, q = <<r, a, b, c>> PROVE q \in Tree(r, 3)
    <3>1. <<a, b, c>> \in [1 .. 3 -> Index] /\ <<a, b, c>>[1] = a /\ <<a, b, c>>[2] = b /\ <<a, b, c>>[3] = c
      OBVIOUS
    <3>2. <<r>> \o <<a, b, c>> = <<r, a, b, c>>
      BY <2>1, <3>1
    <3>3. QED
      BY <2>3, <3>1, <3>2 DEF Tree
  <2>4. QED
    BY <2>2, <2>3
<1>5. QED
  BY <1>1, <1>2, <1>3, <1>4

-------------------------------------------------------------------------------
\* Block l of the file is the one at path p: of the direct blocks, of the
\* single, the double and the triple indirect tree.
AtDirect(l, p) == l \in 0 .. Direct - 1 /\ p = <<l>>
AtSingle(l, p) == \E a \in Index : l = Direct + a /\ p = <<Direct, a>>
AtDouble(l, p) ==
    \E a, b \in Index : l = Direct + Ptrs + (Ptrs * a + b) /\ p = <<Direct + 1, a, b>>
AtTriple(l, p) ==
    \E a, b, c \in Index :
        /\ l = Direct + Ptrs + Ptrs * Ptrs + ((Ptrs * Ptrs) * a + (Ptrs * b + c))
        /\ p = <<Direct + 2, a, b, c>>
At(l, p) == AtDirect(l, p) \/ AtSingle(l, p) \/ AtDouble(l, p) \/ AtTriple(l, p)

\* The numbers of two and of three levels of a tree.
LEMMA Levels ==
  ASSUME NEW a \in Index, NEW b \in Index, NEW c \in Index
  PROVE  /\ Ptrs * Ptrs \in Nat \ {0}
         /\ Ptrs * b + c \in 0 .. Ptrs * Ptrs - 1
         /\ (Ptrs * Ptrs) * a + (Ptrs * b + c) \in 0 .. Ptrs * Ptrs * Ptrs - 1
<1>1. Ptrs \in Nat \ {0} /\ a \in Nat /\ a < Ptrs /\ b \in Nat /\ b < Ptrs /\ c \in 0 .. Ptrs - 1
  BY IndirectAssumption DEF Index
<1>2. Ptrs * Ptrs \in Nat \ {0}
  BY <1>1
<1>3. Ptrs * b + c \in 0 .. Ptrs * Ptrs - 1
  <2>1. Ptrs * b + c < Ptrs * Ptrs + 0
    BY <1>1, SplitOrder
  <2>2. Ptrs * b \in Nat
    BY <1>1
  <2>3. QED
    BY <1>1, <1>2, <2>1, <2>2
<1>4. PICK S \in Nat \ {0} : S = Ptrs * Ptrs
  BY <1>2
<1>5. PICK r \in 0 .. S - 1 : r = Ptrs * b + c
  BY <1>3, <1>4
<1>6. S * a + r \in 0 .. S * Ptrs - 1
  <2>1. S * a + r < S * Ptrs + 0
    BY <1>1, SplitOrder
  <2>2. S * a \in Nat /\ S * Ptrs \in Nat
    BY <1>1
  <2>3. QED
    BY <2>1, <2>2
<1>7. QED
  BY <1>2, <1>3, <1>4, <1>5, <1>6

\* The places are the blocks of the file and the paths to data.
LEMMA PlacesAreData ==
  ASSUME NEW l, NEW p, At(l, p)
  PROVE  l \in 0 .. Capacity - 1 /\ p \in DataPath
<1> USE IndirectAssumption
<1>0. PICK S \in Nat \ {0}, T \in Nat : S = Ptrs * Ptrs /\ T = Ptrs * Ptrs * Ptrs
  OBVIOUS
<1>1. CASE AtDirect(l, p)
  BY <1>0, <1>1 DEF AtDirect, DataPath, Capacity
<1>2. CASE AtSingle(l, p)
  <2>1. PICK a \in Index : l = Direct + a /\ p = <<Direct, a>>
    BY <1>2 DEF AtSingle
  <2>2. p \in Tree(Direct, 1)
    BY <2>1, Paths
  <2>3. QED
    BY <1>0, <2>1, <2>2 DEF DataPath, Capacity, Index
<1>3. CASE AtDouble(l, p)
  <2>1. PICK a \in Index, b \in Index :
            l = Direct + Ptrs + (Ptrs * a + b) /\ p = <<Direct + 1, a, b>>
    BY <1>3 DEF AtDouble
  <2>2. p \in Tree(Direct + 1, 2)
    BY <2>1, Paths
  <2>3. PICK r \in 0 .. S - 1 : r = Ptrs * a + b
    BY <1>0, Levels
  <2>4. QED
    BY <1>0, <2>1, <2>2, <2>3 DEF DataPath, Capacity
<1>4. CASE AtTriple(l, p)
  <2>1. PICK a \in Index, b \in Index, c \in Index :
            /\ l = Direct + Ptrs + Ptrs * Ptrs + ((Ptrs * Ptrs) * a + (Ptrs * b + c))
            /\ p = <<Direct + 2, a, b, c>>
    BY <1>4 DEF AtTriple
  <2>2. p \in Tree(Direct + 2, 3)
    BY <2>1, Paths
  <2>3. PICK r \in 0 .. T - 1 : r = (Ptrs * Ptrs) * a + (Ptrs * b + c)
    BY <1>0, Levels
  <2>4. QED
    BY <1>0, <2>1, <2>2, <2>3 DEF DataPath, Capacity
<1>5. QED
  BY <1>1, <1>2, <1>3, <1>4 DEF At

\* Every path to data is the place of a block.
LEMMA DataHasPlace ==
  ASSUME NEW p \in DataPath
  PROVE  \E l : At(l, p)
<1> USE IndirectAssumption
<1>1. CASE p \in {<<r>> : r \in 0 .. Direct - 1}
  BY <1>1 DEF At, AtDirect
<1>2. CASE p \in Tree(Direct, 1)
  BY <1>2, Paths DEF At, AtSingle
<1>3. CASE p \in Tree(Direct + 1, 2)
  BY <1>3, Paths DEF At, AtDouble
<1>4. CASE p \in Tree(Direct + 2, 3)
  BY <1>4, Paths DEF At, AtTriple
<1>5. QED
  BY <1>1, <1>2, <1>3, <1>4 DEF DataPath

\* The ranges of the four parts.
LEMMA PartOf ==
  ASSUME NEW l, NEW p, At(l, p)
  PROVE  /\ l \in Nat /\ Len(p) \in Nat /\ Len(p) >= 1
         /\ AtDirect(l, p) => l < Direct /\ p[1] = l
         /\ AtSingle(l, p) => Direct <= l /\ l < Direct + Ptrs /\ p[1] = Direct
         /\ AtDouble(l, p) => /\ Direct + Ptrs <= l /\ l < Direct + Ptrs + Ptrs * Ptrs
                              /\ p[1] = Direct + 1
         /\ AtTriple(l, p) => Direct + Ptrs + Ptrs * Ptrs <= l /\ p[1] = Direct + 2
<1> USE IndirectAssumption
<1>0. PICK S \in Nat \ {0} : S = Ptrs * Ptrs
  OBVIOUS
<1>1. l \in Nat
  <2>1. l \in 0 .. Capacity - 1
    BY PlacesAreData
  <2>2. QED
    BY <2>1
<1>2. ASSUME AtDirect(l, p)
      PROVE  l < Direct /\ p[1] = l /\ Len(p) = 1
  BY <1>2 DEF AtDirect
<1>3. ASSUME AtSingle(l, p)
      PROVE  Direct <= l /\ l < Direct + Ptrs /\ p[1] = Direct /\ Len(p) = 2
  BY <1>3 DEF AtSingle, Index
<1>4. ASSUME AtDouble(l, p)
      PROVE  /\ Direct + Ptrs <= l /\ l < Direct + Ptrs + S
             /\ p[1] = Direct + 1 /\ Len(p) = 3
  <2>1. PICK a \in Index, b \in Index :
            l = Direct + Ptrs + (Ptrs * a + b) /\ p = <<Direct + 1, a, b>>
    BY <1>4 DEF AtDouble
  <2>2. PICK r \in 0 .. S - 1 : r = Ptrs * a + b
    BY <1>0, Levels
  <2>3. QED
    BY <2>1, <2>2
<1>5. ASSUME AtTriple(l, p)
      PROVE  Direct + Ptrs + S <= l /\ p[1] = Direct + 2 /\ Len(p) = 4
  <2>1. PICK a \in Index, b \in Index, c \in Index :
            /\ l = Direct + Ptrs + Ptrs * Ptrs + ((Ptrs * Ptrs) * a + (Ptrs * b + c))
            /\ p = <<Direct + 2, a, b, c>>
    BY <1>5 DEF AtTriple
  <2>2. PICK r \in Nat : r = (Ptrs * Ptrs) * a + (Ptrs * b + c)
    BY Levels
  <2>3. QED
    BY <1>0, <2>1, <2>2
<1>6. QED
  BY <1>0, <1>1, <1>2, <1>3, <1>4, <1>5 DEF At

\* The order of the blocks is the order of their paths on disk.
LEMMA PlacesOrdered ==
  ASSUME NEW k, NEW l, NEW p, NEW q, At(k, p), At(l, q), k < l
  PROVE  Before(p, q)
<1> USE IndirectAssumption
<1>0. PICK S \in Nat \ {0} : S = Ptrs * Ptrs
  OBVIOUS
<1>1. CASE p[1] < q[1]
  <2>1. 1 \in 1 .. Len(p) /\ 1 <= Len(q)
    BY PartOf
  <2>2. \A j \in 1 .. 1 - 1 : p[j] = q[j]
    OBVIOUS
  <2>3. QED
    BY <1>1, <2>1, <2>2, Zenon DEF Before
<1>2. CASE AtSingle(k, p) /\ AtSingle(l, q)
  <2>1. PICK a \in Index : k = Direct + a /\ p = <<Direct, a>>
    BY <1>2 DEF AtSingle
  <2>2. PICK c \in Index : l = Direct + c /\ q = <<Direct, c>>
    BY <1>2 DEF AtSingle
  <2>3. a < c
    BY <2>1, <2>2 DEF Index
  <2>4. 2 \in 1 .. Len(p) /\ 2 <= Len(q) /\ p[2] < q[2] /\ \A j \in 1 .. 2 - 1 : p[j] = q[j]
    BY <2>1, <2>2, <2>3
  <2>5. QED
    BY <2>4, Zenon DEF Before
<1>3. CASE AtDouble(k, p) /\ AtDouble(l, q)
  <2>1. PICK a \in Index, b \in Index :
            k = Direct + Ptrs + (Ptrs * a + b) /\ p = <<Direct + 1, a, b>>
    BY <1>3 DEF AtDouble
  <2>2. PICK c \in Index, d \in Index :
            l = Direct + Ptrs + (Ptrs * c + d) /\ q = <<Direct + 1, c, d>>
    BY <1>3 DEF AtDouble
  <2>3. a < c \/ (a = c /\ b < d)
    <3>1. Ptrs * a + b \in Nat /\ Ptrs * c + d \in Nat
      BY Levels
    <3>2. Ptrs * a + b < Ptrs * c + d
      BY <2>1, <2>2, <3>1
    <3>3. QED
      BY <3>2, SplitOrder DEF Index
  <2>4. CASE a < c
    <3>1. 2 \in 1 .. Len(p) /\ 2 <= Len(q) /\ p[2] < q[2] /\ \A j \in 1 .. 2 - 1 : p[j] = q[j]
      BY <2>1, <2>2, <2>4
    <3>2. QED
      BY <3>1, Zenon DEF Before
  <2>5. CASE a = c /\ b < d
    <3>1. 3 \in 1 .. Len(p) /\ 3 <= Len(q) /\ p[3] < q[3] /\ \A j \in 1 .. 3 - 1 : p[j] = q[j]
      BY <2>1, <2>2, <2>5
    <3>2. QED
      BY <3>1, Zenon DEF Before
  <2>6. QED
    BY <2>3, <2>4, <2>5
<1>4. CASE AtTriple(k, p) /\ AtTriple(l, q)
  <2>1. PICK a \in Index, b \in Index, c \in Index :
            /\ k = Direct + Ptrs + Ptrs * Ptrs + ((Ptrs * Ptrs) * a + (Ptrs * b + c))
            /\ p = <<Direct + 2, a, b, c>>
    BY <1>4 DEF AtTriple
  <2>2. PICK d \in Index, e \in Index, f \in Index :
            /\ l = Direct + Ptrs + Ptrs * Ptrs + ((Ptrs * Ptrs) * d + (Ptrs * e + f))
            /\ q = <<Direct + 2, d, e, f>>
    BY <1>4 DEF AtTriple
  <2>3. PICK r \in 0 .. S - 1, t \in 0 .. S - 1 : r = Ptrs * b + c /\ t = Ptrs * e + f
    BY <1>0, Levels
  <2>4. a < d \/ (a = d /\ r < t)
    <3>1. S * a + r \in Nat /\ S * d + t \in Nat
      BY DEF Index
    <3>2. S * a + r < S * d + t
      BY <1>0, <2>1, <2>2, <2>3, <3>1
    <3>3. QED
      BY <3>2, SplitOrder DEF Index
  <2>5. r < t => b < e \/ (b = e /\ c < f)
    BY <2>3, SplitOrder DEF Index
  <2>6. CASE a < d
    <3>1. 2 \in 1 .. Len(p) /\ 2 <= Len(q) /\ p[2] < q[2] /\ \A j \in 1 .. 2 - 1 : p[j] = q[j]
      BY <2>1, <2>2, <2>6
    <3>2. QED
      BY <3>1, Zenon DEF Before
  <2>7. CASE a = d /\ b < e
    <3>1. 3 \in 1 .. Len(p) /\ 3 <= Len(q) /\ p[3] < q[3] /\ \A j \in 1 .. 3 - 1 : p[j] = q[j]
      BY <2>1, <2>2, <2>7
    <3>2. QED
      BY <3>1, Zenon DEF Before
  <2>8. CASE a = d /\ b = e /\ c < f
    <3>1. 4 \in 1 .. Len(p) /\ 4 <= Len(q) /\ p[4] < q[4] /\ \A j \in 1 .. 4 - 1 : p[j] = q[j]
      BY <2>1, <2>2, <2>8
    <3>2. QED
      BY <3>1, Zenon DEF Before
  <2>9. QED
    BY <2>4, <2>5, <2>6, <2>7, <2>8
<1>5. QED
  BY <1>0, <1>1, <1>2, <1>3, <1>4, PartOf DEF At

\* The order on disk is strict.
LEMMA BeforeStrict ==
  ASSUME NEW p \in DataPath, NEW q \in DataPath, Before(p, q)
  PROVE  p # q /\ ~Before(q, p)
<1>0. /\ Len(p) \in Nat /\ Len(q) \in Nat
      /\ \A i \in 1 .. Len(p) : p[i] \in Int
      /\ \A i \in 1 .. Len(q) : q[i] \in Int
  <2>1. ASSUME NEW r \in DataPath
        PROVE  Len(r) \in Nat /\ \A i \in 1 .. Len(r) : r[i] \in Int
    <3>1. PICK l : At(l, r)
      BY DataHasPlace
    <3>2. QED
      BY <3>1, IndirectAssumption DEF At, AtDirect, AtSingle, AtDouble, AtTriple, Index
  <2>2. QED
    BY <2>1
<1>1. PICK i \in 1 .. Len(p) :
         i <= Len(q) /\ p[i] < q[i] /\ \A j \in 1 .. i - 1 : p[j] = q[j]
  BY DEF Before
<1>2. p # q
  BY <1>0, <1>1
<1>3. ASSUME NEW k \in 1 .. Len(q), k <= Len(p), q[k] < p[k],
             \A j \in 1 .. k - 1 : q[j] = p[j]
      PROVE  FALSE
  <2>1. ~(k < i) /\ ~(i < k)
    BY <1>0, <1>1, <1>3
  <2>2. QED
    BY <1>0, <1>1, <1>3, <2>1
<1>4. QED
  BY <1>2, <1>3 DEF Before

\* The largest file.
LEMMA CapacityType == Capacity \in Nat
BY IndirectAssumption DEF Capacity

\* Every block of the file has a place.
LEMMA BlockHasPlace ==
  ASSUME NEW l \in 0 .. Capacity - 1
  PROVE  \E p : At(l, p)
<1> USE IndirectAssumption
<1>0. PICK S \in Nat \ {0} : S = Ptrs * Ptrs
  OBVIOUS
<1>1. l \in Nat /\ l < Direct + Ptrs + S + S * Ptrs
  BY <1>0 DEF Capacity
<1>2. CASE l < Direct
  <2>1. AtDirect(l, <<l>>)
    BY <1>1, <1>2 DEF AtDirect
  <2>2. QED
    BY <2>1 DEF At
<1>3. CASE Direct <= l /\ l < Direct + Ptrs
  <2>1. l - Direct \in Index /\ l = Direct + (l - Direct)
    BY <1>1, <1>3 DEF Index
  <2>2. QED
    BY <2>1 DEF At, AtSingle
<1>4. CASE Direct + Ptrs <= l /\ l < Direct + Ptrs + S
  <2>1. PICK m \in Nat : l = Direct + Ptrs + m
    <3>1. l - Direct - Ptrs \in Nat
      BY <1>1, <1>4
    <3>2. QED
      BY <1>1, <3>1
  <2>2. m < Ptrs * Ptrs
    BY <1>0, <1>4, <2>1
  <2>3. PICK a \in Nat, b \in 0 .. Ptrs - 1 :
            a = m \div Ptrs /\ b = m % Ptrs /\ m = Ptrs * a + b
    BY DivMod
  <2>4. a \in Index /\ b \in Index
    <3>1. a < Ptrs
      BY <2>2, <2>3, SplitBound
    <3>2. QED
      BY <3>1 DEF Index
  <2>5. QED
    BY <2>1, <2>3, <2>4 DEF At, AtDouble
<1>5. CASE Direct + Ptrs + S <= l
  <2>1. PICK m \in Nat : l = Direct + Ptrs + S + m
    <3>1. l - Direct - Ptrs - S \in Nat
      BY <1>1, <1>5
    <3>2. QED
      BY <1>1, <3>1
  <2>2. m < S * Ptrs
    <3>1. S * Ptrs \in Nat
      OBVIOUS
    <3>2. QED
      BY <1>1, <2>1, <3>1
  <2>3. PICK a \in Nat, r \in 0 .. S - 1 : a = m \div S /\ r = m % S /\ m = S * a + r
    BY DivMod
  <2>4. PICK b \in Nat, c \in 0 .. Ptrs - 1 :
            b = r \div Ptrs /\ c = r % Ptrs /\ r = Ptrs * b + c
    BY DivMod
  <2>5. a \in Index
    <3>1. a < Ptrs
      BY <2>2, <2>3, SplitBound
    <3>2. QED
      BY <3>1 DEF Index
  <2>6. b \in Index /\ c \in Index
    <3>1. r < Ptrs * Ptrs
      BY <1>0
    <3>2. b < Ptrs
      BY <2>4, <3>1, SplitBound
    <3>3. QED
      BY <3>2 DEF Index
  <2>7. QED
    BY <1>0, <2>1, <2>3, <2>4, <2>5, <2>6, ZenonT(40) DEF At, AtTriple
<1>6. QED
  BY <1>1, <1>2, <1>3, <1>4, <1>5

\* A block has one place: two places in one part that differ are in order.
LEMMA PlaceUnique ==
  ASSUME NEW l, NEW p, NEW q, At(l, p), At(l, q)
  PROVE  p = q
<1> USE IndirectAssumption
<1>0. PICK S \in Nat \ {0} : S = Ptrs * Ptrs
  OBVIOUS
<1>1. CASE AtDirect(l, p) /\ AtDirect(l, q)
  BY <1>1 DEF AtDirect
<1>2. CASE AtSingle(l, p) /\ AtSingle(l, q)
  BY <1>2 DEF AtSingle, Index
<1>3. CASE AtDouble(l, p) /\ AtDouble(l, q)
  <2>1. PICK a \in Index, b \in Index :
            l = Direct + Ptrs + (Ptrs * a + b) /\ p = <<Direct + 1, a, b>>
    BY <1>3 DEF AtDouble
  <2>2. PICK c \in Index, d \in Index :
            l = Direct + Ptrs + (Ptrs * c + d) /\ q = <<Direct + 1, c, d>>
    BY <1>3 DEF AtDouble
  <2>3. Ptrs * a + b \in Nat /\ Ptrs * c + d \in Nat
    BY Levels
  <2>4. Ptrs * a + b = Ptrs * c + d
    BY <2>1, <2>2, <2>3
  <2>5. a = c /\ b = d
    <3>1. a \in Nat /\ c \in Nat /\ b \in 0 .. Ptrs - 1 /\ d \in 0 .. Ptrs - 1
      BY DEF Index
    <3>2. QED
      BY <2>4, <3>1, QuotientUnique
  <2>6. QED
    BY <2>1, <2>2, <2>5
<1>4. CASE AtTriple(l, p) /\ AtTriple(l, q)
  <2>1. PICK a \in Index, b \in Index, c \in Index :
            /\ l = Direct + Ptrs + Ptrs * Ptrs + ((Ptrs * Ptrs) * a + (Ptrs * b + c))
            /\ p = <<Direct + 2, a, b, c>>
    BY <1>4 DEF AtTriple
  <2>2. PICK d \in Index, e \in Index, f \in Index :
            /\ l = Direct + Ptrs + Ptrs * Ptrs + ((Ptrs * Ptrs) * d + (Ptrs * e + f))
            /\ q = <<Direct + 2, d, e, f>>
    BY <1>4 DEF AtTriple
  <2>3. PICK r \in 0 .. S - 1, t \in 0 .. S - 1 : r = Ptrs * b + c /\ t = Ptrs * e + f
    BY <1>0, Levels
  <2>4. a \in Nat /\ b \in Nat /\ d \in Nat /\ e \in Nat /\ c \in 0 .. Ptrs - 1 /\ f \in 0 .. Ptrs - 1
    BY DEF Index
  <2>5. S * a + r = S * d + t
    <3>1. S * a + r \in Nat /\ S * d + t \in Nat
      BY <2>4
    <3>2. QED
      BY <1>0, <2>1, <2>2, <2>3, <3>1
  <2>6. a = d /\ r = t
    BY <2>4, <2>5, QuotientUnique
  <2>7. b = e /\ c = f
    BY <2>3, <2>4, <2>6, QuotientUnique
  <2>8. QED
    BY <2>1, <2>2, <2>6, <2>7
<1>5. QED
  BY <1>0, <1>1, <1>2, <1>3, <1>4, PartOf DEF At

\* Block l of the layout is the one at path p: the blocks before it are at the
\* paths before p.
LEMMA PlacesAreLayout ==
  ASSUME NEW l, NEW p, At(l, p)
  PROVE  layout[l] = p
<1>1. l \in 0 .. Capacity - 1 /\ p \in DataPath /\ l \in Nat
  BY PlacesAreData, PartOf
<1> DEFINE before(q) == {x \in DataPath : Before(x, q)}
<1>2. ASSUME NEW m, NEW q, At(m, q)
      PROVE  Cardinality(before(q)) = m
  <2>1. m \in Nat /\ m \in 0 .. Capacity - 1 /\ q \in DataPath
    BY <1>2, PartOf, PlacesAreData
  <2>2. ASSUME NEW k \in 0 .. m PROVE \E x : At(k, x)
    <3>1. k \in 0 .. Capacity - 1
      BY <2>1, CapacityType
    <3>2. QED
      BY <3>1, BlockHasPlace
  <2> DEFINE f == [i \in 1 .. m |-> CHOOSE x : At(i - 1, x)]
  <2>3. ASSUME NEW i \in 1 .. m PROVE At(i - 1, f[i])
    <3>1. i - 1 \in 0 .. m
      BY <2>1
    <3>2. \E x : At(i - 1, x)
      BY <2>2, <3>1
    <3>3. At(i - 1, CHOOSE x : At(i - 1, x))
      BY <3>2
    <3>4. QED
      BY <3>3
  <2> HIDE DEF f
  <2>4. ASSUME NEW i \in 1 .. m PROVE f[i] \in before(q)
    <3>1. At(i - 1, f[i]) /\ i - 1 < m
      BY <2>1, <2>3
    <3>2. QED
      BY <1>2, <3>1, PlacesAreData, PlacesOrdered
  <2>5. ASSUME NEW i \in 1 .. m, NEW j \in 1 .. m, f[i] = f[j] PROVE i = j
    <3>1. At(i - 1, f[i]) /\ At(j - 1, f[j])
      BY <2>3
    <3>2. ~(i - 1 < j - 1) /\ ~(j - 1 < i - 1)
      BY <2>5, <3>1, PlacesAreData, PlacesOrdered, BeforeStrict
    <3>3. QED
      BY <2>1, <3>2
  <2>6. ASSUME NEW x \in before(q) PROVE \E i \in 1 .. m : f[i] = x
    <3>1. PICK k : At(k, x)
      BY DataHasPlace
    <3>2. k \in Nat
      BY <3>1, PartOf
    <3>3. ~(m < k) /\ k # m
      <4>1. ~Before(q, x) /\ x # q
        BY <2>1, BeforeStrict
      <4>2. ~(m < k)
        BY <1>2, <3>1, <4>1, PlacesOrdered
      <4>3. k # m
        BY <1>2, <3>1, <4>1, PlaceUnique
      <4>4. QED
        BY <4>2, <4>3
    <3>4. k + 1 \in 1 .. m /\ (k + 1) - 1 = k
      BY <2>1, <3>2, <3>3
    <3>5. At(k, f[k + 1])
      BY <2>3, <3>4
    <3>6. f[k + 1] = x
      BY <3>1, <3>5, PlaceUnique
    <3>7. QED
      BY <3>4, <3>6
  <2>7. f \in Bijection(1 .. m, before(q))
    <3>1. f \in [1 .. m -> before(q)]
      BY <2>4 DEF f
    <3>2. QED
      BY <2>5, <2>6, <3>1 DEF Bijection, Injection, Surjection, IsInjective
  <2>8. QED
    BY <2>1, <2>7, FS_CountingElements DEF ExistsBijection
<1>3. ASSUME NEW q \in DataPath, Cardinality(before(q)) = l
      PROVE  q = p
  <2>1. PICK m : At(m, q)
    BY DataHasPlace
  <2>2. m = l
    BY <1>2, <1>3, <2>1
  <2>3. QED
    BY <2>1, <2>2, PlaceUnique
<1>4. Cardinality(before(p)) = l
  BY <1>2
<1>5. (CHOOSE q \in DataPath : Cardinality(before(q)) = l) = p
  BY <1>1, <1>3, <1>4
<1>6. QED
  BY <1>1, <1>5 DEF layout

-------------------------------------------------------------------------------
\* The beginnings of a path.
LEMMA Prefixes ==
  ASSUME NEW s \in Seq(Nat)
  PROVE  /\ Len(s) >= 1 => SubSeq(s, 1, 1) = <<s[1]>>
         /\ Len(s) >= 2 => SubSeq(s, 1, 2) = <<s[1], s[2]>>
         /\ Len(s) >= 3 => SubSeq(s, 1, 3) = <<s[1], s[2], s[3]>>
         /\ Len(s) >= 4 => SubSeq(s, 1, 4) = <<s[1], s[2], s[3], s[4]>>
<1>1. ASSUME NEW n \in 1 .. 4, n <= Len(s)
      PROVE  \E t \in Seq(Nat) :
                t = SubSeq(s, 1, n) /\ Len(t) = n /\ \A i \in 1 .. n : t[i] = s[i]
  <2>1. \A i \in 1 .. n : s[i] \in Nat
    BY <1>1, ElementOfSeq
  <2>2. /\ SubSeq(s, 1, n) \in Seq(Nat)
        /\ Len(SubSeq(s, 1, n)) = IF 1 <= n THEN n - 1 + 1 ELSE 0
        /\ \A i \in 1 .. n - 1 + 1 : SubSeq(s, 1, n)[i] = s[1 + i - 1]
    <3>1. 1 \in Int /\ n \in Int
      OBVIOUS
    <3>2. QED
      BY <2>1, <3>1, SubSeqProperties
  <2> DEFINE t == SubSeq(s, 1, n)
  <2> HIDE DEF t
  <2>3. /\ t \in Seq(Nat) /\ Len(t) = IF 1 <= n THEN n - 1 + 1 ELSE 0
        /\ \A i \in 1 .. n - 1 + 1 : t[i] = s[1 + i - 1]
    BY <2>2 DEF t
  <2>4. t \in Seq(Nat) /\ Len(t) = n /\ \A i \in 1 .. n : t[i] = s[i]
    <3>1. n - 1 + 1 = n /\ 1 <= n /\ \A i \in 1 .. n : 1 + i - 1 = i
      OBVIOUS
    <3>2. QED
      BY <2>3, <3>1
  <2>5. t = SubSeq(s, 1, n)
    BY DEF t
  <2>6. QED
    BY <2>4, <2>5
<1>2. ASSUME Len(s) >= 1 PROVE SubSeq(s, 1, 1) = <<s[1]>>
  <2>1. PICK t \in Seq(Nat) : t = SubSeq(s, 1, 1) /\ Len(t) = 1 /\ \A i \in 1 .. 1 : t[i] = s[i]
    BY <1>1, <1>2
  <2>2. t = <<t[1]>>
    BY <2>1, ShortSeq
  <2>3. t[1] = s[1]
    BY <2>1
  <2>4. QED
    BY <2>1, <2>2, <2>3
<1>3. ASSUME Len(s) >= 2 PROVE SubSeq(s, 1, 2) = <<s[1], s[2]>>
  <2>1. PICK t \in Seq(Nat) : t = SubSeq(s, 1, 2) /\ Len(t) = 2 /\ \A i \in 1 .. 2 : t[i] = s[i]
    BY <1>1, <1>3
  <2>2. t = <<t[1], t[2]>>
    BY <2>1, ShortSeq
  <2>3. t[1] = s[1] /\ t[2] = s[2]
    BY <2>1
  <2>4. QED
    BY <2>1, <2>2, <2>3
<1>4. ASSUME Len(s) >= 3 PROVE SubSeq(s, 1, 3) = <<s[1], s[2], s[3]>>
  <2>1. PICK t \in Seq(Nat) : t = SubSeq(s, 1, 3) /\ Len(t) = 3 /\ \A i \in 1 .. 3 : t[i] = s[i]
    BY <1>1, <1>4
  <2>2. t = <<t[1], t[2], t[3]>>
    BY <2>1, ShortSeq
  <2>3. t[1] = s[1] /\ t[2] = s[2] /\ t[3] = s[3]
    BY <2>1
  <2>4. QED
    BY <2>1, <2>2, <2>3
<1>5. ASSUME Len(s) >= 4 PROVE SubSeq(s, 1, 4) = <<s[1], s[2], s[3], s[4]>>
  <2>1. PICK t \in Seq(Nat) : t = SubSeq(s, 1, 4) /\ Len(t) = 4 /\ \A i \in 1 .. 4 : t[i] = s[i]
    BY <1>1, <1>5
  <2>2. t = <<t[1], t[2], t[3], t[4]>>
    BY <2>1, ShortSeq
  <2>3. t[1] = s[1] /\ t[2] = s[2] /\ t[3] = s[3] /\ t[4] = s[4]
    BY <2>1
  <2>4. QED
    BY <2>1, <2>2, <2>3
<1>6. QED
  BY <1>2, <1>3, <1>4, <1>5

\* A null pointer on the way to the block at path p.
cut_off(p) == \E i \in 1 .. Len(p) : SubSeq(p, 1, i) \in holes

\* The blocks of pointers on the way to data, none of which is pointer 0.
LEMMA NodesOnTheWay ==
  ASSUME NEW a \in Index, NEW b \in Index, NEW c \in Index
  PROVE  /\ <<Direct>> # Null /\ <<Direct + 1>> # Null /\ <<Direct + 2>> # Null
         /\ <<Direct, a>> # Null
         /\ <<Direct + 1, a>> # Null /\ <<Direct + 1, a, b>> # Null
         /\ <<Direct + 2, a>> # Null /\ <<Direct + 2, a, b>> # Null
         /\ <<Direct + 2, a, b, c>> # Null
<1>1. Direct \in Nat /\ Direct + 1 \in Nat /\ Direct + 2 \in Nat
  BY IndirectAssumption
<1>2. /\ <<Direct>> \in Tree(Direct, 0) /\ <<Direct + 1>> \in Tree(Direct + 1, 0)
      /\ <<Direct + 2>> \in Tree(Direct + 2, 0)
  BY <1>1, Paths
<1>3. /\ <<Direct, a>> \in Tree(Direct, 1) /\ <<Direct + 1, a>> \in Tree(Direct + 1, 1)
      /\ <<Direct + 2, a>> \in Tree(Direct + 2, 1)
  BY <1>1, Paths
<1>4. <<Direct + 1, a, b>> \in Tree(Direct + 1, 2) /\ <<Direct + 2, a, b>> \in Tree(Direct + 2, 2)
  BY <1>1, Paths
<1>5. <<Direct + 2, a, b, c>> \in Tree(Direct + 2, 3)
  BY <1>1, Paths
<1>6. QED
  BY <1>2, <1>3, <1>4, <1>5, NullAssumption DEF DataPath, NodePath

\* Which beginnings of a path of up to four pointers are null.
LEMMA CutOff ==
  ASSUME NEW p \in Seq(Nat)
  PROVE  /\ Len(p) = 1 => (cut_off(p) <=> <<p[1]>> \in holes)
         /\ Len(p) = 2 => (cut_off(p) <=> <<p[1]>> \in holes \/ <<p[1], p[2]>> \in holes)
         /\ Len(p) = 3 => (cut_off(p) <=> \/ <<p[1]>> \in holes \/ <<p[1], p[2]>> \in holes
                                          \/ <<p[1], p[2], p[3]>> \in holes)
         /\ Len(p) = 4 => (cut_off(p) <=> \/ <<p[1]>> \in holes \/ <<p[1], p[2]>> \in holes
                                          \/ <<p[1], p[2], p[3]>> \in holes
                                          \/ <<p[1], p[2], p[3], p[4]>> \in holes)
<1>1. ASSUME Len(p) = 1
      PROVE  cut_off(p) <=> <<p[1]>> \in holes
  <2>1. cut_off(p) <=> SubSeq(p, 1, 1) \in holes
    BY <1>1 DEF cut_off
  <2>2. Len(p) >= 1
    BY <1>1
  <2>3. /\ SubSeq(p, 1, 1) = <<p[1]>>
    BY <2>2, Prefixes, Zenon
  <2>4. QED
    BY <2>1, <2>3, Zenon
<1>2. ASSUME Len(p) = 2
      PROVE  cut_off(p) <=> \/ <<p[1]>> \in holes
                            \/ <<p[1], p[2]>> \in holes
  <2>1. cut_off(p) <=> SubSeq(p, 1, 1) \in holes \/ SubSeq(p, 1, 2) \in holes
    BY <1>2 DEF cut_off
  <2>2. Len(p) >= 1 /\ Len(p) >= 2
    BY <1>2
  <2>3. /\ SubSeq(p, 1, 1) = <<p[1]>>
        /\ SubSeq(p, 1, 2) = <<p[1], p[2]>>
    BY <2>2, Prefixes, Zenon
  <2>4. QED
    BY <2>1, <2>3, Zenon
<1>3. ASSUME Len(p) = 3
      PROVE  cut_off(p) <=> \/ <<p[1]>> \in holes
                            \/ <<p[1], p[2]>> \in holes
                            \/ <<p[1], p[2], p[3]>> \in holes
  <2>1. cut_off(p) <=> SubSeq(p, 1, 1) \in holes \/ SubSeq(p, 1, 2) \in holes \/ SubSeq(p, 1, 3) \in holes
    BY <1>3 DEF cut_off
  <2>2. Len(p) >= 1 /\ Len(p) >= 2 /\ Len(p) >= 3
    BY <1>3
  <2>3. /\ SubSeq(p, 1, 1) = <<p[1]>>
        /\ SubSeq(p, 1, 2) = <<p[1], p[2]>>
        /\ SubSeq(p, 1, 3) = <<p[1], p[2], p[3]>>
    BY <2>2, Prefixes, Zenon
  <2>4. QED
    BY <2>1, <2>3, Zenon
<1>4. ASSUME Len(p) = 4
      PROVE  cut_off(p) <=> \/ <<p[1]>> \in holes
                            \/ <<p[1], p[2]>> \in holes
                            \/ <<p[1], p[2], p[3]>> \in holes
                            \/ <<p[1], p[2], p[3], p[4]>> \in holes
  <2>1. cut_off(p) <=> SubSeq(p, 1, 1) \in holes \/ SubSeq(p, 1, 2) \in holes \/ SubSeq(p, 1, 3) \in holes \/ SubSeq(p, 1, 4) \in holes
    BY <1>4 DEF cut_off
  <2>2. Len(p) >= 1 /\ Len(p) >= 2 /\ Len(p) >= 3 /\ Len(p) >= 4
    BY <1>4
  <2>3. /\ SubSeq(p, 1, 1) = <<p[1]>>
        /\ SubSeq(p, 1, 2) = <<p[1], p[2]>>
        /\ SubSeq(p, 1, 3) = <<p[1], p[2], p[3]>>
        /\ SubSeq(p, 1, 4) = <<p[1], p[2], p[3], p[4]>>
    BY <2>2, Prefixes, Zenon
  <2>4. QED
    BY <2>1, <2>3, Zenon
<1>5. QED
  BY <1>1, <1>2, <1>3, <1>4, Zenon

\* Paths grow by one pointer.
LEMMA AppendsTwo ==
  ASSUME NEW r \in Nat, NEW a \in Nat, NEW b \in Nat
  PROVE  /\ Append(<<r>>, a) = <<r, a>>
         /\ Append(<<r, a>>, b) = <<r, a, b>>
<1>0. ASSUME NEW t \in Seq(Nat), NEW e \in Nat
      PROVE  \E u \in Seq(Nat) : /\ u = Append(t, e) /\ Len(u) = Len(t) + 1 /\ u[Len(t) + 1] = e
                                 /\ \A i \in 1 .. Len(t) : u[i] = t[i]
  <2>1. /\ Append(t, e) \in Seq(Nat) /\ Len(Append(t, e)) = Len(t) + 1
        /\ Append(t, e)[Len(t) + 1] = e
        /\ \A i \in 1 .. Len(t) : Append(t, e)[i] = t[i]
    BY AppendProperties
  <2>2. QED
    BY <2>1, Zenon
<1>1. Append(<<r>>, a) = <<r, a>>
  <2>1. <<r>> \in Seq(Nat) /\ Len(<<r>>) = 1 /\ <<r>>[1] = r
    OBVIOUS
  <2>2. PICK u \in Seq(Nat) : /\ u = Append(<<r>>, a) /\ Len(u) = Len(<<r>>) + 1
                              /\ u[Len(<<r>>) + 1] = a
                              /\ \A i \in 1 .. Len(<<r>>) : u[i] = <<r>>[i]
    BY <1>0, <2>1, Zenon
  <2>3. Len(u) = 2 /\ u[2] = a /\ u[1] = r
    BY <2>1, <2>2
  <2>4. u = <<u[1], u[2]>>
    BY <2>3, ShortSeq, Zenon
  <2>5. QED
    BY <2>2, <2>3, <2>4, Zenon
<1>2. Append(<<r, a>>, b) = <<r, a, b>>
  <2>1. <<r, a>> \in Seq(Nat) /\ Len(<<r, a>>) = 2 /\ <<r, a>>[1] = r /\ <<r, a>>[2] = a
    OBVIOUS
  <2>2. PICK u \in Seq(Nat) : /\ u = Append(<<r, a>>, b) /\ Len(u) = Len(<<r, a>>) + 1
                              /\ u[Len(<<r, a>>) + 1] = b
                              /\ \A i \in 1 .. Len(<<r, a>>) : u[i] = <<r, a>>[i]
    BY <1>0, <2>1, Zenon
  <2>3. Len(u) = 3 /\ u[3] = b /\ u[1] = r /\ u[2] = a
    BY <2>1, <2>2
  <2>4. u = <<u[1], u[2], u[3]>>
    BY <2>3, ShortSeq, Zenon
  <2>5. QED
    BY <2>2, <2>3, <2>4, Zenon
<1>3. QED
  BY <1>1, <1>2

\* The same, up to the longest paths.
LEMMA Appends ==
  ASSUME NEW r \in Nat, NEW a \in Nat, NEW b \in Nat, NEW c \in Nat
  PROVE  /\ Append(<<r>>, a) = <<r, a>>
         /\ Append(<<r, a>>, b) = <<r, a, b>>
         /\ Append(<<r, a, b>>, c) = <<r, a, b, c>>
<1>0. ASSUME NEW t \in Seq(Nat), NEW e \in Nat
      PROVE  \E u \in Seq(Nat) : /\ u = Append(t, e) /\ Len(u) = Len(t) + 1 /\ u[Len(t) + 1] = e
                                 /\ \A i \in 1 .. Len(t) : u[i] = t[i]
  <2>1. /\ Append(t, e) \in Seq(Nat) /\ Len(Append(t, e)) = Len(t) + 1
        /\ Append(t, e)[Len(t) + 1] = e
        /\ \A i \in 1 .. Len(t) : Append(t, e)[i] = t[i]
    BY AppendProperties
  <2>2. QED
    BY <2>1, Zenon
<1>3. Append(<<r, a, b>>, c) = <<r, a, b, c>>
  <2>1. <<r, a, b>> \in Seq(Nat) /\ Len(<<r, a, b>>) = 3 /\ <<r, a, b>>[1] = r /\ <<r, a, b>>[2] = a /\ <<r, a, b>>[3] = b
    OBVIOUS
  <2>2. PICK u \in Seq(Nat) : /\ u = Append(<<r, a, b>>, c) /\ Len(u) = Len(<<r, a, b>>) + 1
                              /\ u[Len(<<r, a, b>>) + 1] = c
                              /\ \A i \in 1 .. Len(<<r, a, b>>) : u[i] = <<r, a, b>>[i]
    BY <1>0, <2>1, Zenon
  <2>3. Len(u) = 4 /\ u[4] = c /\ u[1] = r /\ u[2] = a /\ u[3] = b
    BY <2>1, <2>2
  <2>4. u = <<u[1], u[2], u[3], u[4]>>
    BY <2>3, ShortSeq, Zenon
  <2>5. QED
    BY <2>2, <2>3, <2>4, Zenon
<1>4. QED
  BY <1>3, AppendsTwo, Zenon

\* get_block_num finds the block of the layout, or a null pointer on the way.
LEMMA BlockNum ==
  ASSUME NEW l \in 0 .. Capacity - 1
  PROVE  get_block_num(l) = IF is_hole(l) THEN Null ELSE layout[l]
<1> USE IndirectAssumption
<1>0. PICK S \in Nat \ {0} : S = Ptrs * Ptrs
  OBVIOUS
<1>1. PICK p : At(l, p)
  BY BlockHasPlace
<1>2. layout[l] = p /\ (is_hole(l) <=> cut_off(p))
  BY <1>1, PlacesAreLayout DEF is_hole, cut_off
<1>3. l \in Nat
  BY <1>1, PartOf
<1> SUFFICES get_block_num(l) = IF cut_off(p) THEN Null ELSE p
  BY <1>2
<1> USE DEF pointer, read_indirect_block
<1>4. CASE AtDirect(l, p)
  <2>1. p = <<l>> /\ l < Direct
    BY <1>4 DEF AtDirect
  <2>2. cut_off(p) <=> <<l>> \in holes
    <3>1. p \in Seq(Nat) /\ Len(p) = 1 /\ p[1] = l
      BY <1>3, <2>1
    <3>2. QED
      BY <3>1, CutOff
  <2>3. QED
    BY <1>3, <2>1, <2>2 DEF get_block_num
<1>5. CASE AtSingle(l, p)
  <2>1. PICK a \in Index : l = Direct + a /\ p = <<Direct, a>>
    BY <1>5 DEF AtSingle
  <2>2. a \in Nat /\ ~(l < Direct) /\ l - Direct = a /\ l - Direct < Ptrs
    BY <2>1 DEF Index
  <2>3. get_block_num(l) = single_indirect(a)
    BY <2>2 DEF get_block_num
  <2>4. cut_off(p) <=> <<Direct>> \in holes \/ <<Direct, a>> \in holes
    <3>1. p \in Seq(Nat) /\ Len(p) = 2 /\ p[1] = Direct /\ p[2] = a
      BY <2>1, <2>2
    <3>2. QED
      BY <3>1, CutOff
  <2>5. Append(<<Direct>>, a) = <<Direct, a>> /\ <<Direct>> # Null
    <3>1. Append(<<Direct>>, a) = <<Direct, a>>
      BY <2>2, Appends
    <3>2. <<Direct>> # Null
      BY NodesOnTheWay, Zenon
    <3>3. QED
      BY <3>1, <3>2
  <2>6. QED
    BY <2>1, <2>3, <2>4, <2>5 DEF single_indirect
<1>6. CASE AtDouble(l, p)
  <2>1. PICK a \in Index, b \in Index :
            l = Direct + Ptrs + (Ptrs * a + b) /\ p = <<Direct + 1, a, b>>
    BY <1>6 DEF AtDouble
  <2>2. PICK r \in 0 .. S - 1 : r = Ptrs * a + b
    BY <1>0, Levels
  <2>3. a \in Nat /\ b \in Nat /\ b \in 0 .. Ptrs - 1
    BY DEF Index
  <2>4. /\ ~(l < Direct) /\ ~(l - Direct < Ptrs)
        /\ l - Direct - Ptrs = r /\ l - Direct - Ptrs < S
    BY <2>1, <2>2
  <2>5. get_block_num(l) = double_indirect(r)
    BY <1>0, <2>4 DEF get_block_num
  <2>6. r \div Ptrs = a /\ r % Ptrs = b
    BY <2>2, <2>3, DivModOf
  <2>7. cut_off(p) <=> \/ <<Direct + 1>> \in holes \/ <<Direct + 1, a>> \in holes
                       \/ <<Direct + 1, a, b>> \in holes
    <3>1. p \in Seq(Nat) /\ Len(p) = 3 /\ p[1] = Direct + 1 /\ p[2] = a /\ p[3] = b
      BY <2>1, <2>3
    <3>2. QED
      BY <3>1, CutOff
  <2>8. /\ Append(<<Direct + 1>>, a) = <<Direct + 1, a>> /\ <<Direct + 1>> # Null
        /\ Append(<<Direct + 1, a>>, b) = <<Direct + 1, a, b>> /\ <<Direct + 1, a>> # Null
    <3>1. /\ Append(<<Direct + 1>>, a) = <<Direct + 1, a>>
          /\ Append(<<Direct + 1, a>>, b) = <<Direct + 1, a, b>>
      <4>1. Direct + 1 \in Nat
        OBVIOUS
      <4>2. QED
        BY <2>3, <4>1, AppendsTwo, Zenon
    <3>2. <<Direct + 1>> # Null /\ <<Direct + 1, a>> # Null
      BY NodesOnTheWay, Zenon
    <3>3. QED
      BY <3>1, <3>2
  <2>9. QED
    BY <2>1, <2>5, <2>6, <2>7, <2>8 DEF double_indirect
<1>7. CASE AtTriple(l, p)
  <2>1. PICK a \in Index, b \in Index, c \in Index :
            /\ l = Direct + Ptrs + Ptrs * Ptrs + ((Ptrs * Ptrs) * a + (Ptrs * b + c))
            /\ p = <<Direct + 2, a, b, c>>
    BY <1>7 DEF AtTriple
  <2>2. a \in Nat /\ b \in Nat /\ c \in Nat /\ c \in 0 .. Ptrs - 1
    BY DEF Index
  <2>3. PICK r \in 0 .. S - 1 : r = Ptrs * b + c
    BY <1>0, Levels
  <2>4. PICK m \in Nat : m = S * a + r
    BY <2>2
  <2>5. /\ ~(l < Direct) /\ ~(l - Direct < Ptrs) /\ ~(l - Direct - Ptrs < S)
        /\ l - Direct - Ptrs - S = m
    BY <1>0, <2>1, <2>3, <2>4
  <2>6. get_block_num(l) = triple_indirect(m)
    BY <1>0, <2>5 DEF get_block_num
  <2>7. m \div S = a /\ m % S = r
    BY <2>2, <2>4, DivModOf
  <2>8. r \div Ptrs = b /\ r % Ptrs = c
    BY <2>2, <2>3, DivModOf
  <2>9. cut_off(p) <=> \/ <<Direct + 2>> \in holes \/ <<Direct + 2, a>> \in holes
                       \/ <<Direct + 2, a, b>> \in holes \/ <<Direct + 2, a, b, c>> \in holes
    <3>1. /\ p \in Seq(Nat) /\ Len(p) = 4
          /\ p[1] = Direct + 2 /\ p[2] = a /\ p[3] = b /\ p[4] = c
      BY <2>1, <2>2
    <3>2. QED
      BY <3>1, CutOff
  <2>10. /\ Append(<<Direct + 2>>, a) = <<Direct + 2, a>> /\ <<Direct + 2>> # Null
         /\ Append(<<Direct + 2, a>>, b) = <<Direct + 2, a, b>> /\ <<Direct + 2, a>> # Null
         /\ Append(<<Direct + 2, a, b>>, c) = <<Direct + 2, a, b, c>> /\ <<Direct + 2, a, b>> # Null
    <3>1. /\ Append(<<Direct + 2>>, a) = <<Direct + 2, a>>
          /\ Append(<<Direct + 2, a>>, b) = <<Direct + 2, a, b>>
          /\ Append(<<Direct + 2, a, b>>, c) = <<Direct + 2, a, b, c>>
      BY <2>2, Appends
    <3>2. <<Direct + 2>> # Null /\ <<Direct + 2, a>> # Null /\ <<Direct + 2, a, b>> # Null
      BY NodesOnTheWay, Zenon
    <3>3. QED
      BY <3>1, <3>2
  <2>11. m \div (Ptrs * Ptrs) = a /\ m % (Ptrs * Ptrs) = r
    BY <1>0, <2>7
  <2>12. QED
    BY <2>1, <2>6, <2>8, <2>9, <2>10, <2>11 DEF triple_indirect
<1>8. QED
  BY <1>1, <1>4, <1>5, <1>6, <1>7 DEF At

-------------------------------------------------------------------------------
\* What a read keeps while it runs: the blocks it asks for are in the file, and
\* the buffer has a place for each.
Reading ==
    /\ pc \in {"idle", "loop", "done"}
    /\ offset \in Nat /\ len \in Nat /\ bytes_read \in 0 .. len
    /\ offset + len <= Capacity
    /\ DOMAIN buf = 1 .. len
    /\ ReadsUpToHole

\* Every turn of the loop reads the next block of the layout.
LEMMA ReadingStep ==
  ASSUME Reading, [IndirectNext]_indirectVars
  PROVE  Reading'
<1>1. ASSUME NEW o \in 0 .. Capacity - 1, NEW n \in 1 .. Capacity, read_at(o, n)
      PROVE  Reading'
  BY <1>1, CapacityType DEF read_at, Reading, ReadsUpToHole
<1>2. CASE read_indirect
  <2> DEFINE k == offset + bytes_read
  <2>1. CASE pc = "loop" /\ bytes_read < len /\ get_block_num(k) # Null
             /\ buf' = [buf EXCEPT ![bytes_read + 1] = get_block_num(k)]
             /\ bytes_read' = bytes_read + 1 /\ UNCHANGED <<pc, holes, offset, len>>
    <3>1. k \in 0 .. Capacity - 1
      BY <2>1, CapacityType DEF Reading
    <3>2. get_block_num(k) = layout[k]
      BY <2>1, <3>1, BlockNum
    <3>3. \A i \in 1 .. len :
              buf'[i] = IF i <= bytes_read + 1 THEN layout[offset + i - 1] ELSE Zero
      <4>1. ASSUME NEW i \in 1 .. len
            PROVE  buf'[i] = IF i <= bytes_read + 1 THEN layout[offset + i - 1] ELSE Zero
        <5>1. buf'[i] = IF i = bytes_read + 1 THEN layout[k] ELSE buf[i]
          BY <2>1, <3>2 DEF Reading
        <5>2. buf[i] = IF i <= bytes_read THEN layout[offset + i - 1] ELSE Zero
          BY DEF Reading, ReadsUpToHole
        <5>3. i = bytes_read + 1 => offset + i - 1 = k
          BY DEF Reading
        <5>4. i <= bytes_read + 1 <=> i <= bytes_read \/ i = bytes_read + 1
          BY DEF Reading
        <5>5. ~(i = bytes_read + 1 /\ i <= bytes_read)
          BY DEF Reading
        <5> HIDE DEF k
        <5>6. QED
          BY <5>1, <5>2, <5>3, <5>4, <5>5
      <4>2. QED
        BY <4>1
    <3>4. ReadsUpToHole'
      <4>1. bytes_read' = bytes_read + 1 /\ layout' = layout /\ len' = len /\ offset' = offset
        BY <2>1
      <4>2. \A i \in 1 .. len' :
              buf'[i] = IF i <= bytes_read' THEN layout'[offset' + i - 1] ELSE Zero
        BY <3>3, <4>1
      <4>3. pc' # "done"
        BY <2>1
      <4>4. QED
        BY <4>2, <4>3 DEF ReadsUpToHole
    <3>5. QED
      BY <2>1, <3>4 DEF Reading
  <2>2. CASE pc' = "done" /\ (bytes_read = len \/ get_block_num(k) = Null)
             /\ UNCHANGED <<buf, bytes_read, holes, offset, len>>
    <3>1. ASSUME bytes_read < len PROVE is_hole(k)
      <4>1. k \in 0 .. Capacity - 1
        BY <3>1, CapacityType DEF Reading
      <4>2. get_block_num(k) = Null
        BY <2>2, <3>1 DEF Reading
      <4>3. PICK p : At(k, p)
        BY <4>1, BlockHasPlace
      <4>4. layout[k] = p /\ p # Null
        BY <4>3, PlacesAreLayout, PlacesAreData, NullAssumption
      <4>5. QED
        BY <4>1, <4>2, <4>4, BlockNum
    <3>2. is_hole(k) => is_hole(k)'
      BY <2>2 DEF is_hole
    <3>3. QED
      BY <2>2, <3>1, <3>2 DEF Reading, ReadsUpToHole
  <2>3. QED
    BY <1>2, <2>1, <2>2 DEF read_indirect
<1>3. CASE UNCHANGED indirectVars
  BY <1>3 DEF indirectVars, Reading, ReadsUpToHole, is_hole
<1>4. QED
  BY <1>1, <1>2, <1>3 DEF IndirectNext

\* An image with any null pointers at all, before the read.
AnyImage ==
    /\ holes \subseteq DataPath \cup NodePath
    /\ offset = 0 /\ len = 0 /\ buf = <<>> /\ bytes_read = 0
    /\ pc = "idle"

\* Whatever the number of pointers in a block and whatever the holes of the
\* image, a read returns the blocks of the file in the order of the layout,
\* across the direct, single, double and triple parts, and stops early at
\* nothing but a hole.
THEOREM IndirectReads == AnyImage /\ [][IndirectNext]_indirectVars => []ReadsUpToHole
<1>1. AnyImage => Reading
  BY CapacityType DEF AnyImage, Reading, ReadsUpToHole
<1>2. Reading /\ [IndirectNext]_indirectVars => Reading'
  BY ReadingStep
<1>3. Reading => ReadsUpToHole
  BY DEF Reading
<1>4. QED
  BY <1>1, <1>2, <1>3, PTL

\* The same of the images the specification starts from.
THEOREM IndirectReadsUpToHole == IndirectSpec => []ReadsUpToHole
<1>1. IndirectInit => AnyImage
  BY DEF IndirectInit, AnyImage
<1>2. QED
  BY <1>1, IndirectReads, PTL DEF IndirectSpec
===============================================================================
