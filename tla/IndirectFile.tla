----------------------------- MODULE IndirectFile -----------------------------
(***************************************************************************)
(* Reading a file without extents (ext4-fs/src/vfs.rs: read_at,            *)
(* read_indirect, get_block_num): Direct pointers in the inode, then one   *)
(* pointer each to a single, a double and a triple indirect tree of blocks *)
(* of Ptrs pointers.  Whoever made the image may have left holes, null     *)
(* pointers at any level; ext4-fs writes no pointer.  What a write or a    *)
(* clear does to such a file is in FileMap: it loses its pointers.         *)
(*                                                                         *)
(* A block is named by the path of pointers to it from the inode, so two   *)
(* blocks never have the same name.  Offsets are whole blocks.             *)
(***************************************************************************)
EXTENDS Integers, Sequences, FiniteSets

CONSTANTS Direct,     \* 12
          Ptrs,       \* ptrs_per_block
          MaxHoles,   \* bound: null pointers in the image
          Null,       \* pointer 0
          Zero        \* a block of zeros

ASSUME IndirectAssumption ==
    Direct \in Nat \ {0} /\ Ptrs \in Nat \ {0} /\ MaxHoles \in Nat

Capacity == Direct + Ptrs + Ptrs * Ptrs + Ptrs * Ptrs * Ptrs

\* The paths to data blocks, and those to blocks of pointers.
Index == 0 .. Ptrs - 1
Tree(r, n) == {<<r>> \o p : p \in [1 .. n -> Index]}
DataPath ==
    {<<r>> : r \in 0 .. Direct - 1}
        \cup Tree(Direct, 1) \cup Tree(Direct + 1, 2) \cup Tree(Direct + 2, 3)
NodePath ==
    Tree(Direct, 0)
        \cup Tree(Direct + 1, 0) \cup Tree(Direct + 1, 1)
        \cup Tree(Direct + 2, 0) \cup Tree(Direct + 2, 1) \cup Tree(Direct + 2, 2)

\* Pointer 0 is no block.
ASSUME NullAssumption == Null \notin DataPath \cup NodePath

VARIABLES holes,        \* the null pointers of the image
          offset, len,  \* what read_at was asked for
          buf,          \* the caller's buffer
          bytes_read,
          pc            \* "idle", "loop", "done"

indirectVars == <<holes, offset, len, buf, bytes_read, pc>>

-------------------------------------------------------------------------------
\* The pointer stored at path p.
pointer(p) == IF p \in holes THEN Null ELSE p

read_indirect_block(node, i) == IF node = Null THEN Null ELSE pointer(Append(node, i))

single_indirect(l) == read_indirect_block(pointer(<<Direct>>), l)

double_indirect(l) ==
    read_indirect_block(read_indirect_block(pointer(<<Direct + 1>>), l \div Ptrs), l % Ptrs)

triple_indirect(l) ==
    LET remaining == l % (Ptrs * Ptrs)
        l1_block == read_indirect_block(pointer(<<Direct + 2>>), l \div (Ptrs * Ptrs))
        l2_block == read_indirect_block(l1_block, remaining \div Ptrs)
    IN  read_indirect_block(l2_block, remaining % Ptrs)

\* A tree that is taken for one block shorter than it is.
get_block_num_short(l) ==
    IF l < Direct THEN pointer(<<l>>)
    ELSE IF l - Direct < Ptrs THEN single_indirect(l - Direct)
    ELSE IF l - Direct - Ptrs < Ptrs * Ptrs - 1 THEN double_indirect(l - Direct - Ptrs)
    ELSE triple_indirect(l - Direct - Ptrs - Ptrs * Ptrs + 1)

get_block_num(l) ==
    IF l < Direct THEN pointer(<<l>>)
    ELSE IF l - Direct < Ptrs THEN single_indirect(l - Direct)
    ELSE IF l - Direct - Ptrs < Ptrs * Ptrs THEN double_indirect(l - Direct - Ptrs)
    ELSE triple_indirect(l - Direct - Ptrs - Ptrs * Ptrs)

-------------------------------------------------------------------------------
IndirectInit ==
    /\ holes \in {h \in {{p, q} : p, q \in DataPath \cup NodePath} \cup {{}} :
                      Cardinality(h) <= MaxHoles}
    /\ offset = 0 /\ len = 0 /\ buf = <<>> /\ bytes_read = 0
    /\ pc = "idle"

\* read_at of n blocks from block o, inside the file: the buffer is cleared.
read_at(o, n) ==
    /\ pc = "idle"
    /\ o + n <= Capacity
    /\ offset' = o /\ len' = n
    /\ buf' = [i \in 1 .. n |-> Zero]
    /\ bytes_read' = 0
    /\ pc' = "loop"
    /\ UNCHANGED holes

\* One turn of the loop of read_indirect.
read_indirect ==
    LET phys_block == get_block_num(offset + bytes_read)
    IN  /\ pc = "loop"
        /\ \/ /\ bytes_read < len /\ phys_block # Null
              /\ buf' = [buf EXCEPT ![bytes_read + 1] = phys_block]
              /\ bytes_read' = bytes_read + 1
              /\ UNCHANGED pc
           \/ /\ bytes_read = len \/ phys_block = Null
              /\ pc' = "done"
              /\ UNCHANGED <<buf, bytes_read>>
        /\ UNCHANGED <<holes, offset, len>>

IndirectNext ==
    \/ \E o \in 0 .. Capacity - 1, n \in 1 .. Capacity : read_at(o, n)
    \/ read_indirect

IndirectSpec == IndirectInit /\ [][IndirectNext]_indirectVars

-------------------------------------------------------------------------------
\* The order of the paths on disk: first by root pointer, then by level.
Before(p, q) ==
    \E i \in 1 .. Len(p) :
        i <= Len(q) /\ p[i] < q[i] /\ \A j \in 1 .. i - 1 : p[j] = q[j]

\* Block l of the file is the block with l data blocks before it.
layout == [l \in 0 .. Capacity - 1 |->
              CHOOSE p \in DataPath : Cardinality({q \in DataPath : Before(q, p)}) = l]

\* A block is a hole when some pointer on the way to it is null.
is_hole(l) == \E i \in 1 .. Len(layout[l]) : SubSeq(layout[l], 1, i) \in holes

\* What is read is the file up to its first hole: block after block in the order
\* of the layout, across the borders of the direct, single, double and triple
\* parts, the rest of the buffer zeros, and cut short by nothing but a hole.
ReadsUpToHole ==
    /\ \A i \in 1 .. len :
           buf[i] = IF i <= bytes_read THEN layout[offset + i - 1] ELSE Zero
    /\ pc = "done" /\ bytes_read < len => is_hole(offset + bytes_read)

\* read_at says: "Ensure holes (sparse blocks) read back as zeros."  A read
\* inside the file returns all its blocks, the holes among them as zeros.
HolesReadZero ==
    pc = "done" =>
        /\ bytes_read = len
        /\ \A i \in 1 .. len :
               buf[i] = IF is_hole(offset + i - 1) THEN Zero ELSE layout[offset + i - 1]
===============================================================================
