------------------------------ MODULE GroupAlloc ------------------------------
(***************************************************************************)
(* The bitmap allocator of ext4-fs (Ext4FileSystem in ext4-fs/src/ext4.rs):*)
(* units First .. Total - 1 in groups of PerGroup, one bitmap per group,   *)
(* the last group possibly cut short by Total, and a cursor where the next *)
(* search starts.  alloc_block and alloc_inode run the same search; the    *)
(* module is stated for blocks, and Ext4Alloc adds the inodes.             *)
(* Every call runs under the lock of the file system.                      *)
(***************************************************************************)
EXTENDS Integers

CONSTANTS First,      \* s_first_data_block; 1 for inodes
          PerGroup,   \* s_blocks_per_group; s_inodes_per_group
          Total,      \* blocks_count; one past the last inode
          Groups,     \* group_descs.len()
          Start,      \* the cursor after a mount: s_first_data_block, s_first_ino
          MaxUnit,    \* bound: the largest number passed to dealloc
          NoUnit      \* None

ASSUME GroupAssumption ==
    /\ First \in Nat /\ PerGroup \in Nat \ {0} /\ Total \in Nat /\ Groups \in Nat
    /\ Total <= First + Groups * PerGroup
    /\ Start \in Nat /\ MaxUnit \in Nat
    /\ NoUnit \notin Nat

VARIABLES bitmap,   \* bitmap[g]: the set bits of group g
          cursor,   \* next_alloc_block, next_alloc_inode
          ret,      \* what the last call handed out
          freed     \* what the last call was told to free

vars == <<bitmap, cursor, ret, freed>>

Unit == First .. Total - 1

Number == 0 .. MaxUnit

\* Numbers counted from 0.
group_start_zero(g) == g * PerGroup

group_start(g) == First + g * PerGroup

\* A last group that is taken for a full one.
bits_in_group_full(g) == PerGroup

bits_in_group(g) ==
    IF Total - group_start(g) < PerGroup THEN Total - group_start(g) ELSE PerGroup

start_rel == (IF cursor > First THEN cursor ELSE First) - First
start_group == start_rel \div PerGroup
\* A search that starts at the border of the group.
start_local_zero == 0

start_local == start_rel % PerGroup

\* Only the groups from the cursor on.
visited_no_wrap(pass) ==
    {g \in 0 .. Groups - 1 : group_start(g) < Total /\ pass = 0 /\ start_group <= g}

\* The groups pass 0 and pass 1 look at; both stop at the end of the device.
visited(pass) ==
    {g \in 0 .. Groups - 1 :
        /\ group_start(g) < Total
        /\ IF pass = 0 THEN start_group <= g ELSE g < start_group}

\* Free bits lo .. hi - 1 of group g.
free_bits(g, lo, hi) == {b \in lo .. hi - 1 : b \notin bitmap[g]}

has_free(g) == free_bits(g, 0, bits_in_group(g)) # {}

\* find_and_alloc_bit_from(g, start, total) finds bit b: the first free one at
\* or after start, else the first free one before it.
finds_bit(g, start, total, b) ==
    LET from == IF start < total THEN start ELSE total
        ahead == free_bits(g, from, total)
        behind == free_bits(g, 0, from)
    IN  \/ b \in ahead /\ \A c \in ahead : b <= c
        \/ ahead = {} /\ b \in behind /\ \A c \in behind : b <= c

\* The two passes stop at group g.
finds_group(pass, g) ==
    /\ g \in visited(pass)
    /\ has_free(g)
    /\ \A h \in visited(pass) : h < g => ~has_free(h)
    /\ pass = 1 => \A h \in visited(0) : ~has_free(h)

Init ==
    /\ bitmap \in [0 .. Groups - 1 -> SUBSET (0 .. PerGroup - 1)]
    /\ cursor = Start
    /\ ret = NoUnit /\ freed = NoUnit

\* alloc_block, alloc_inode: Some
alloc ==
    \E pass \in {0, 1}, g \in 0 .. Groups - 1, b \in 0 .. PerGroup - 1 :
        /\ finds_group(pass, g)
        /\ finds_bit(g, IF pass = 0 /\ g = start_group THEN start_local ELSE 0,
                     bits_in_group(g), b)
        /\ bitmap' = [bitmap EXCEPT ![g] = @ \cup {b}]
        /\ cursor' = group_start(g) + b + 1
        /\ ret' = group_start(g) + b
        /\ freed' = NoUnit

\* alloc_block, alloc_inode: None
alloc_none ==
    /\ \A pass \in {0, 1} : \A g \in visited(pass) : ~has_free(g)
    /\ ret' = NoUnit /\ freed' = NoUnit
    /\ UNCHANGED <<bitmap, cursor>>

\* The bit is taken relative to 0.
dealloc_zero(u) ==
    /\ ret' = NoUnit /\ freed' = u
    /\ UNCHANGED cursor
    /\ IF u < First \/ (u - First) \div PerGroup >= Groups
       THEN UNCHANGED bitmap
       ELSE bitmap' = [bitmap EXCEPT ![(u - First) \div PerGroup] = @ \ {u % PerGroup}]

\* dealloc_block, dealloc_inode: a number outside every group is ignored.
dealloc(u) ==
    /\ ret' = NoUnit /\ freed' = u
    /\ UNCHANGED cursor
    /\ IF u < First \/ (u - First) \div PerGroup >= Groups
       THEN UNCHANGED bitmap
       ELSE bitmap' = [bitmap EXCEPT ![(u - First) \div PerGroup] =
                           @ \ {(u - First) % PerGroup}]

Next == alloc \/ alloc_none \/ \E u \in Number : dealloc(u)

Spec == Init /\ [][Next]_vars

-------------------------------------------------------------------------------
\* Every variable has its type.
TypeOK ==
    /\ bitmap \in [0 .. Groups - 1 -> SUBSET (0 .. PerGroup - 1)]
    /\ cursor \in Nat
    /\ ret \in Unit \cup {NoUnit}
    /\ freed \in Number \cup {NoUnit}

used == {u \in Unit : (u - First) % PerGroup \in bitmap[(u - First) \div PerGroup]}

Abstract == INSTANCE Allocator

\* Two passes, a wrap inside the first group and a group cut short still look
\* at every unit: a unit in use or outside the device is never handed out, None
\* means that every unit is in use, and a unit freed is the one named.
ImplementsAllocator == Abstract!AllocatorSpec

\* Growth is contiguous: when the unit at the cursor is free it is the one
\* handed out, also across the border of a group.
Sequential == [][alloc /\ cursor \in Unit \ used => ret' = cursor]_vars
===============================================================================
