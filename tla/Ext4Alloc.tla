------------------------------- MODULE Ext4Alloc -------------------------------
(***************************************************************************)
(* The allocator state of one mounted Ext4FileSystem                       *)
(* (ext4-fs/src/ext4.rs): the block bitmaps and the inode bitmaps of its   *)
(* groups, each with its cursor.  Both are searched the way GroupAlloc     *)
(* says: the blocks are GroupAlloc itself, the inodes another instance.    *)
(* They share the groups and the lock of the file system.                  *)
(***************************************************************************)
EXTENDS GroupAlloc

CONSTANTS InodesPerGroup,   \* s_inodes_per_group
          FirstIno          \* s_first_ino: inodes below it are reserved

ASSUME InodeAssumption ==
    /\ InodesPerGroup \in Nat \ {0}
    /\ FirstIno \in Nat \ {0}

VARIABLES inode_bitmap, next_alloc_inode, inode_ret, inode_freed

inodeVars == <<inode_bitmap, next_alloc_inode, inode_ret, inode_freed>>

LastInode == Groups * InodesPerGroup

\* Inodes are numbered from 1 and fill every group.
Inodes == INSTANCE GroupAlloc
    WITH First <- 1, PerGroup <- InodesPerGroup, Total <- 1 + LastInode,
         Start <- FirstIno, MaxUnit <- 1 + LastInode,
         bitmap <- inode_bitmap, cursor <- next_alloc_inode, ret <- inode_ret,
         freed <- inode_freed

\* try_open: an image whose reserved inodes are marked in use.
try_open ==
    /\ Init
    /\ Inodes!Init
    /\ 1 .. FirstIno - 1 \subseteq Inodes!used

alloc_block == (alloc \/ alloc_none) /\ UNCHANGED inodeVars

alloc_inode == (Inodes!alloc \/ Inodes!alloc_none) /\ UNCHANGED vars

dealloc_block(b) == dealloc(b) /\ UNCHANGED inodeVars

\* The callers free inodes they allocated, never a reserved one.
dealloc_inode(i) == Inodes!dealloc(i) /\ UNCHANGED vars

Ext4Next ==
    \/ alloc_block
    \/ alloc_inode
    \/ \E b \in Number : dealloc_block(b)
    \/ \E i \in {0} \cup FirstIno .. 1 + LastInode : dealloc_inode(i)

Ext4Spec == try_open /\ [][Ext4Next]_<<vars, inodeVars>>

--------------------------------------------------------------------------------
\* Inodes are handed out as the abstract allocator says, as blocks are.
InodesImplement == Inodes!ImplementsAllocator

\* A search that wraps past the last group starts again at inode 1, and still
\* never hands out a reserved inode.
ReservedInodesKept == inode_ret # NoUnit => inode_ret >= FirstIno
================================================================================
