------------------------------- MODULE FileMap -------------------------------
(***************************************************************************)
(* The two ways in which an inode finds the blocks of its file: by an      *)
(* extent list, or by the pointers of an inode of ext2 or ext3.  The flag  *)
(* EXT4_EXTENTS_FL says which (uses_extents).                              *)
(*                                                                         *)
(* Only reads know the pointers.  Every other call asks read_extents_any,  *)
(* which answers Unsupported without the flag, and takes the empty list    *)
(* for that (unwrap_or_default).  So a write is not refused: it starts a   *)
(* list, sets the flag and puts the list where the pointers were: the rest *)
(* of the file is lost, and its blocks stay allocated.  And clear frees    *)
(* the blocks of the empty list, which are none.                           *)
(*                                                                         *)
(* extents is what read_extents_any().unwrap_or_default() gives: the list  *)
(* of the inode, and the empty one while it has none.  Calls do not        *)
(* overlap: the kernel calls ext4-fs under one lock.  Calls that fail, and *)
(* clear of an inode with extents, are in FileBlocks.                      *)
(***************************************************************************)
EXTENDS Extents, IndirectFile

VARIABLES uses_extents,   \* EXT4_EXTENTS_FL of the inode
          cleared         \* clear has put an empty leaf over the pointers

mapVars == <<uses_extents, cleared>>
vars == <<extents, indirectVars, mapVars>>

-------------------------------------------------------------------------------
MapInit ==
    /\ uses_extents \in BOOLEAN
    /\ cleared = FALSE
    /\ Init
    /\ IndirectInit
    /\ uses_extents => holes = {}

\* A call that overwrites the pointers.  It does not come in the middle of a
\* read, and nothing it sees depends on the reads before it, so there are none.
overwrite_pointers ==
    /\ pc = "idle"
    /\ holes' = {}
    /\ UNCHANGED <<offset, len, buf, bytes_read, pc>>

\* A turn of the loop of ensure_write_blocks or ensure_blocks that gets block p
\* for block l of the file, and write_extents_to_inode: whatever the inode had,
\* it has extents now.
add_block(l, p) ==
    /\ overwrite_pointers
    /\ insert(l, p) \/ push(l, p)
    /\ uses_extents' = TRUE
    /\ cleared' = FALSE

\* clear of an inode without extents: free_all_blocks frees the blocks of the
\* empty list, and no nodes, as pointers are no header of an extent tree.  Size 0,
\* and an empty leaf in i_block; the flag stays as it is.
clear ==
    /\ ~uses_extents
    /\ overwrite_pointers
    /\ cleared' = TRUE
    /\ UNCHANGED <<extents, uses_extents>>

\* read_at of an inode without extents; nothing is read of a file of size 0.
read_by_pointers ==
    /\ ~uses_extents /\ ~cleared
    /\ IndirectNext
    /\ UNCHANGED <<extents, uses_extents, cleared>>

MapNext ==
    \/ \E l \in LBlock, p \in PBlock : add_block(l, p)
    \/ clear
    \/ read_by_pointers

FileMapSpec == MapInit /\ [][MapNext]_vars
==============================================================================
