-------------------------------- MODULE Extents --------------------------------
(***************************************************************************)
(* The extent list of one file as it grows: by the blocks of writes, in    *)
(* any order (ensure_write_blocks), and at its end (ensure_blocks).        *)
(***************************************************************************)
EXTENDS ExtentList

VARIABLE extents

Init == extents = <<>>

\* The allocator gives block p, which no file has.
fresh(p) == \A k \in LBlock : map_logical_block(extents, k) # p

\* One turn of the loop of ensure_write_blocks.
insert(l, p) ==
    /\ map_logical_block(extents, l) = NoBlock
    /\ fresh(p)
    /\ extents' = insert_block_mapping(extents, l, p)

\* One turn of the loop of ensure_blocks.
push(l, p) ==
    /\ is_end(extents, l)
    /\ fresh(p)
    /\ extents' = push_block_to_extents(extents, l, p)

Next == \E l \in LBlock, p \in PBlock : insert(l, p) \/ push(l, p)

Spec == Init /\ [][Next]_extents

--------------------------------------------------------------------------------
\* The list is a list of extents, and no length outgrows its 15 bits.
TypeOK == extents \in Seq(Extent)

\* debug_assert_extents_ordered: the list is sorted by logical block and no
\* two extents overlap.
Ordered == sorted(extents)

\* The list is as short as its blocks allow: two extents that follow each
\* other on both sides are kept apart only when one extent could not hold
\* them, whatever the order the blocks came in.
Compact == tight(extents)

mapping == [l \in LBlock |-> map_logical_block(extents, l)]

Blocks == INSTANCE BlockMap

\* A new block gets its own entry in the map and moves no other block of the
\* file, whichever extents are merged, grown or shifted for it.
ImplementsBlockMap == Blocks!MapSpec

\* The pair that is added is the one asked for: block l of the file is on
\* block p of the device.
PlacesPair ==
    [][\A l \in LBlock, p \in PBlock :
          insert(l, p) \/ push(l, p) => Blocks!Map(l, p)]_extents
================================================================================
