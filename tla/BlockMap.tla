------------------------------- MODULE BlockMap -------------------------------
(***************************************************************************)
(* What the extents of a file stand for: a partial, injective map from the *)
(* blocks of the file to blocks of the device that only ever grows by one  *)
(* pair at a time.                                                         *)
(***************************************************************************)
CONSTANTS LBlock, PBlock, NoBlock

VARIABLE mapping

Empty == mapping = [l \in LBlock |-> NoBlock]

Map(l, p) ==
    /\ mapping[l] = NoBlock
    /\ \A k \in LBlock : mapping[k] # p
    /\ mapping' = [mapping EXCEPT ![l] = p]

Grow == \E l \in LBlock, p \in PBlock : Map(l, p)

MapSpec == Empty /\ [][Grow]_mapping
===============================================================================
