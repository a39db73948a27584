----------------------------- MODULE MCBlockCache -----------------------------
(* BlockCache on small instances. *)
EXTENDS BlockCache, TLC

CONSTANTS t1, t2

Threads == {t1, t2}
ThreadSymmetry == Permutations(Threads)
===============================================================================
