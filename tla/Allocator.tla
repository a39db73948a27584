------------------------------- MODULE Allocator -------------------------------
(***************************************************************************)
(* What an allocator of blocks or inodes promises: it hands out a unit     *)
(* that is not in use, says that there is none only when every unit is in  *)
(* use, and frees the unit it is told to free and no other.                *)
(***************************************************************************)

CONSTANTS Unit,     \* the numbers it may hand out
          Number,   \* the numbers it may be told to free
          NoUnit    \* None

VARIABLES used,     \* the units in use
          ret,      \* what the last call handed out
          freed     \* what the last call was told to free

allocatorVars == <<used, ret, freed>>

AllocatorInit == used \subseteq Unit /\ ret = NoUnit /\ freed = NoUnit

Alloc(u) ==
    /\ u \in Unit \ used
    /\ used' = used \cup {u}
    /\ ret' = u
    /\ freed' = NoUnit

Exhausted ==
    /\ used = Unit
    /\ ret' = NoUnit
    /\ freed' = NoUnit
    /\ UNCHANGED used

\* Freeing a number that is no unit changes nothing.
Free(u) ==
    /\ used' = used \ {u}
    /\ ret' = NoUnit
    /\ freed' = u

AllocatorNext ==
    \/ \E u \in Unit : Alloc(u)
    \/ \E u \in Number : Free(u)
    \/ Exhausted

AllocatorSpec == AllocatorInit /\ [][AllocatorNext]_allocatorVars
================================================================================
