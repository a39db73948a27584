-------------------------------- MODULE MCEasyFs --------------------------------
(***************************************************************************)
(* The first MaxCalls calls on an easy-fs of a few blocks.                 *)
(***************************************************************************)
EXTENDS EasyFs

CONSTANT MaxCalls   \* bound: the number of calls

VARIABLE calls

ASSUME MaxCallsAssumption == MaxCalls \in Nat

\* An empty write, one cell, and enough cells to cross every border.
Buffers == {<<>>, <<1>>, <<2, 1, 2, 1, 1>>}

CallsInit == Init /\ calls = 0

Counted == calls < MaxCalls /\ calls' = calls + 1 /\ Next

BoundedSpec == CallsInit /\ [][Counted]_<<vars, calls>>
================================================================================
