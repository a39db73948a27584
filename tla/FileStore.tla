------------------------------- MODULE FileStore -------------------------------
(***************************************************************************)
(* What the file layer of ext4-fs promises: every file is an array of      *)
(* blocks with a size, and a read returns the blocks.  A write changes the *)
(* blocks it names and nothing else, a block nobody wrote reads as zeros,  *)
(* a truncated file is empty, and every other call changes no file: not a  *)
(* read, and not a call that fails.                                        *)
(***************************************************************************)
EXTENDS Integers

CONSTANTS File, LBlock, Value, Zero

VARIABLES data,   \* data[f][l]: block l of file f
          size,   \* size[f], in blocks
          ret     \* what the last call did

storeVars == <<data, size, ret>>

StoreInit ==
    /\ size \in [File -> {0} \cup {l + 1 : l \in LBlock}]
    /\ data \in [File -> [LBlock -> Value]]
    /\ \A f \in File, l \in LBlock : l >= size[f] => data[f][l] = Zero
    /\ ret = "read"

\* The calls that take the blocks of the files from old to new.
Write(old, new, f, s, e, v) ==
    /\ ret' = "written"
    /\ size' = [size EXCEPT ![f] = IF e > @ THEN e ELSE @]
    /\ new = [old EXCEPT ![f] = [l \in LBlock |-> IF l \in s .. e - 1 THEN v ELSE @[l]]]

Truncate(old, new, f) ==
    /\ ret' = "truncated"
    /\ size' = [size EXCEPT ![f] = 0]
    /\ new = [old EXCEPT ![f] = [l \in LBlock |-> Zero]]

\* A read, and a call that fails.
Other(old, new) ==
    /\ new = old /\ UNCHANGED size
    /\ ret' \in {"read", "NoSpace", "Unsupported"}

\* The blocks are bound once: under a refinement mapping they are a walk over
\* all trees.
StoreNext ==
    \E old \in {data}, new \in {data'} :
        \/ Other(old, new)
        \/ \E f \in File : Truncate(old, new, f)
        \/ \E f \in File, s, e \in LBlock \cup {l + 1 : l \in LBlock}, v \in Value :
               s < e /\ Write(old, new, f, s, e, v)

StoreSpec == StoreInit /\ [][StoreNext]_storeVars
================================================================================
