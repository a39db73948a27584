------------------------------ MODULE BlockStore ------------------------------
(***************************************************************************)
(* What the block cache of ext4-fs promises its callers: every block of    *)
(* every device is a register that one thread at a time may read and       *)
(* write.  There is no cache, no device and no manager here.  BlockCache   *)
(* implements this specification.                                          *)
(***************************************************************************)

CONSTANTS Key,      \* the blocks: a block number on a device
          Thread,   \* the threads that use the store
          Value,    \* what a block can hold
          Zero,     \* the all-zero block
          NoKey,    \* the thread has no block
          NoValue   \* the thread has read nothing

VARIABLES content,  \* content[k]: the last value written to k
          at,       \* at[t]: the block t asked for, or NoKey
          inside,   \* the threads that may use the block they asked for
          out       \* out[t]: what t read from it, or NoValue

storeVars == <<content, at, inside, out>>

StoreInit ==
    /\ content \in [Key -> Value]
    /\ at = [t \in Thread |-> NoKey]
    /\ inside = {}
    /\ out = [t \in Thread |-> NoValue]

\* A thread asks for a block; the block of a zeroed request may become Zero.
Ask(t, k) ==
    /\ at[t] = NoKey
    /\ at' = [at EXCEPT ![t] = k]
    /\ UNCHANGED <<content, inside, out>>

AskZeroed(t, k) ==
    /\ at[t] = NoKey
    /\ at' = [at EXCEPT ![t] = k]
    /\ content' = [content EXCEPT ![k] = Zero]
    /\ UNCHANGED <<inside, out>>

Enter(t) ==
    /\ at[t] # NoKey
    /\ \A u \in inside : at[u] # at[t]
    /\ inside' = inside \cup {t}
    /\ UNCHANGED <<content, at, out>>

Read(t) ==
    /\ t \in inside
    /\ out' = [out EXCEPT ![t] = content[at[t]]]
    /\ UNCHANGED <<content, at, inside>>

Write(t, v) ==
    /\ t \in inside
    /\ content' = [content EXCEPT ![at[t]] = v]
    /\ UNCHANGED <<at, inside, out>>

Leave(t) ==
    /\ t \in inside
    /\ at' = [at EXCEPT ![t] = NoKey]
    /\ inside' = inside \ {t}
    /\ out' = [out EXCEPT ![t] = NoValue]
    /\ UNCHANGED content

StoreNext ==
    \E t \in Thread :
        \/ \E k \in Key : Ask(t, k)
        \/ \E k \in Key : AskZeroed(t, k)
        \/ Enter(t)
        \/ Read(t)
        \/ \E v \in Value : Write(t, v)
        \/ Leave(t)

StoreSpec == StoreInit /\ [][StoreNext]_storeVars
===============================================================================
