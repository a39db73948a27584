------------------------------- MODULE EasyStore -------------------------------
(***************************************************************************)
(* What easy-fs promises: a directory of named files, each a sequence of   *)
(* cells.  A write changes the cells it names, a gap it leaves reads as    *)
(* zeros, and no other file changes.                                       *)
(***************************************************************************)
EXTENDS Integers, Sequences

CONSTANTS Name, Zero, Offset, Buffer

VARIABLE files   \* files[n]: the contents of the file named n

\* The contents after buf is written at offset.
overwritten(contents, offset, buf) ==
    LET end == offset + Len(buf)
    IN  [i \in 1 .. IF end > Len(contents) THEN end ELSE Len(contents) |->
            IF i > offset /\ i <= end THEN buf[i - offset]
            ELSE IF i <= Len(contents) THEN contents[i] ELSE Zero]

\* One call takes the directory from old to new.
Change(old, new) ==
    \/ \E n \in Name \ DOMAIN old :
           new = [m \in DOMAIN old \cup {n} |-> IF m = n THEN <<>> ELSE old[m]]
    \/ \E n \in DOMAIN old, offset \in Offset, buf \in Buffer :
           new = [old EXCEPT ![n] = overwritten(@, offset, buf)]
    \/ \E n \in DOMAIN old : new = [old EXCEPT ![n] = <<>>]

\* The two directories are bound once: under a refinement mapping each is a
\* walk over all blocks.
StoreNext == \E old \in {files}, new \in {files'} : Change(old, new)

StoreSpec == files = <<>> /\ [][StoreNext]_files
================================================================================
