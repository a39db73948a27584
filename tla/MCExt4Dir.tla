------------------------------ MODULE MCExt4Dir -------------------------------
(***************************************************************************)
(* Sizes of records for model checking, over 4 bytes: "." and ".." and the *)
(* short names take 12 bytes, long names 20, and names that are too long   *)
(* 24.                                                                     *)
(***************************************************************************)
EXTENDS Ext4Dir

CONSTANT LongName

MCNeed == [n \in Name \cup Dots |->
              IF n \in TooLong THEN 6 ELSE IF n \in LongName THEN 5 ELSE 3]

MCSymmetry == Permutations(Inode \ {Root})
===============================================================================
