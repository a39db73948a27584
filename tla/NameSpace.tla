------------------------------ MODULE NameSpace ------------------------------
(***************************************************************************)
(* What the directories of a file system promise: a set of names, each in  *)
(* one directory and for one file.  A name is made for a new file or for   *)
(* one that is there, renamed, or removed; only an empty directory is      *)
(* removed, and a call that fails changes nothing.                         *)
(***************************************************************************)
CONSTANTS Name, File, Root, Kind

VARIABLES
    tree,   \* the names: records of directory, name, file and kind of file
    done    \* what the last call did: "none" if it changed nothing

NameIn(d, n) == {e \in tree : e.dir = d /\ e.name = n}
IsDirectory(f) == f = Root \/ \E e \in tree : e.file = f /\ e.kind = "S_IFDIR"
Named == {e.file : e \in tree}

NamesInit == tree = {} /\ done = "none"

Create(d, n, f, k) ==
    /\ IsDirectory(d) /\ NameIn(d, n) = {}
    /\ f # Root /\ f \notin Named
    /\ tree' = tree \cup {[dir |-> d, name |-> n, file |-> f, kind |-> k]}

\* A directory has one name only.
Link(d, n, e) ==
    /\ IsDirectory(d) /\ NameIn(d, n) = {}
    /\ e.kind # "S_IFDIR"
    /\ tree' = tree \cup {[e EXCEPT !.dir = d, !.name = n]}

Unlink(e) ==
    /\ \A x \in tree : x.dir # e.file
    /\ tree' = tree \ {e}

Rename(e, n) ==
    /\ NameIn(e.dir, n) = {}
    /\ tree' = (tree \ {e}) \cup {[e EXCEPT !.name = n]}

NamesNext ==
    \/ /\ done' = "created"
       /\ \E d \in File, n \in Name, f \in File, k \in Kind : Create(d, n, f, k)
    \/ /\ done' = "linked"
       /\ \E d \in File, n \in Name, e \in tree : Link(d, n, e)
    \/ /\ done' = "removed"
       /\ \E e \in tree : Unlink(e)
    \/ /\ done' = "renamed"
       /\ \E e \in tree, n \in Name : Rename(e, n)
    \/ /\ done' = "none"
       /\ tree' = tree

NamesSpec == NamesInit /\ [][NamesNext]_<<tree, done>>
===============================================================================
