------------------------------ MODULE ExtentList ------------------------------
(***************************************************************************)
(* The extent lists of ext4-fs (ext4-fs/src/vfs.rs): a sorted list of runs *)
(* of blocks, extended one block at a time, in any order by a write        *)
(* (insert_block_mapping) and at the end by a growing directory            *)
(* (push_block_to_extents).  An extent is a record of its first logical    *)
(* block, its length and its first physical block; the on-disk halves      *)
(* ee_start_hi and ee_start_lo are one number here, and extents are        *)
(* initialised ones (the high bit of ee_len is clear).                     *)
(***************************************************************************)
EXTENDS Integers, Sequences

CONSTANTS LBlock,     \* the logical blocks of a file
          PBlock,     \* the blocks the allocator hands out
          NoBlock,    \* None
          MaxLen      \* 0x7FFF

ASSUME ExtentsAssumption ==
    /\ LBlock \subseteq Nat
    /\ PBlock \subseteq Nat
    /\ NoBlock \notin Nat
    /\ MaxLen \in Nat \ {0}

Extent == [block : Nat, len : 1 .. MaxLen, start : Nat]

new_extent(l, p) == [block |-> l, len |-> 1, start |-> p]

covers(e, l) == e.block <= l /\ l < e.block + e.len

\* Blocks l and p are the next ones after extent e.
follows(e, l, p) == l = e.block + e.len /\ p = e.start + e.len

\* The first extent that covers l decides.
map_logical_block(es, l) ==
    IF \E i \in 1 .. Len(es) : covers(es[i], l)
    THEN LET i == CHOOSE i \in 1 .. Len(es) :
                      covers(es[i], l) /\ \A j \in 1 .. i - 1 : ~covers(es[j], l)
         IN  es[i].start + (l - es[i].block)
    ELSE NoBlock

\* Vec::insert and Vec::remove
insert_at(es, i, e) ==
    [j \in 1 .. Len(es) + 1 |->
        IF j < i THEN es[j] ELSE IF j = i THEN e ELSE es[j - 1]]
remove_at(es, i) ==
    [j \in 1 .. Len(es) - 1 |-> IF j < i THEN es[j] ELSE es[j + 1]]

\* push_block_to_extents with no limit on the length of an extent.
push_unlimited(es, l, p) ==
    IF Len(es) > 0 /\ follows(es[Len(es)], l, p)
    THEN [es EXCEPT ![Len(es)].len = @ + 1]
    ELSE Append(es, new_extent(l, p))

push_block_to_extents(es, l, p) ==
    IF /\ Len(es) > 0
       /\ follows(es[Len(es)], l, p)
       /\ es[Len(es)].len < MaxLen
    THEN [es EXCEPT ![Len(es)].len = @ + 1]
    ELSE Append(es, new_extent(l, p))

\* The scan stops at the first extent that starts after l.
insert_pos(es, l) ==
    CHOOSE i \in 1 .. Len(es) + 1 :
        /\ \A j \in 1 .. i - 1 : es[j].block <= l
        /\ i <= Len(es) => l < es[i].block

\* A block joined to the extent before it by its physical number alone.
merge_prev_physical(es, i, l, p) ==
    i > 1 /\ p = es[i - 1].start + es[i - 1].len /\ es[i - 1].len < MaxLen

merge_prev(es, i, l, p) ==
    i > 1 /\ follows(es[i - 1], l, p) /\ es[i - 1].len < MaxLen

\* A block that is never joined to the extent after it, and one joined to it
\* by its logical number alone.
merge_next_never(es, i, l, p) == FALSE
merge_next_logical(es, i, l, p) ==
    i <= Len(es) /\ l + 1 = es[i].block /\ es[i].len < MaxLen

merge_next(es, i, l, p) ==
    /\ i <= Len(es)
    /\ l + 1 = es[i].block
    /\ p + 1 = es[i].start
    /\ es[i].len < MaxLen

\* The two neighbours of l become one extent.
join(es, i) ==
    remove_at([es EXCEPT ![i - 1].len = @ + 1 + es[i].len], i)

\* Block l is added to the extent before it, the one after it, or its own.
place(es, i, l, p) ==
    LET both == merge_prev(es, i, l, p) /\ merge_next(es, i, l, p)
    IN  IF both /\ es[i - 1].len + 1 + es[i].len <= MaxLen
        THEN join(es, i)
        ELSE IF merge_prev(es, i, l, p)
        THEN [es EXCEPT ![i - 1].len = @ + 1]
        ELSE IF merge_next(es, i, l, p)
        THEN [es EXCEPT ![i] = [block |-> l, len |-> @.len + 1, start |-> p]]
        ELSE insert_at(es, i, new_extent(l, p))

\* The extent goes to the end of the list, as in push_block_to_extents.
insert_last(es, l, p) ==
    LET i == Len(es) + 1
    IN  IF \E j \in 1 .. i - 1 : covers(es[j], l) THEN es ELSE place(es, i, l, p)

insert_block_mapping(es, l, p) ==
    LET i == insert_pos(es, l)
    IN  IF \E j \in 1 .. i - 1 : covers(es[j], l) THEN es ELSE place(es, i, l, p)

\* The first logical block after every extent (cur_blocks of ensure_blocks).
is_end(es, l) ==
    /\ \A i \in 1 .. Len(es) : es[i].block + es[i].len <= l
    /\ l = 0 \/ \E i \in 1 .. Len(es) : es[i].block + es[i].len = l

\* Sorted by logical block, without overlap.
sorted(es) ==
    \A i, j \in 1 .. Len(es) : i < j => es[i].block + es[i].len <= es[j].block

\* No two neighbours that would fit into one extent.
tight(es) ==
    \A i \in 1 .. Len(es) - 1 :
        follows(es[i], es[i + 1].block, es[i + 1].start)
            => es[i].len + es[i + 1].len > MaxLen
===============================================================================
