--------------------------------- MODULE EasyFs ---------------------------------
(***************************************************************************)
(* The easy-fs file system (easy-fs/src: efs.rs, bitmap.rs, layout.rs,     *)
(* vfs.rs): the two bitmaps, the inodes with their direct, indirect and    *)
(* double indirect blocks, and the root directory.                         *)
(*                                                                         *)
(* Every call holds the lock of the file system from its first step to its *)
(* last, so a call is one step.  It ends in a result or in a panic, which  *)
(* ends the system.  A block is PerBlock cells, and a cell holds a piece   *)
(* of data, a pointer or a directory entry.  Block 0 is the super block,   *)
(* 1 .. DataBlocks is the data area, and bit b of the data bitmap stands   *)
(* for block b + 1.                                                        *)
(***************************************************************************)
EXTENDS Integers, Sequences, SequencesExt, FiniteSets

CONSTANTS
    DirectCount,   \* INODE_DIRECT_COUNT
    PerBlock,      \* INODE_INDIRECT1_COUNT, the cells of a block
    DataBlocks,    \* the blocks of the data area
    BitmapBits,    \* the bits of the data bitmap, whole blocks of them
    InodeBits,     \* the bits of the inode bitmap
    Name,          \* names of up to NAME_LENGTH_LIMIT bytes,
    FullName,      \*   of one byte more: they leave no room for the NUL,
    LongName,      \*   and longer ones
    Buffer,        \* what is written
    Offset,        \* where calls read and write, in cells
    Length,        \* how much they read
    Magic          \* EFS_MAGIC, taken for a block it is behind every device

ASSUME EasyAssumption ==
    /\ DirectCount \in Nat \ {0} /\ PerBlock \in Nat \ {0}
    /\ DataBlocks \in Nat \ {0} /\ BitmapBits \in Nat /\ BitmapBits >= DataBlocks
    /\ InodeBits \in Nat \ {0}
    /\ Offset \subseteq Nat /\ Length \subseteq Nat
    /\ \A buf \in Buffer : buf \in Seq(Nat)
    /\ Magic \in Nat /\ Magic > DataBlocks
    /\ Name \cap (FullName \cup LongName) = {} /\ FullName \cap LongName = {}

VARIABLES
    inode_bitmap, data_bitmap,   \* the bits that are set
    inodes,                      \* the inode area
    store,                       \* store[b][c]: cell c of block b
    panicked                     \* the call that did not return, or NoCall

vars == <<inode_bitmap, data_bitmap, inodes, store, panicked>>
disk == <<inode_bitmap, data_bitmap, inodes, store>>

Cell == 0 .. PerBlock - 1
Device == 0 .. DataBlocks
Inode == 0 .. InodeBits - 1
NoCall == [op |-> "none"]
Root == 0

INDIRECT1_BOUND == DirectCount + PerBlock
INDIRECT2_BOUND == INDIRECT1_BOUND + PerBlock * PerBlock

minimum(a, b) == IF a < b THEN a ELSE b
ceiling(n, d) == (n + d - 1) \div d

\* How far n is beyond the bound.
beyond(n, bound) == IF n > bound THEN n - bound ELSE 0

-------------------------------------------------------------------------------
\* The inode: DiskInode.
new_inode == [size |-> 0, direct |-> [k \in 0 .. DirectCount - 1 |-> 0],
              indirect1 |-> 0, indirect2 |-> 0]

data_blocks(size) == ceiling(size, PerBlock)

\* The indirect block is counted one block too early.
total_blocks_early(size) ==
    LET n == data_blocks(size)
    IN  n + (IF n >= DirectCount THEN 1 ELSE 0)
          + (IF n > INDIRECT1_BOUND THEN 1 + ceiling(n - INDIRECT1_BOUND, PerBlock) ELSE 0)

total_blocks(size) ==
    LET n == data_blocks(size)
    IN  n + (IF n > DirectCount THEN 1 ELSE 0)
          + (IF n > INDIRECT1_BOUND THEN 1 + ceiling(n - INDIRECT1_BOUND, PerBlock) ELSE 0)

\* Cell c of block b.  A block that is not on the device panics: what follows
\* from it is no block of the device either.
cell(st, b, c) == IF b \in Device /\ c \in Cell THEN st[b][c] ELSE Magic

get_block_id(st, ino, l) ==
    LET last == l - INDIRECT1_BOUND
    IN  IF l < DirectCount THEN ino.direct[l]
        ELSE IF l < INDIRECT1_BOUND THEN cell(st, ino.indirect1, l - DirectCount)
        ELSE cell(st, cell(st, ino.indirect2, last \div PerBlock), last % PerBlock)

\* Bitmap::alloc, n times: each time the lowest bit that is clear.
free_bits == (0 .. BitmapBits - 1) \ data_bitmap
alloc_data(n) ==
    [i \in 1 .. n |->
        1 + CHOOSE b \in free_bits : Cardinality({a \in free_bits : a < b}) = i - 1]

-------------------------------------------------------------------------------
\* DiskInode::increase_size: the places that take the new blocks of a file
\* that grows from current to total data blocks, in the order they take them.
direct_places(current, total) ==
    [i \in 1 .. beyond(minimum(total, DirectCount), current) |->
        <<"direct", current + i - 1>>]

indirect1_places(current, total) ==
    IF total = 0 THEN <<>>
    ELSE (IF current = 0 THEN <<<<"indirect1">>>> ELSE <<>>)
         \o [i \in 1 .. beyond(minimum(total, PerBlock), current) |->
                <<"indirect1", current + i - 1>>]

indirect2_places(current, total) ==
    IF total = 0 THEN <<>>
    ELSE (IF current = 0 THEN <<<<"indirect2">>>> ELSE <<>>)
         \o FlattenSeq([i \in 1 .. beyond(total, current) |->
                LET a == (current + i - 1) \div PerBlock
                    b == (current + i - 1) % PerBlock
                IN  (IF b = 0 THEN <<<<"indirect2", a>>>> ELSE <<>>)
                    \o <<<<"indirect2", a, b>>>>])

places(current, total) ==
    direct_places(current, total)
    \o indirect1_places(beyond(current, DirectCount), beyond(total, DirectCount))
    \o indirect2_places(beyond(current, INDIRECT1_BOUND), beyond(total, INDIRECT1_BOUND))

\* The block a place is in: an indirect block, or the inode itself.
table_of(d, place) ==
    IF Len(place) = 3 THEN cell(d.store, d.ino.indirect2, place[2]) ELSE d.ino[place[1]]

\* d, an inode and the blocks, with block b put into place.
put(d, place, b) ==
    IF place[1] = "direct" THEN [d EXCEPT !.ino.direct[place[2]] = b]
    ELSE IF Len(place) = 1 THEN [d EXCEPT !.ino = [@ EXCEPT ![place[1]] = b]]
    ELSE IF table_of(d, place) \in Device /\ place[Len(place)] \in Cell
    THEN [d EXCEPT !.store[table_of(d, place)][place[Len(place)]] = b]
    ELSE [d EXCEPT !.ok = FALSE]

place_all(d, ps, bs) ==
    LET placed[i \in 0 .. Len(ps)] ==
            IF i = 0 THEN d ELSE put(placed[i - 1], ps[i], bs[i])
    IN  placed[Len(ps)]

\* Inode::increase_size of inode ino to new_size.  Every block that
\* blocks_num_needed asks for is allocated first, and an iterator over them
\* that ends too early panics.
increase_size(ino, new_size) ==
    LET ps == places(data_blocks(ino.size), data_blocks(new_size))
        needed == total_blocks(new_size) - total_blocks(ino.size)
        got == alloc_data(needed)
        same == [ino |-> ino, store |-> store, bits |-> data_bitmap, ok |-> TRUE]
    IN  IF new_size < ino.size THEN same
        ELSE IF needed > Cardinality(free_bits) \/ Len(ps) > needed THEN [same EXCEPT !.ok = FALSE]
        ELSE place_all([same EXCEPT !.ino.size = new_size,
                                    !.bits = data_bitmap \cup {b - 1 : b \in ToSet(got)}],
                       ps, got)

\* DiskInode::write_at: the loop runs at least once, for an empty buffer too.
blocks_of(offset, n) ==
    offset \div PerBlock .. (IF n = 0 THEN offset ELSE offset + n - 1) \div PerBlock

write_cells(d, offset, buf) ==
    LET block == [l \in blocks_of(offset, Len(buf)) |-> get_block_id(d.store, d.ino, l)]
        at == [i \in 1 .. Len(buf) |->
                  <<block[(offset + i - 1) \div PerBlock], (offset + i - 1) % PerBlock>>]
        written(b, c) == {i \in DOMAIN at : at[i] = <<b, c>>}
    IN  IF \E l \in DOMAIN block : block[l] \notin Device THEN [d EXCEPT !.ok = FALSE]
        ELSE [d EXCEPT !.store = [b \in Device |->
                IF \A i \in DOMAIN at : at[i][1] # b THEN @[b]
                ELSE [c \in Cell |-> IF written(b, c) = {} THEN @[b][c]
                                     ELSE buf[CHOOSE i \in written(b, c) : TRUE]]]]

\* DiskInode::clear_size: the blocks of the file, each as often as it is found.
children(b, n) == [c \in 1 .. n |-> cell(store, b, c - 1)]

\* The blocks of pointers forgotten.
clear_size_data(ino) ==
    [l \in 1 .. data_blocks(ino.size) |-> get_block_id(store, ino, l - 1)]

clear_size(ino) ==
    LET n == data_blocks(ino.size)
        n1 == beyond(n, DirectCount)
        n2 == beyond(n, INDIRECT1_BOUND)
        a1 == n2 \div PerBlock
        b1 == n2 % PerBlock
        table(a) == cell(store, ino.indirect2, a)
    IN  [k \in 1 .. minimum(n, DirectCount) |-> ino.direct[k - 1]]
        \o (IF n1 = 0 THEN <<>>
            ELSE <<ino.indirect1>> \o children(ino.indirect1, minimum(n1, PerBlock)))
        \o (IF n2 = 0 THEN <<>>
            ELSE <<ino.indirect2>>
                 \o FlattenSeq([a \in 1 .. a1 |-> <<table(a - 1)>> \o children(table(a - 1), PerBlock)])
                 \o (IF b1 = 0 THEN <<>> ELSE <<table(a1)>> \o children(table(a1), b1)))

-------------------------------------------------------------------------------
\* The root directory
entry(name, id) == [name |-> name, inode_number |-> id]
dirent(i) == cell(store, get_block_id(store, inodes[Root], i \div PerBlock), i % PerBlock)
dirents == [i \in 1 .. inodes[Root].size |-> dirent(i - 1)]

\* find_inode_id: the entries are compared in order up to the one that has the
\* name, and DirEntry::name panics on one without a NUL.
found(name) == {i \in DOMAIN dirents : dirents[i].name = name}
compared(name) == {i \in DOMAIN dirents : \A j \in found(name) : i <= j}
find_panics(name) == \E i \in compared(name) : dirents[i].name \notin Name

-------------------------------------------------------------------------------
\* EasyFileSystem::create
Init ==
    /\ inode_bitmap = {Root}
    /\ data_bitmap = {}
    /\ inodes = [f \in Inode |-> new_inode]
    /\ store = [b \in Device |-> [c \in Cell |-> IF b = 0 /\ c = 0 THEN Magic ELSE 0]]
    /\ panicked = NoCall

running == panicked = NoCall
Panic(c) == panicked' = c /\ UNCHANGED disk

\* A call that only looks at the disk.
Look(c, fails) == panicked' = (IF fails THEN c ELSE NoCall) /\ UNCHANGED disk

\* A call that leaves inode f, the blocks and the data bitmap as d has them.
Keep(f, d) ==
    /\ inodes' = [inodes EXCEPT ![f] = d.ino]
    /\ store' = d.store
    /\ data_bitmap' = d.bits
    /\ UNCHANGED <<inode_bitmap, panicked>>

\* Inode::create of a name the directory does not have.
create_new(c, name) ==
    LET free == Inode \ inode_bitmap
        id == CHOOSE f \in free : \A g \in free : f <= g
        root == inodes[Root]
        d == write_cells(increase_size(root, root.size + 1), root.size, <<entry(name, id)>>)
    IN  IF free = {} \/ name \in LongName \/ ~d.ok THEN Panic(c)
        ELSE /\ inode_bitmap' = inode_bitmap \cup {id}
             /\ inodes' = [inodes EXCEPT ![Root] = d.ino, ![id] = new_inode]
             /\ store' = d.store
             /\ data_bitmap' = d.bits
             /\ UNCHANGED panicked

create(name) ==
    LET c == [op |-> "create", name |-> name]
    IN  /\ running
        /\ IF find_panics(name) \/ found(name) # {} THEN Look(c, find_panics(name))
           ELSE create_new(c, name)

find(name) == running /\ Look([op |-> "find", name |-> name], find_panics(name))

ls == running /\ Look([op |-> "ls"], \E i \in DOMAIN dirents : dirents[i].name \notin Name)

\* A file that create or find gave out.
is_open(f) == running /\ f \in inode_bitmap \ {Root}

\* A read panics when a block it touches is not on the device.
read_at(f, offset, n) ==
    LET end == minimum(offset + n, inodes[f].size)
        touched == IF offset >= end THEN {} ELSE blocks_of(offset, end - offset)
    IN  /\ is_open(f)
        /\ Look([op |-> "read_at", file |-> f, offset |-> offset, len |-> n],
                \E l \in touched : get_block_id(store, inodes[f], l) \notin Device)

write_at(f, offset, buf) ==
    LET c == [op |-> "write_at", file |-> f, offset |-> offset, len |-> Len(buf)]
        d == write_cells(increase_size(inodes[f], offset + Len(buf)), offset, buf)
    IN  /\ is_open(f)
        /\ IF d.ok THEN Keep(f, d) ELSE Panic(c)

\* The inode as clear_size leaves it.
cleared(ino) ==
    LET n == data_blocks(ino.size)
    IN  [size |-> 0,
         direct |-> [k \in DOMAIN ino.direct |-> IF k < n THEN 0 ELSE ino.direct[k]],
         indirect1 |-> IF n > DirectCount THEN 0 ELSE ino.indirect1,
         indirect2 |-> IF n > INDIRECT1_BOUND THEN 0 ELSE ino.indirect2]

\* dealloc_data of blocks bs: each is zeroed, and its bit, which must be set,
\* is cleared.
dealloc_unzeroed(bs) == store
dealloc_data(bs) == [b \in Device |-> IF b \in bs THEN [k \in Cell |-> 0] ELSE store[b]]

clear(f) ==
    LET c == [op |-> "clear", file |-> f]
        v == clear_size(inodes[f])
        bs == ToSet(v)
        ok == /\ Len(v) = total_blocks(inodes[f].size)
              /\ Cardinality(bs) = Len(v)
              /\ \A b \in bs : b \in Device /\ b - 1 \in data_bitmap
    IN  /\ is_open(f)
        /\ IF ok THEN Keep(f, [ino |-> cleared(inodes[f]), store |-> dealloc_data(bs),
                               bits |-> data_bitmap \ {b - 1 : b \in bs}])
           ELSE Panic(c)

File == Inode \ {Root}

Next ==
    \/ \E name \in Name \cup FullName \cup LongName : create(name)
    \/ \E name \in Name : find(name)
    \/ ls
    \/ \E f \in File, offset \in Offset, n \in Length : read_at(f, offset, n)
    \/ \E f \in File, offset \in Offset, buf \in Buffer : write_at(f, offset, buf)
    \/ \E f \in File : clear(f)

Spec == Init /\ [][Next]_vars

-------------------------------------------------------------------------------
\* The blocks of pointers of file f, and all its blocks.
tables(f) ==
    LET ino == inodes[f]
        n == data_blocks(ino.size)
    IN  (IF n > DirectCount THEN {ino.indirect1} ELSE {})
        \cup (IF n > INDIRECT1_BOUND THEN {ino.indirect2} ELSE {})
        \cup {cell(store, ino.indirect2, (l - INDIRECT1_BOUND) \div PerBlock) :
                 l \in INDIRECT1_BOUND .. n - 1}
contents(f) == {get_block_id(store, inodes[f], l) : l \in 0 .. data_blocks(inodes[f].size) - 1}
tree(f) == tables(f) \cup contents(f)

\* The blocks a file of n data blocks has, with those of pointers.
tables_over(l) ==
    IF l < DirectCount THEN {}
    ELSE IF l < INDIRECT1_BOUND THEN {<<"indirect1">>}
    ELSE {<<"indirect2">>, <<"indirect2", (l - INDIRECT1_BOUND) \div PerBlock>>}
tree_size(n) == n + Cardinality(UNION {tables_over(l) : l \in 0 .. n - 1})

\* The bitmap has exactly the blocks of the files, the inode bitmap exactly
\* the files of the directory; no block is in two places; and a block that is
\* free is zeroed, which is what a hole, and a new block of pointers, rely on.
BlocksAccounted ==
    /\ data_bitmap = {b - 1 : b \in UNION {tree(f) : f \in Inode}}
    /\ inode_bitmap = {Root} \cup {dirents[i].inode_number : i \in DOMAIN dirents}
    /\ \A f \in Inode :
        /\ Cardinality(tree(f)) = tree_size(data_blocks(inodes[f].size))
        /\ \A g \in Inode \ {f} : tree(f) \cap tree(g) = {}
    /\ \A b \in Device \ {0} : b - 1 \notin data_bitmap => \A c \in Cell : store[b][c] = 0

\* What reading the file returns.  Nothing was ever written to a block behind
\* the device.
read_all(f) ==
    [i \in 1 .. inodes[f].size |->
        LET b == get_block_id(store, inodes[f], (i - 1) \div PerBlock)
        IN  IF b \in Device THEN store[b][(i - 1) % PerBlock] ELSE 0]

directory ==
    LET ds == dirents
        id(n) == ds[CHOOSE i \in DOMAIN ds : ds[i].name = n].inode_number
    IN  [n \in {ds[i].name : i \in DOMAIN ds} |-> read_all(id(n))]

Store == INSTANCE EasyStore WITH Zero <- 0, Name <- Name \cup FullName, files <- directory

\* A file reads back what was written to it, under the name it was created
\* with, and every call changes at most the file it names: across the direct,
\* indirect and double indirect parts, over blocks that other files gave back,
\* and over the holes of writes behind the end.
ImplementsStore == Store!StoreSpec

\* Nothing is on the disk yet that a later call would trip over: a name
\* without a NUL, or a block behind the device in a hole.
healthy ==
    /\ \A i \in DOMAIN dirents : dirents[i].name \in Name
    /\ data_bitmap \subseteq 0 .. DataBlocks - 1

\* The device has the blocks for file f to be of size n.
room(f, n) ==
    Cardinality(data_bitmap) + tree_size(data_blocks(n)) - Cardinality(tree(f)) <= DataBlocks

\* The call is one that easy-fs has to serve: what it writes is not empty and
\* not behind the largest file, and the blocks and the inode it needs are free.
fair(c) ==
    CASE c.op = "create" ->
            /\ c.name \in Name /\ inode_bitmap # Inode
            /\ inodes[Root].size < INDIRECT2_BOUND * PerBlock
            /\ room(Root, inodes[Root].size + 1)
      [] c.op = "write_at" ->
            /\ c.len > 0 /\ c.offset + c.len <= INDIRECT2_BOUND * PerBlock
            /\ c.offset + c.len <= inodes[c.file].size \/ room(c.file, c.offset + c.len)
      [] OTHER -> TRUE

\* A call that easy-fs has to serve never panics: no unwrap, no assertion and
\* no index of the path from the file to its blocks fails.
ServesFairCalls ==
    [][running /\ healthy /\ panicked' # NoCall => ~fair(panicked')]_vars
================================================================================
