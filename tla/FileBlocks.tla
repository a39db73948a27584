------------------------------ MODULE FileBlocks ------------------------------
(***************************************************************************)
(* The blocks of the files of one ext4 file system (ext4-fs/src/vfs.rs):   *)
(* the extent tree of every inode, the block bitmap, the contents of the   *)
(* blocks, and EXTENTS_CACHE, the global cache of parsed extent lists.     *)
(*                                                                         *)
(* An inode keeps up to EXTENTS_IN_INODE extents itself; a longer list is  *)
(* written to fresh leaf blocks under the inode (depth 1) or under index   *)
(* blocks (depth 2), and the blocks of the old tree are freed after that.  *)
(* Each call is one step: the kernel calls ext4-fs under one lock.  Block  *)
(* contents are what the block cache gives its callers (BlockCache), and   *)
(* the allocator is the search of GroupAlloc on a device of one group.     *)
(* Offsets are whole blocks.                                               *)
(*                                                                         *)
(* Every inode is one with extents: those ext4-fs makes are, and those of  *)
(* an image made by mke2fs -t ext4, as ext4-fs-packer makes it.  Nothing   *)
(* below holds of an inode with the pointers of ext2 or ext3: a write      *)
(* succeeds there and drops its blocks, clear frees none (FileMap).        *)
(***************************************************************************)
EXTENDS ExtentList, SequencesExt

CONSTANTS
    RegFile,        \* regular files
    Dir,            \* directories: they grow block by block, and never shrink
    Value,          \* what a data block can hold
    Zero,           \* the all-zero block
    NotData,        \* what reading a node of a tree as data gives
    NotCached,      \* no entry in EXTENTS_CACHE
    InInode,        \* EXTENTS_IN_INODE
    PerNode,        \* EXTENTS_PER_NODE
    CacheMax        \* EXTENTS_CACHE_MAX

File == RegFile \cup Dir

ASSUME FileAssumption ==
    /\ IsFiniteSet(PBlock) /\ PBlock # {} /\ 0 \notin PBlock
    /\ 0 \in LBlock
    /\ Zero \in Value
    /\ RegFile \cap Dir = {}
    /\ InInode \in Nat \ {0} /\ PerNode \in Nat \ {0} /\ CacheMax \in Nat \ {0}

VARIABLES
    used,     \* the block bitmap
    cursor,   \* next_alloc_block
    store,    \* store[b]: the content of block b
    inode,    \* inode[f]: size, i_blocks, and the root of the extent tree
    ecache,   \* EXTENTS_CACHE
    ret       \* what the last call did, or its error

vars == <<used, cursor, store, inode, ecache, ret>>

-------------------------------------------------------------------------------
\* Contents of a block: data, a leaf of extents, or an index of child blocks.
data_block(v) == [kind |-> "data", v |-> v]
leaf_block(es) == [kind |-> "leaf", depth |-> 0, entries |-> es]
index_block(es, d) == [kind |-> "index", depth |-> d, entries |-> es]

empty_inode == [size |-> 0, blocks |-> 0, depth |-> 0, entries |-> <<>>]

\* create_dir: a directory is born with the block of its "." and "..".
new_dir(b) ==
    [size |-> 1, blocks |-> 1, depth |-> 0, entries |-> <<new_extent(0, b)>>]

\* The elements of S in the order given by before.
in_order(S, before(_, _)) ==
    [i \in 1 .. Cardinality(S) |->
        CHOOSE a \in S : Cardinality({b \in S : before(b, a)}) = i - 1]

\* The free blocks in the order alloc_block hands them out: from the cursor
\* to the end of the device, then from its start.
alloc_before(a, b) == IF (a >= cursor) = (b >= cursor) THEN a < b ELSE a >= cursor
free_order_unchecked == in_order({b \in PBlock : b >= cursor \/ b \notin used}, alloc_before)
free_order == in_order(PBlock \ used, alloc_before)

free_count == Cardinality(PBlock \ used)

\* next_alloc_block after blocks bs were handed out.
after(bs) == IF bs = <<>> THEN cursor ELSE bs[Len(bs)] + 1

\* parse_extent_tree_recursive: the extents below an index entry of a node of
\* depth 1, and of depth 2; a child of another depth is skipped.
is_node(b, d) == store[b].kind # "data" /\ store[b].depth = d
leaf_extents(b) == IF is_node(b, 0) THEN store[b].entries ELSE <<>>
index_extents(b) ==
    IF is_node(b, 1)
    THEN FlattenSeq([i \in 1 .. Len(store[b].entries) |-> leaf_extents(store[b].entries[i].child)])
    ELSE <<>>

parse_extent_tree(ino) ==
    IF ino.depth = 0 THEN ino.entries
    ELSE FlattenSeq([i \in 1 .. Len(ino.entries) |->
                        IF ino.depth = 1 THEN leaf_extents(ino.entries[i].child)
                        ELSE index_extents(ino.entries[i].child)])

\* extent_tree_blocks: the leaf and index blocks of the tree.
children(entries) == {entries[i].child : i \in 1 .. Len(entries)}

\* The children of index blocks forgotten.
extent_tree_blocks_top(ino) == IF ino.depth < 2 THEN {} ELSE children(ino.entries)

extent_tree_blocks(ino) ==
    IF ino.depth = 0 THEN {}
    ELSE LET top == children(ino.entries)
         IN  IF ino.depth = 1 THEN top
             ELSE top \cup UNION {children(store[b].entries) : b \in top}

\* The physical blocks of extent list es.
extent_blocks(es) == UNION {es[i].start .. es[i].start + es[i].len - 1 : i \in 1 .. Len(es)}

extents_blocks_count(es) == FoldLeft(LAMBDA n, e : n + e.len, 0, es)

-------------------------------------------------------------------------------
\* EXTENTS_CACHE
cached_files(c) == {f \in File : c[f] # NotCached}

extents_cache_put(c, f, es) ==
    IF Cardinality(cached_files(c)) >= CacheMax
    THEN [g \in File |-> IF g = f THEN es ELSE NotCached]
    ELSE [c EXCEPT ![f] = es]

extents_cache_invalidate_none(c, f) == c
extents_cache_invalidate(c, f) == [c EXCEPT ![f] = NotCached]

\* The list a call works on: the cached one, else the tree.
current_extents(f) ==
    IF ecache[f] # NotCached THEN ecache[f] ELSE parse_extent_tree(inode[f])

-------------------------------------------------------------------------------
\* The shape of a tree of n extents.
nodes_for(n) == (n + PerNode - 1) \div PerNode

\* One extent too many for the inode.
tree_depth_full(n) ==
    IF n <= InInode + 1 THEN 0 ELSE IF nodes_for(n) <= InInode THEN 1 ELSE 2

tree_depth(n) ==
    IF n <= InInode THEN 0 ELSE IF nodes_for(n) <= InInode THEN 1 ELSE 2

need_leaf(n) == IF tree_depth(n) = 0 THEN 0 ELSE nodes_for(n)
need_index(n) == IF tree_depth(n) < 2 THEN 0 ELSE nodes_for(nodes_for(n))

supported(n) == tree_depth(n) < 2 \/ nodes_for(nodes_for(n)) <= InInode

\* Node i of a level with s below it, PerNode entries to a node.
chunk(s, i) ==
    SubSeq(s, (i - 1) * PerNode + 1, IF i * PerNode < Len(s) THEN i * PerNode ELSE Len(s))

\* Index entries for child blocks, each over stride extents of es.
index_entries_unscaled(blocks, es, stride) ==
    [i \in 1 .. Len(blocks) |-> [block |-> es[i].block, child |-> blocks[i]]]
index_entries(blocks, es, stride) ==
    [i \in 1 .. Len(blocks) |->
        [block |-> es[(i - 1) * stride + 1].block, child |-> blocks[i]]]

\* The root of the tree over leaf blocks lb and index blocks ib.
root_entries(es, lb, ib) ==
    IF tree_depth(Len(es)) = 0 THEN es
    ELSE IF tree_depth(Len(es)) = 1 THEN index_entries(lb, es, PerNode)
    ELSE index_entries(ib, es, PerNode * PerNode)

\* store with the nodes written.
with_tree(st, es, lb, ib) ==
    [b \in PBlock |->
        IF \E i \in 1 .. Len(lb) : lb[i] = b
        THEN leaf_block(chunk(es, CHOOSE i \in 1 .. Len(lb) : lb[i] = b))
        ELSE IF \E i \in 1 .. Len(ib) : ib[i] = b
        THEN index_block(chunk(index_entries(lb, es, PerNode),
                               CHOOSE i \in 1 .. Len(ib) : ib[i] = b), 1)
        ELSE st[b]]

with_data(st, B, v) == [b \in PBlock |-> IF b \in B THEN data_block(v) ELSE st[b]]

-------------------------------------------------------------------------------
\* Every inode has extents (EXT4_EXTENTS_FL).
Init ==
    /\ \E home \in [Dir -> PBlock] :
        /\ IsInjective(home)
        /\ used = Range(home)
        /\ inode = [f \in File |-> IF f \in Dir THEN new_dir(home[f]) ELSE empty_inode]
    /\ cursor = 0
    /\ store \in {[b \in PBlock |-> data_block(v)] : v \in Value}
    /\ ecache = [f \in File |-> NotCached]
    /\ ret = "read"

\* The blocks of lo .. hi - 1 that list es does not map, in order.
unmapped_but_last(es, lo, hi) ==
    in_order({l \in lo .. hi - 2 : map_logical_block(es, l) = NoBlock}, <)
unmapped(es, lo, hi) ==
    in_order({l \in lo .. hi - 1 : map_logical_block(es, l) = NoBlock}, <)

\* List es with pairs ls[i], bs[i] inserted one by one.
add_all(es, ls, bs) ==
    LET added[i \in 0 .. Len(ls)] ==
            IF i = 0 THEN es ELSE insert_block_mapping(added[i - 1], ls[i], bs[i])
    IN  added[Len(ls)]

\* The allocation loop of ensure_write_blocks and ensure_blocks runs out of
\* blocks at one of the n it needs; the ones it got stay allocated.
grow_no_data(n, c) ==
    /\ free_count < n
    /\ used' = PBlock
    /\ cursor' = after(free_order)
    /\ store' = with_data(store, PBlock \ used, Zero)
    /\ ecache' = c
    /\ ret' = "NoSpace"
    /\ UNCHANGED inode

\* The n data blocks are there and write_extents_to_inode fails: the list is
\* too long, or the blocks of the tree are not there.  It frees the tree
\* blocks it got; the data blocks stay allocated.
grow_no_tree(n, es, c) ==
    LET bs == SubSeq(free_order, 1, n)
        lb == SubSeq(free_order, n + 1, n + need_leaf(Len(es)))
        zeroed == with_data(store, ToSet(bs), Zero)
        leaves == free_count >= n + need_leaf(Len(es))
    IN  /\ free_count >= n
        /\ ~supported(Len(es))
              \/ free_count < n + need_leaf(Len(es)) + need_index(Len(es))
        /\ used' = used \cup ToSet(bs)
        /\ cursor' = after(IF supported(Len(es)) THEN free_order ELSE bs)
        /\ store' = IF supported(Len(es)) /\ leaves
                    THEN with_tree(zeroed, es, lb, <<>>) ELSE zeroed
        /\ ecache' = c
        /\ ret' = IF supported(Len(es)) THEN "NoSpace" ELSE "Unsupported"
        /\ UNCHANGED inode

\* All blocks are there: file f, of size sz after the call, gets list es on
\* n new data blocks and a new tree, and the blocks of the old tree are freed.
\* The call then writes v to the blocks ws of the file.
grow(f, n, es, c, sz, ws, v) ==
    LET nl == need_leaf(Len(es))
        ni == need_index(Len(es))
        all == SubSeq(free_order, 1, n + nl + ni)
        bs == SubSeq(all, 1, n)
        lb == SubSeq(all, n + 1, n + nl)
        ib == SubSeq(all, n + nl + 1, n + nl + ni)
        tree == with_tree(with_data(store, ToSet(bs), Zero), es, lb, ib)
    IN  /\ supported(Len(es)) /\ free_count >= n + nl + ni
        /\ used' = (used \cup ToSet(all)) \ extent_tree_blocks(inode[f])
        /\ cursor' = after(all)
        /\ store' = with_data(tree, {map_logical_block(es, l) : l \in ws}, v)
        /\ inode' = [inode EXCEPT ![f] =
                        [size |-> sz, blocks |-> extents_blocks_count(es),
                         depth |-> tree_depth(Len(es)),
                         entries |-> root_entries(es, lb, ib)]]
        /\ ecache' = extents_cache_put(extents_cache_invalidate(c, f), f, es)
        /\ ret' = "written"

\* write_at of blocks lo .. hi - 1 of a regular file.
write_at(f, lo, hi, v) ==
    LET es == current_extents(f)
        ls == unmapped(es, lo, hi)
        es2 == add_all(es, ls, free_order)
        sz == IF hi > inode[f].size THEN hi ELSE inode[f].size
    IN  \/ /\ ls = <<>>
           /\ ecache' = extents_cache_put(ecache, f, es)
           /\ store' = with_data(store, {map_logical_block(es, l) : l \in lo .. hi - 1}, v)
           /\ inode' = [inode EXCEPT ![f].size = sz]
           /\ ret' = "written"
           /\ UNCHANGED <<used, cursor>>
        \/ /\ ls # <<>>
           /\ grow_no_data(Len(ls), ecache)
        \/ /\ ls # <<>> /\ free_count >= Len(ls)
           /\ \/ grow_no_tree(Len(ls), es2, ecache)
              \/ grow(f, Len(ls), es2, ecache, sz, lo .. hi - 1, v)

\* EXTENTS_CACHE after the scan of directory d: ensure_blocks puts the list,
\* and the lookup of the name before it may have put it too (it reads the
\* directory only when the directory index does not know it).
scanned(d, es) ==
    LET looked_up == IF ecache[d] # NotCached THEN ecache
                     ELSE extents_cache_put(ecache, d, es)
    IN  {extents_cache_put(c, d, es) : c \in {ecache, looked_up}}

\* dir_add_entry when no block of the directory has room for the entry: the
\* scan fills the cache, then the directory grows by the block that gets it.
dir_add_block(d, v) ==
    LET es == current_extents(d)
        n == inode[d].size
        es2 == push_block_to_extents(es, n, free_order[1])
    IN  /\ n \in LBlock
        /\ is_end(es, n)
        /\ \E c \in scanned(d, es) :
            \/ grow_no_data(1, c)
            \/ /\ free_count >= 1
               /\ \/ grow_no_tree(1, es2, c)
                  \/ grow(d, 1, es2, c, n + 1, {n}, v)

\* dir_add_entry when block l has room for the entry.
dir_add_in_place(d, l, v) ==
    LET es == current_extents(d)
    IN  /\ l < inode[d].size
        /\ store' = with_data(store, {map_logical_block(es, l)}, v)
        /\ ecache' \in scanned(d, es)
        /\ ret' = "written"
        /\ UNCHANGED <<used, cursor, inode>>

\* dir_remove_entry of an entry of block l: it goes by the tree.
dir_remove_entry(d, l, v) ==
    /\ l < inode[d].size
    /\ store' = with_data(store, {map_logical_block(parse_extent_tree(inode[d]), l)}, v)
    /\ ret' = "written"
    /\ UNCHANGED <<used, cursor, inode, ecache>>

\* free_all_blocks goes by the tree, not by the cache.
clear(f) ==
    /\ used' = used \ (extent_blocks(parse_extent_tree(inode[f]))
                          \cup extent_tree_blocks(inode[f]))
    /\ inode' = [inode EXCEPT ![f] = empty_inode]
    /\ ecache' = extents_cache_invalidate(ecache, f)
    /\ ret' = "truncated"
    /\ UNCHANGED <<cursor, store>>

\* read_at inside the file fills the cache; what it returns is read_block.
read_at(f) ==
    /\ inode[f].size > 0
    /\ ecache' = IF ecache[f] # NotCached THEN ecache
                 ELSE extents_cache_put(ecache, f, parse_extent_tree(inode[f]))
    /\ ret' = "read"
    /\ UNCHANGED <<used, cursor, store, inode>>

Next ==
    \/ \E f \in RegFile, lo, hi \in LBlock \cup {l + 1 : l \in LBlock}, v \in Value :
           lo < hi /\ write_at(f, lo, hi, v)
    \/ \E d \in Dir, v \in Value : dir_add_block(d, v)
    \/ \E d \in Dir, l \in LBlock, v \in Value : dir_add_in_place(d, l, v)
    \/ \E d \in Dir, l \in LBlock, v \in Value : dir_remove_entry(d, l, v)
    \/ \E f \in RegFile : clear(f)
    \/ \E f \in File : read_at(f)

Spec == Init /\ [][Next]_vars

-------------------------------------------------------------------------------
\* Every variable has its type, and the root of a tree fits into its inode.
TypeOK ==
    /\ used \subseteq PBlock
    /\ cursor \in Nat
    /\ DOMAIN store = PBlock
    /\ DOMAIN inode = File
    /\ \A f \in File : inode[f].depth \in 0 .. 2 /\ Len(inode[f].entries) <= InInode
    /\ ecache \in [File -> Seq(Extent) \cup {NotCached}]
    /\ ret \in {"written", "truncated", "read", "NoSpace", "Unsupported"}

\* The blocks of f: of its data and of its tree.
data_blocks(f) == extent_blocks(parse_extent_tree(inode[f]))
owned(f) == data_blocks(f) \cup extent_tree_blocks(inode[f])

\* Every block has one owner: no block is in two files, in two places of a
\* file, or both data and node, and the bitmap has every block of a file.
OneOwner ==
    /\ \A f \in File :
        /\ owned(f) \subseteq used
        /\ data_blocks(f) \cap extent_tree_blocks(inode[f]) = {}
        /\ Cardinality(data_blocks(f)) = inode[f].blocks
    /\ \A f, g \in File : f # g => owned(f) \cap owned(g) = {}

\* A cached list is the list the tree of the inode holds.
CacheCoherent ==
    \A f \in File : ecache[f] # NotCached => ecache[f] = parse_extent_tree(inode[f])

\* The trees written are trees another ext4 can read: sorted extents, at most
\* PerNode entries to a node, and every index entry has the first logical
\* block below it.
first_block(b) == IF store[b].kind = "data" THEN NoBlock ELSE store[b].entries[1].block
TreesSound ==
    \A f \in File :
        /\ sorted(parse_extent_tree(inode[f]))
        /\ \A b \in extent_tree_blocks(inode[f]) : Len(store[b].entries) \in 1 .. PerNode
        /\ inode[f].depth > 0 => \A i \in 1 .. Len(inode[f].entries) :
               inode[f].entries[i].block = first_block(inode[f].entries[i].child)
        /\ \A b \in extent_tree_blocks(inode[f]) : store[b].kind = "index" =>
               \A i \in 1 .. Len(store[b].entries) :
                   store[b].entries[i].block = first_block(store[b].entries[i].child)

\* A call on inodes with extents that succeeds leaks nothing: blocks that are in
\* use and in no file only come from calls that fail.
leaked == used \ UNION {owned(f) : f \in File}
LeakOnlyOnError ==
    [][ret' \notin {"NoSpace", "Unsupported"} => leaked' \subseteq leaked]_vars

\* What read_at returns for the blocks of file f: it goes by the cache.  A
\* block that is not mapped is a hole, and reads as zeros.
read_block(f) ==
    LET es == current_extents(f)
    IN  [l \in LBlock |->
            LET b == map_logical_block(es, l)
            IN  IF b = NoBlock THEN Zero
                ELSE IF store[b].kind = "data" THEN store[b].v ELSE NotData]

\* The files as their readers see them.
Files == INSTANCE FileStore
    WITH data <- [f \in File |-> read_block(f)], size <- [f \in File |-> inode[f].size]

\* A file with extents reads back what was written to it.  Allocation, the tree, the cache
\* and freed blocks that keep old contents never show, and a call that fails
\* changes no file.
ImplementsFiles == Files!StoreSpec

\* And it is the call that was made: write_at that succeeds changes the blocks it
\* was asked to write, of the file it was asked for, to what it was given, and
\* clear empties its file.
all_read == [f \in File |-> read_block(f)]
as_asked ==
    /\ ret' = "written" =>
         \A f \in RegFile, lo, hi \in LBlock \cup {l + 1 : l \in LBlock}, v \in Value :
             lo < hi /\ write_at(f, lo, hi, v) =>
                 Files!Write(all_read, all_read', f, lo, hi, v)
    /\ ret' = "truncated" =>
         \A f \in RegFile : clear(f) => Files!Truncate(all_read, all_read', f)
CallsDoAsAsked == [][as_asked]_vars
================================================================================
