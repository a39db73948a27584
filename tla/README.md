# A TLA+ verification of the CongCore file systems and shell

This directory models the parts of the repository that carry its own logic and
can be checked: the write-back block cache of `ext4-fs`, its allocators, its
extent lists and extent trees, its files, and its directories; the `easy-fs`
file system; and the pipelines of the shell. The modules are
checked with TLC on small instances, and the central results are proved with
TLAPS for every instance.

To check a run: `tlc -config <cfg> <module>`, with the pairs of the table under
*Runs*. To check a proof: `tlapm <module>` for the eight `*Proofs` modules.

## The system

The repository is the workspace of a teaching kernel. The kernel itself (`os/`)
and the guide (`OSGuide/`) are submodules and not part of it. What it holds:

| component | state | operations | used by |
|---|---|---|---|
| block cache, `ext4-fs/src/block_cache.rs` | one global manager: entries by (block, device), a stamp per entry, a queue of (key, stamp) records; per entry the bytes and a dirty flag | get (hit, miss with read-ahead), get zeroed, evict, compact the queue, read, modify, sync, sync all, drop | everything below |
| allocators, `ext4-fs/src/ext4.rs` | a block and an inode bitmap per group (through the cache), two cursors | alloc and dealloc of a block, of an inode | files, directories |
| extent lists, `ext4-fs/src/vfs.rs` 1295-1408 | a sorted list of extents | look up, insert, append | files, directories |
| file blocks, `ext4-fs/src/vfs.rs` 569-1604 | the extent tree of every inode, `EXTENTS_CACHE` | read_at, write_at, clear, growth of a directory | the kernel's VFS |
| indirect files, `ext4-fs/src/vfs.rs` 569-605, 801-894 | the pointers of an ext2/ext3 inode | read_at, which follows them; write_at and clear, which are not refused and ignore them | the kernel's VFS |
| directories and links, `ext4-fs/src/vfs.rs` 1606-2216 | entries of directory blocks, `DIR_INDEX_CACHE`, link counts | find, create, mkdir, symlink, link, unlink, rmdir, rename | the kernel's VFS |
| mount and layout, `ext4.rs`, `layout.rs` | super block, group descriptors, on-disk structs | open, inode positions | all of `ext4-fs` |
| easy-fs, `easy-fs/src` | the smaller teaching file system with its own cache, bitmaps and inodes | create, read, write, clear, ls | easy-fs-fuse, the kernel |
| image tools, `easy-fs-fuse`, `ext4-fs-packer` | files of the host | pack an image | the build |
| user shell and runners, `user/src/bin` | pipelines, environment, scripts, child processes | parse, fork, exec, pipe, wait | init |
| user library, `user/src/lib.rs`, `syscall/` | none | wrappers of system calls | programs |
| `vendor/`, `testsuits-for-oskernel`, extra images | third party | | |

**Interaction.** All of `ext4-fs` reaches a device through
`get_block_cache` and `get_block_cache_zeroed`: the manager's spin lock is taken,
an `Arc` of the entry is returned, the lock is released, and the caller then
locks the entry itself. The `Arc` pins the entry: eviction skips an entry whose
count is above one. Dropping the last `Arc` writes a dirty block back. A file
system is one more mutex (`Inode::fs`), taken by every call that allocates, and
the kernel wraps all calls in one lock (`.github/copilot-instructions.md`,
lines 50 and 58: "currently guarded by a global `ext4_lock()`", "serializes all
filesystem ops"). The kernel mounts two images, so two devices share the one
cache.

**What is hard.** Eviction against threads that hold or are about to lock a
handle; records in the queue that are out of date; a range read before the
evictions it causes; sync against writers; the search of the allocator around
group borders and the end of the device; extents that merge on one side, on both
or not at all at the length limit; a tree replaced by another while the old one
still holds the file; a cached extent list that outlives its tree; a device that
is full in the middle of a call; records of a directory that are freed, used
again and split; a directory index beside the blocks it was read from; link
counts at their limit. In `easy-fs`: three functions that each count the blocks of
pointers, blocks that must be zero when they are given out, a bitmap larger than
the device. In the shell: the ends of pipes that fork multiplies, failures between
two forks, and waits for children that end in any order. `PROJECT.json` lists them
under `hazards`, each at its line.

**What makes a component correct.**

* cache: callers see a store of atomic blocks; no dirty block is dropped unwritten;
  one copy of a block; bounded size; what sync covers is on the device; the
  manager's lock is always released.
* allocators: a unit is handed out only when free and on the device, refused only
  when none is free; nothing else in the bitmap changes.
* extent lists: a finite map from file blocks to device blocks, sorted, extended
  by one pair per insertion.
* file blocks: files read back what was written; a block has one owner; the
  cached list is the tree; only a failing call leaks blocks.
* directories: a name maps to one inode, in the index as on disk; the link count
  is the number of names; an inode is freed with its last name.
* easy-fs: named files that read back what was written; the bitmaps have exactly
  what the files use; no call panics that the device has room for.
* shell: each command has its own ends of pipes and no other; the prompt comes
  back when the commands have ended, with the status of the last one.

## Modules

| module | models | how |
|---|---|---|
| `BlockStore` | abstract | blocks with atomic contents, threads that enter a block, read, write, leave |
| `BlockCache` | `block_cache.rs` | below |
| `MCBlockCache` | | threads and their symmetry |
| `BlockCacheProofs` | | theorems |
| `Allocator` | abstract | a set of used units; hand out any free one, or none when none is free; free the one named |
| `GroupAlloc` | `alloc_block`, `dealloc_block`, `find_and_alloc_bit_from` | bitmaps per group, two passes from a cursor |
| `Ext4Alloc` | the allocators of one `Ext4FileSystem` | `GroupAlloc` for the blocks, a second instance of it for the inodes |
| `GroupAllocProofs` | | theorems |
| `BlockMap` | abstract | a partial map that grows by one pair at a time |
| `ExtentList` | lookup, insertion, appending | pure operators on sequences of extents |
| `Extents` | a file that gets blocks in any order | the list as a state machine |
| `ExtentsProofs` | | theorems |
| `FileStore` | abstract | files as arrays of blocks with a size |
| `FileBlocks` | trees, `EXTENTS_CACHE`, `write_at`, `clear`, `read_at`, directory growth | below |
| `MCFileBlocks` | | a small device, and a large one with a bound on the number of calls |
| `FileBlocksProofs` | | theorems |
| `IndirectFile` | `read_indirect`, `get_block_num` | an image with null pointers at any place, one read |
| `FileMap` | the choice by `uses_extents`; what a write and `clear` do to an inode with pointers | `Extents` and `IndirectFile`, the second until a call overwrites the pointers |
| `Ext4LayoutProofs` | | theorems about `Ext4Alloc` and `IndirectFile` |
| `NameSpace` | abstract | a set of names, each in one directory and for one file |
| `Ext4Dir` | directory entries, `DIR_INDEX_CACHE`, link counts, the calls on names | below |
| `MCExt4Dir` | | sizes of records, symmetry |
| `Ext4DirProofs` | | theorems |
| `EasyStore` | abstract | named sequences: create, overwrite with zeros in the gap, empty |
| `EasyFs` | `easy-fs/src` without its cache | below |
| `MCEasyFs` | | buffers, a bound on the number of calls |
| `EasyFsProofs` | | theorems |
| `Pipeline` | pipelines of `00shell` and `testcode_runner` | below |
| `PipelineProofs` | | theorems |

### BlockCache

`cache[k]` is the content of the entry of key `k` or `Absent`; `modified` are the
dirty keys; `disk` is the device; `queue` the eviction records. A 64-bit stamp is
compared only with the stamp of its entry, and is fresh on every use, so a record
carries `current` instead: "my stamp is the entry's". `compact_queue` puts the
entries back in key order, with the limit `CacheSize * QueueMult` (8 in the code).
`evict_one` pops records until the first one that is current and whose entry no
thread has a handle on; its bound on records looked at is one more than the queue
holds, and so never ends the loop. `evict_one_panic` is the panic at the end.

The manager's lock is `op # "idle"` with its `holder`; a call that misses is
several steps (`get_block_cache_miss` reads the range, then `evict_one`,
`load_block_present` and `load_block_insert` run the loop) between which other
threads go on with blocks they already have: `lock_block`, `read`, `modify`,
`unlock_block`, `drop_handle`. `block_cache_sync_all` takes the manager's lock,
then `sync(k)` takes every entry in key order, waiting for its block lock.
`guard_sync` is a caller's own `sync` of the block it has locked (`create_dir`,
`vfs.rs:1978`).

A caller's discipline is the one of `vfs.rs` and `ext4.rs`: `get(..)`, `.lock()`,
use, unlock, drop; no caller enters the manager with a block locked. The `Arc` may
outlive the block lock and a thread may hold `MaxHandles` of them.
`MayGet` is where the bound is. A range of read-ahead that ends behind the device
is not modelled (what the device does then is not in the repository).

The threads of this model interleave as the crate's own locks allow, which is what
the crate promises its users. The kernel's `ext4_lock()` lets one call in at a time
today; what needs two threads with a handle each (`cache_panic`) waits for that lock
to be made finer.

### GroupAlloc and Ext4Alloc

Units `First .. Total - 1` in groups of `PerGroup`, as blocks
(`s_first_data_block`, `blocks_count`) and as inodes (1, and one past the last).
`alloc` is the whole search: pass 0 from the cursor's group (from its bit in the
first group), pass 1 the groups before it. As in the code, pass 1 does not look
at the cursor's own group again; `find_and_alloc_bit_from` wraps inside a group
instead, and `ImplementsAllocator` shows that the two together miss nothing.
`dealloc` ignores numbers outside the device, as the code does. `Ext4Alloc`
extends it, as the block allocator, with an instance of it for the inodes: the two
share the groups and run side by side, with the reserved inodes marked, as
`mke2fs` leaves them.
`bitmap.rs` is an older allocator that nothing calls.

### ExtentList and Extents

`insert_block_mapping` and `push_block_to_extents` keep the shape of the source:
position, merge with the extent before, with the one behind, join of all three,
new extent. `MaxLen` is 0x7FFF, the length above which ext4 reads an extent as
uninitialised. The device gives fresh blocks; file blocks come in any order
(`insert`, from `ensure_write_blocks`) or at the end (`push`, from
`ensure_blocks`).

### FileBlocks

`inode[f]` holds size, block count and the root of the tree: a list of extents
(depth 0) or index entries (depth 1, 2); `store[b]` is the content of a block:
data, a leaf, or an index. `used` and `cursor` are the block allocator on a device
of one group: the order `free_order` of the free blocks from the cursor on.
`ecache` is `EXTENTS_CACHE`, emptied when full, as in the code.

Every call is one action and ends in one of these: nothing to allocate; data
blocks run out (`grow_no_data`: the blocks taken so far stay allocated and
zeroed, the inode is untouched); the tree cannot be built (`grow_no_tree`: list
too long, or no block for a leaf or an index; tree blocks are given back, data
blocks stay allocated); success (`grow`: data blocks, leaves, indexes, new root,
old tree freed, cache invalidated and filled again, contents written).
`dir_add_block` and `dir_add_in_place` are `dir_add_entry` for its blocks: the
scan, and the write or the growth. `clear` frees by the tree, not by the cache.

Every inode of this module has `EXT4_EXTENTS_FL`: the files and directories
`ext4-fs` makes have it, and so have those of the images of `ext4-fs-packer`
(`mke2fs -t ext4`, `ext4-fs-packer/src/main.rs:148`). All the properties and
theorems of the module, `LeakOnlyOnError` and `ImplementsFiles` among them, are
about such inodes. `FileMap` has the others, and there they do not hold.

`ImplementsFiles` says that a step is some step of `FileStore`; it leaves open
which. `CallsDoAsAsked` (in the run, `CallsAsAsked`) says which: a `write_at` that succeeds shows the value it
was given in the blocks it was given and nowhere else, and `clear` empties the
file it was called on.

Abstractions. Calls are atomic, because of the kernel's lock. Offsets are whole
blocks. A directory is born with one block (`create_dir`) and never shrinks. The
check of `parse_extent_tree` against blocks visited twice is left out: `OneOwner`
shows that no tree written here has one. Symbolic links kept inside the inode,
uninitialised extents of foreign images and the saturation of 32-bit arithmetic
are left out.

### IndirectFile and FileMap

A block is named by the path of pointers to it, so a lookup that goes wrong gets
a different name. `holes` are null pointers anywhere, on data or on pointer
blocks. The reference is the order of the paths on disk.

`IndirectFile` is the read. `FileMap` is the inode around it. Reading is all that
`ext4-fs` can do with pointers, but the other calls do not refuse an inode that has
them: they take the empty extent list for the `Unsupported` they are answered
(`unwrap_or_default`, `vfs.rs:1414`, 1458, 1587). So `add_block`, a write that gets a
block, starts a list, sets the flag and overwrites the pointers, and `clear` frees
the blocks of the empty list, which are none. A write that succeeds thus loses the
rest of the file, and its blocks stay allocated without an owner, also when `clear`
or the last `unlink` comes instead. The comments say "Write data to inode at given
offset." (`vfs.rs:1500`) and "frees all data blocks" (`vfs.rs:1561`). It takes an
image made elsewhere: the tools of this repository make inodes with extents only.
No run states a promise about such a file once it is written: the code keeps none.
The extent list of `Extents` starts
empty for this reason as well as for a new file.

### Ext4Dir

`dirs[i]` are the blocks of directory `i`, each the sequence of its records with
name, inode number, type and `rec_len` (in units of 4 bytes; `Need[n]` is the
space name `n` takes). `inode[i]` has mode, link count and number of blocks,
`used` is the inode bitmap, `free` the number of free data blocks and `index` is
`DIR_INDEX_CACHE`, emptied when it is full.

Each public call is one action: `find`, `create_file`, `create_special`,
`create_symlink` (these three share `new_entry`), `link_inode`, `create_dir`,
`unlink` (of a file and of a directory) and `rename`. `dir_add_entry` is the
search of the code: the first record that is free and large enough, or that has
room behind its name, else a new block, else `NoSpace`. `dir_remove_entry` zeroes
an inode number and leaves the record. Every action goes through the index where
the code calls `find`, and through the blocks where it calls `ls` or
`dir_remove_entry`. `loses` and `gives_back` are what a failing call does with the
inode it got: `create_dir` loses it when there is no data block, as in the code,
and every other failure gives it back. `done` is what the call did to the names,
for the refinement of `NameSpace`; it is "none" for a lookup and for every error.

Abstractions. Calls are atomic. Handles are on inodes that a lookup finds: the
kernel defers the last `unlink` of an open file (comment at `vfs.rs:2148`). Directories have extents, as in `FileBlocks`. Any
free inode may be handed out (`Ext4Alloc` has the search). Blocks are counted, and
a directory stays small enough for the extents in its inode (`FileBlocks` has the
trees). An inode that is not in use is `no_inode`: what it leaves on disk is
overwritten by the call that gets the number before anything reads it. A file gets
no data here except the target of a symbolic link: one of at most 60 bytes stays in
the inode, a longer one takes a block if there is one, and `target_data` allows
both. `ImplementsNames` says that a call is some step of `NameSpace` and leaves the
name it is about to `done`. Calls with
an empty name, `.` or `..`, or on something that is no directory return at once
and are left out, and so is `repair_mode_if_missing`, which acts on inodes without
a type only.

### EasyFs

A block is `PerBlock` cells; a cell is a pointer, a directory entry or a piece of
a file, so block borders, pointer-block borders and entry borders are where they
are in the code with 512 bytes. `inodes`, `store` and the two bitmaps are the
disk. `places` lists where `DiskInode::increase_size` puts new blocks, in the
order it takes them from its iterator; `total_blocks` says how many the caller
allocates; `clear_size` collects what `clear` frees. They are three translations
of three pieces of code, and the properties say that they agree.

Every public call takes the lock of the file system first and keeps it, so a call
is one action, and it ends with `block_cache_sync_all`, so there is no difference
between cache and disk between two calls. A call that panics (an `unwrap`, an
assertion, a block behind the device) stops the system: `panicked` keeps the call
and nothing follows; what it had changed up to there is not kept. `fair` says
which calls must not: a legal name, a free inode and room in the directory; a write
that is not empty, ends inside the largest file, and needs no more blocks than are
free. `BitmapBits`
is larger than `DataBlocks`, as in `EasyFileSystem::create`, which rounds the
bitmap up to whole blocks: a write that does not fit is given blocks behind the
device. Names come in three lengths: those that fit, those that fill the entry
and leave no NUL, and longer ones.

### Pipeline

The shell is a program counter through the loop of `eval_stmt`, one action per
system call: `sh_pipe`, `sh_fork`, `sh_close_prev`, `sh_close_write`, after the
loop `sh_close_last`, then `sh_wait` and `sh_set_status`. A child is one action
per call as well, from `dup3` of the read end to `exec`. `who` says which of the
two programs runs: `00shell` waits for its pids in order, `testcode_runner` for
any child, once per command, and does not decode the status. pipe and fork may
fail in the shell, exec in a child. A child that finds no program says so on its
standard output, the pipe for all but the last, in the two writes that `println!`
makes of the name and the rest (`ch_not_found`), which may block or end in SIGPIPE
as any other, and exits with -1 (`ch_exit`).

The kernel is not in the repository and is modelled from how these programs use
it (marked external in the map): descriptor tables, copied by fork and emptied by
exit; the lowest free descriptor; a pipe of `PipeSize` pieces, whose reader sees
the end of file when no process holds a write end and whose writer gets SIGPIPE
when none holds a read end; zombies and `waitpid`. So are the programs of the
line: the first writes as long as it likes, the others copy their input until it
ends, any of them may exit at any time. An earlier background job may be running.

## Runs

| run | module, cfg | shows |
|---|---|---|
| `cache` | `MCBlockCache`, `BlockCache.cfg` | `TypeOK`, `NoLostWrite`, `OneCopy`, `Bounded`, `RecordsCurrent`, `SyncDurable`, `ImplementsStore`, without read-ahead (the riscv64 build) |
| `cache_readahead` | `MCBlockCache`, `BlockCacheReadAhead.cfg` | `OneCopy`, `ManagerReleased` with the read-ahead of the loongarch64 build |
| `cache_lost_write` | `MCBlockCache`, `BlockCacheLostWrite.cfg` | `ImplementsStore` is violated with read-ahead |
| `cache_panic` | `MCBlockCache`, `BlockCachePanic.cfg` | `PanicOnlyWhenPinned` is violated |
| `ext4_alloc` | `Ext4Alloc`, `Ext4Alloc.cfg` | `TypeOK`, `ImplementsAllocator`, `Sequential` of the blocks, `InodesImplement`, `ReservedInodesKept` |
| `file_maps` | `FileMap`, `FileMap.cfg` | `TypeOK`, `Ordered`, `Compact`, `PlacesPair` of extent lists, `ReadsUpToHole` of indirect files |
| `files` | `MCFileBlocks`, `FileBlocks.cfg` | `TypesOK`, `OneOwner`, `CacheCoherent`, `TreesSound`, `LeakOnlyOnError`, `ImplementsFiles`, `CallsAsAsked` |
| `indirect_holes` | `IndirectFile`, `IndirectFileHoles.cfg` | `HolesReadZero` is violated |
| `dirs` | `MCExt4Dir`, `Ext4Dir.cfg` | `TypeOK`, `IndexCoherent`, `EntriesNameInodes`, `LinkCounts`, `RecordsFit`, `BlocksCounted`, `LostOnlyWhenFull`, `ImplementsNames` with nested directories and names of three lengths |
| `dir_link_limit` | `MCExt4Dir`, `Ext4DirLinks.cfg` | `ReclaimedHaveNoName` is violated at the limit of the link count |
| `easy_fs` | `MCEasyFs`, `EasyFs.cfg` | `BlocksAccounted`, `ImplementsStore`, `ServesFairCalls` |
| `shell` | `Pipeline`, `Pipeline.cfg` | `OnlyOwnEnds`, `StatusOfLast`, `PipelineEnds` |

**Bounds.** A cache of two entries over three blocks evicts on every path that
matters: one entry pinned and one free, both pinned, a victim inside the range
being loaded. Without read-ahead a block is only a key, so `cache` takes its three
blocks from three devices with the same block number, where a key or a write-back
that forgets the device shows; the runs with read-ahead take consecutive blocks of
one device; the theorems are for any devices and blocks. `QueueMult = 2` lets `compact_queue` run within a few accesses (8
in the panic run, so that compaction does not hide it). Three groups of two
blocks, the last one of one block, give the group of the cursor, one before and
one behind it, and a cut group; every bitmap is an initial state. There is one
inode in each group, the first one reserved. Six file blocks and
six device blocks with `MaxLen = 3` reach every combination of merges, a join of
three that is refused for its length included. `files` explores a small device to
the last state: four blocks are enough for a file with a leaf beside a directory,
and for running out of blocks at each place of a call. Beside it, it allows
`MaxCalls = 4` calls on a device of eleven blocks (`TreePBlock`), where files have up
to five (`LBlock`) in place of two (`SmallLBlock`), with
extents of one block: with one entry in
the inode and two per node, two extents need a leaf, three an index and two
leaves, and five are refused as too many. Its directory is in one of the first four
blocks, where the allocator meets it. `CallsAsAsked` is checked on the small device,
with every argument of every call. `file_maps` has one direct block and two
pointers per block, so each of the three trees has all its borders, with every
placement of up to two null pointers. `PlacesPair` checks each
step against the step of `BlockMap` for the same pair; that the list implements
`BlockMap` follows from it, and is a theorem.

`easy_fs` has one direct block, two cells to a block and so two pointers in the
indirect block and four in the double indirect tree; the offsets and the buffer of
five cells end before, at and behind each border, and 0, 1 and 2 files share twelve
blocks. Within six calls (`MaxCalls`) two files are created, grown in two steps,
emptied and written again over blocks the other one gave back, and the device runs
full. `shell` has three commands (`Stages`), the least with one that has a pipe on
either side and a write end that could be left over in it, and pipes of one piece
(`PipeSize`), so that writers block; its state space is finite and explored to the
end.

`dirs` has two inodes beside the root, a short, a long and an overlong name, and
three data blocks: a directory in a directory, a file with names in both, a first
block with room for one more name, and running out of inodes, of the block for a
new directory and of the block for its entry, each by itself. A record of the long
name is used again by the short one and split, and a second block is added. Two
indexes fit in the cache: a directory is removed while its own index is cached
beside its parent's, and a lookup in the third directory empties the cache. The
instance is explored to the last state; the link count does not reach 65535 there.
`dir_link_limit` has a limit of 2, so that three names pass it.

`rename` alone passes the overlong name, of more than 255 bytes, to
`dir_add_entry`, which shortens the record in front before the name is refused
(`vfs.rs:1706`). Readers then stop at zeros. `dirs` shows that names and counts
stay right: by `RecordsFit` only the last record of a block has that much room
behind it, so only the unused end of the block is lost. That an overlong name needs
at least as much room as any other is an assumption of the module; on an image
made elsewhere, with larger gaps in the middle of a block, entries would be lost
too.

**Symmetry.** Threads are symmetric in `cache`, inodes other than the root in the
runs of `Ext4Dir`; these runs check safety only.

**Fairness.** Two properties need any. `ManagerReleased`: weak fairness of the steps of the
thread that holds the manager's lock and of unlocking a block. Both are code
between taking and releasing a spin lock: it does not block on anything else, and
the kernel does not deschedule its owner for ever. Nothing is assumed of calls:
no thread has to call anything, and none has to drop a handle. `PipelineEnds`: weak
fairness of the shell and of each process of the line, since the kernel runs every
process that is ready again and again. It covers reading, writing, seeing the end
of the input and dying of SIGPIPE; no program has to exit by itself, nothing has to
fail, and the background job need never end. So the property starts from one
command that has ended: a line whose first command writes for ever and whose last
reads for ever rightly does not end.

**Deadlock** is checked, except in runs that end: a device with no block left
or a read that is done (`file_maps`), the bound on calls (`files`, `easy_fs`), a
panic (`easy_fs`), the prompt (`shell`).

## Disagreements

1. *A write is lost with read-ahead* (`cache_lost_write`,
   `block_cache.rs:256`). `load_block_range` reads the range from the device and
   then makes room for each block. Room for the first may be made by evicting,
   and writing back, the second; the second is then inserted from the buffer read
   before that. The newer contents are on the device, but every reader gets the
   older ones from the cache, and the next write-back destroys them. This needs
   `READ_AHEAD_BLOCKS = 2`, the loongarch64 build.
2. *The cache panics with entries to spare* (`cache_panic`, `block_cache.rs:229`).
   The current record of a pinned entry is popped and not put back. When the
   handle is dropped the entry is in no record and cannot be evicted until the
   next access or the next compaction; if all entries are like that, the manager
   says "Run out of BlockCache!" although none is in use.
3. *Holes end a read* (`indirect_holes`, `vfs.rs:815`). In a file without
   extents, the first null pointer ends the read; the comment in `read_at` says
   that holes read back as zeros, as they do in files with extents.
4. *A file is reclaimed under a name* (`dir_link_limit`, `vfs.rs:1938`).
   `link_inode` writes the entry and lets the 16-bit link count saturate. From
   then on the count is too small, and reaches zero while names are left; `unlink`
   then frees the inode and its blocks, saying "No hard links remain".
The two calls on files with pointers that lose blocks are described under
*IndirectFile and FileMap*.

## Proofs

The modules are checked by `tlapm` to the last leaf, from the assumptions on the
constants that each specification states by name (`ConstantsAssumption`,
`GroupAssumption`, `InodeAssumption`, `ExtentsAssumption`, `IndirectAssumption`,
`NullAssumption`, `FileAssumption`, `DirAssumption`, `EasyAssumption`,
`PipelineAssumption`), which TLC evaluates for each instance. Every inductive
invariant that TLC can evaluate was checked before it was proved; `Inv` of
`FileBlocksProofs` and `Consistent` of `EasyFsProofs` quantify over all trees, and
there TLC checked the invariants that follow from them, and for `easy-fs` the
invariant with the trees that the pointers give.

**BlockCacheProofs.** `IndInv` is `TypeOK`, `OneCopy`, `BlockMutex`, `Bounded` and
`ManagerInv`. The last is what makes the others inductive: who holds the manager's
lock is not inside a block, a load has its place in the range and has pinned the
first block once it is past it, what is being loaded first is not cached, and a
thread in a block has a handle on it. There is one lemma per action; the records
of `mark_used` need one of their own, since compaction and the push together keep
the limit. Hence `SpecTypeOK`, `SpecOneCopy`, `SpecBounded` for any read-ahead.

With `ReadAhead = 1`, `CoherentInv` adds `NoLostWrite` and `BufferFresh`: the block
in the buffer is what is on the device, because the only way to change it there
is to write back an entry of that key, and there is none. `SpecNoLostWrite` and
`CacheImplementsStore` follow; the latter maps a block to its cached content, or
to the device when it has none, and shows that evict, load and sync are stutters
and that lock, read, modify and unlock are the steps of `BlockStore`. The
assumption cannot be dropped: run `cache_lost_write` shows what happens without.

`SpecRecordsCurrent` is about the queue: an entry has one current record at most,
and a block that is not cached has none. It needs the records counted through
`mark_used` (which makes the old ones stale before it pushes) and through
compaction, which pushes each key once. `SpecSyncDurable` rests on `Synced`: while
`sync_all` runs, an entry it is past is clean, or a thread has changed it since the
call began; with `NoLostWrite` that is what the devices hold when it returns.

**GroupAllocProofs.** For any geometry: the bit found is free and on the device
(`GroupAllocTypeOK`), every step is one of the abstract allocator
(`GroupAllocImplements`: a free unit is handed out, none only when all are in
use, and `dealloc` clears the unit named), and a free unit at the cursor is the one taken
(`GroupAllocSequential`). The arithmetic of groups (a unit is in exactly one
group, at one bit) is a set of lemmas on division.

**Ext4LayoutProofs, the allocators.** The theorems above, for the two allocators of a file system
side by side: a call on one leaves the other alone, the inodes are an instance of
`GroupAlloc` with a geometry that meets its assumption, and so both are allocators
(`Ext4Blocks`, `Ext4InodesImplement`). `Ext4ReservedInodesKept` needs that the
reserved inodes stay marked: a search that wraps does pass them, and the calls that
free an inode are about inodes that were handed out.

**ExtentsProofs.** For any list, not only the short ones of the run: insertion
keeps the list sorted with extents of legal length that do not overlap
(`ExtentsOrdered`), the map it denotes gains exactly one pair
(`ExtentsImplementBlockMap`), and that pair is the one asked for
(`ExtentsPlacePair`). The proof goes by the cases of the code: join,
merge before, merge behind, new extent. `ExtentsCompact` says that neighbours that
could be one extent are one, unless the limit on the length keeps them apart; its
delicate case is the join of three that is refused for its length, where the
extent before is extended and must still not fit with the one behind.

**FileBlocksProofs.** For any files with extents, any finite device, any number of extents in an
inode and in a node, any limit of `EXTENTS_CACHE`. The invariants of the model speak
of trees as the code reads them back from the device, which no step changes in a
way one can follow; the inductive invariant `Inv` says instead that there are trees
`T`, each a sorted list of extents with its leaves and index blocks, such that
`Forest(T)`: every tree is written on the device and rooted in its inode, its blocks
are different and in the bitmap, no two trees have a block in common, and the cache
has no list but those of `T`; and every block of a directory is mapped (`Filled`).
`ForestRead` brings the two together: what
`parse_extent_tree` and `extent_tree_blocks` find in the inode of `f` are the list
and the nodes of `T[f]`, at depth 0, 1 and 2. Its core is that cutting a list into
nodes of `PerNode` entries and flattening the nodes gives the list back
(`FlattenParts`). Each action is shown to move the files from `T` to some new trees
(`Moves`). For `write_at` this needs that allocating in
order hands out every free block once, that insertion and appending of the blocks
of a call add exactly their pairs to the list (by the lemmas of `ExtentsProofs`),
and that `i_blocks`, a sum of lengths, is the number of data blocks, because extents
do not overlap. A call that gets no blocks for its tree leaves the old tree where
it was, which is where a block may be lost and a stale list would be left.

From `Inv` follow `FileTypes`, `Owners`, `CachedLists` and `SoundTrees`; from what
`Moves` says of the blocks no tree has, `NoLeak`. `FilesImplemented` is the
refinement: `Moves` also says what the readers see of a step (`Effect`: nothing, an
empty file, or a value in the blocks asked for). A write shows nowhere else because
a list takes no two blocks of a file to one block of the device, and a block that was
freed with old contents never shows, since a call maps a new block only where it
also writes. `CallsObeyed` is the theorem for `CallsDoAsAsked`: what `write_at` and
`clear` do to the trees is stated with their arguments (`Wrote`, `Cleared`), from
which the effect on the file they name, and none on any other, follows as in the
refinement. `Filled` is for directories, whose blocks are written
without a look at whether they are mapped. The folds and recursive functions
involved are shown to have their fixpoint, and what they compute is proved by least
counterexamples. The run `files` checks the same properties of two devices, one small
and one large (`TypesOK` is `TypeOK` of the device at hand, `CallsAsAsked` is
`CallsDoAsAsked` of the small one).

**Ext4LayoutProofs, indirect files.** For any number of direct pointers and of pointers to a
block: a read returns the blocks in the order of the file up to the first hole
(`IndirectReadsUpToHole`). The reference order is defined by how many paths come
before a path, so the proof has to count: `At(l, p)` says in closed form that block
`l` is at path `p`, it is shown to be a bijection that keeps the order, and the
arithmetic of `get_block_num` (division and remainder by powers of the number of
pointers) to compute it. `IndirectReads` is the same for every image, with any
number of null pointers; the bound `MaxHoles` is the instance's.

**Ext4DirProofs.** For any finite set of names and inodes, any length of names, any
block size, device and limit of the index cache. `DirInv` has six parts: types of
the records, with the lengths that `RecordsFit` asks for; every cached index is the
index of the blocks; a directory has its `.` and `..`, and its parent names it;
what has a name is in use, what has none is no inode, a directory has one name;
the link counts; the sum of the blocks. They are inductive only together: that
`unlink` of a directory may free it needs its count to be 2, which needs the
counts to be those of the names, which needs names to be unique in a directory,
which needs the index that `find` asks to be the one of the blocks. From `DirInv`
follow `DirTypeOK`, `DirIndexCoherent`, `DirEntriesNameInodes`, `DirLinkCounts`,
`DirRecordsFit` and `DirBlocksCounted`. Each call is shown to keep `DirInv` and to
have one `Effect` on the names (one more, one less, one in the place of another,
none); with `TreeOK`, that the abstract tree is the set of names on disk, this
gives `DirImplementsNames`, and with the bitmap `DirLostOnlyWhenFull`.

These theorems have the hypothesis `[]BelowLimit`: no link count gets to
`MaxLinks`. It cannot be dropped, since at the limit the code stops counting and
run `dir_link_limit` shows a file reclaimed under a name (below the limit the
states are those of the run `dirs`). `DirAssumption` has what the argument needs
of the constants: names and inodes are finitely many, a record for an overlong name
is at least as long as any other and as the first record of a directory (256 bytes
and more against at most 255 and 12), and a link count has room for the two links
of a new directory.

The sums and folds of the module (`Total` in the proofs) are characterised by
counting cells, one for each unit of a summand, and by least counterexamples, since
the library's induction theorems are out of the provers' reach.

**EasyFsProofs.** For any number of pointers in an inode and in a block, any device
and bitmap, any names, offsets and buffers. What is hard here is that the code goes
over the blocks of a file in four ways that nothing ties together:
`blocks_num_needed` counts them (`total_blocks`), `increase_size` takes them from an
iterator in its own order (`places`), `get_block_id` finds one, and `clear_size`
collects them. The proof gives the blocks of a file of `n` data blocks numbers: `l`
for data block `l`, -1 and -2 for the indirect and the double indirect block, `-3 - a`
for block of pointers `a` below it. They are an interval, `Nodes(n)`, which grows at
both ends as the file does. By least counterexamples over the number of blocks,
`places` is shown to list exactly the new numbers, every block of pointers before
what is below it (`GrowsExists`), so that putting the blocks there one by one keeps
a tree (`PlaceAll`); `clear_size` lists every number once (`ClearSize`), over the
full rows below the double indirect block and the last, shorter one; and `Nodes(n)`
has as many elements as `total_blocks` says (`TotalBlocks`, `TreeCount`).

The inductive invariant `Consistent` says that there are numberings `A`, one for each
file, with `Layout(A)`: the pointers of the file lead to the blocks `A[f]` gives
(`OwnBlocks`), all different and disjoint from those of other files, the bitmap has
no others, a free block is zeroed, the directory lists every inode in use under one
name (`Listed`), an inode that is not in use is empty, and behind the end of a file
its last block is zeroed (`ZeroTail`). The last two are what `BlocksAccounted` does
not say and its proof needs: `create` does not free the blocks of the inode it takes,
and a write behind the end leaves the rest of the old last block as it is. Blocks
behind the device are part of the tree (a hole may have them), but not as blocks of
pointers, as the call would have panicked. `EasyFsBlocksAccounted` follows.

`EasyFsServesFairCalls` is the converse of the panics: with `healthy` and `room`, the
lowest free bits are blocks of the device (`RoomyIs`), so every place is found, the
iterator does not end early, and what `clear` collects is marked and different. For
`create` the clause of `fair` on the size of the directory is needed: the directory
is a file too, and an inode bitmap with more bits than the largest file has entries
would let it end. `EasyFsImplementsStore` maps every name to the cells `read_at`
returns; a write is compared cell by cell with `overwritten`, where a cell behind the
old end that the buffer does not reach is zero by `ZeroTail` in the old last block
and by the zeroed free blocks in the new ones.

**PipelineProofs.** For a line of any number of commands. `IndInv` says, for each
place in the loop of the shell, which descriptors the shell has and which pipe ends
they are; for each place between fork and exec, the same of the child; that the
pids the shell keeps are those of the commands started, in order; and what it has
waited for. `PipelineOnlyOwnEnds` follows for the commands that have got to exec, also those
that found no program and are about to say so,
`PipelineStatusOfLast` from the order of the waits and the status of a zombie.

**Only model-checked:** liveness (`ManagerReleased`, `PipelineEnds`), which is out
of the prover's reach.

## Not modelled

* The content of symbolic links: `create_symlink` ignores an error of `write_at`, and
  nothing says what it owes its caller then.
* Interleavings of `ext4-fs` calls without the kernel's lock: `Inode` drops `fs`
  between steps (`vfs.rs:620`, `vfs.rs:1484`), which matters only once the lock is
  made finer; today no two calls overlap.
* Crashes: there is no journal and no recovery code, so no promise to check.
* Byte layouts, feature flags, checksums; formatting and logging; host tools. The
  logical block number is not cut to 32 bits (`vfs.rs:1528`).
* The block cache of `easy-fs`: blocks are read and written in place. It is a
  simpler form of the cache of `ext4-fs`, with one difference that matters to its
  users: it finds an entry by block number alone (`easy-fs/src/block_cache.rs:146`),
  so it serves one device only. `EasyFileSystem::open` rebuilds the same bitmaps
  from the super block and changes nothing on disk.
* Of the shell: parsing, variables, builtins, scripts, history. A last fork that
  fails leaves `?` at 0 in `00shell`, and in `testcode_runner` `?` is the raw status
  of the child that ended last: `StatusOfLast` is stated for `00shell` with nothing
  failed, since nothing in the repository promises more.
* The kernel (`os/`), a submodule whose sources are not here.
* Third-party code: the test suites under `testsuits-for-oskernel` (busybox,
  iozone, netperf, libc-test and more), `vendor/` and the extra images. They are
  almost all of the lines of the repository, and all of its C; they are programs
  that run on the kernel and not part of the system built here. The system's own
  code is the Rust of `ext4-fs`, `easy-fs`, their tools and `user`.

## Plan

1. Done: block cache, with proofs.
2. Done: allocators, with proofs.
3. Done: extent lists, with proofs.
4. Done: file blocks and indirect files, with proofs.
5. Done: directories, names and link counts, with proofs.
6. Done: `easy-fs` without its cache, with proofs.
7. Done: pipelines of the shell and of the test runner, with proofs of safety.
