------------------------------- MODULE Ext4Dir --------------------------------
(***************************************************************************)
(* The directories of one ext4 file system (ext4-fs/src/vfs.rs): the       *)
(* entries in the blocks of every directory, the link counts and modes of  *)
(* the inodes, the inode bitmap, and DIR_INDEX_CACHE, the global cache of  *)
(* parsed directories.                                                     *)
(*                                                                         *)
(* A block of a directory is the sequence of its records; the rec_len of a *)
(* record reaches to the next one.  Removing an entry only zeroes its      *)
(* inode, so the record stays and may be used again.  Each call is one     *)
(* step: the kernel calls ext4-fs under one lock.  Which inode number is   *)
(* handed out is Ext4Alloc's business, here it is any free one; which      *)
(* block a directory gets is FileBlocks', here blocks are counted.  As in  *)
(* FileBlocks the directories have extents: dir_add_entry would give one   *)
(* with block pointers a new list of blocks, and lose the old ones.        *)
(***************************************************************************)
EXTENDS Integers, SequencesExt

CONSTANTS
    Name,           \* names a caller uses
    Need,           \* Need[n]: bytes of a record with name n, over 4
    TooLong,        \* the names of more than EXT4_NAME_LEN bytes
    Inode, Root,    \* inode numbers, and the root directory
    NoInode,        \* inode number 0: the record has no entry
    Special,        \* modes of special files
    BlockSize,      \* over 4
    DotLen,         \* bytes of the record of "." in a new directory, over 4
    DataBlocks,     \* data blocks of the device
    IndexMax,       \* DIR_INDEX_CACHE_MAX
    MaxLinks,       \* largest link count: 65535, of an u16
    NotCached       \* no entry in DIR_INDEX_CACHE

Dots == {".", ".."}

ASSUME DirAssumption ==
    /\ IsFiniteSet(Name) /\ Name \cap Dots = {} /\ TooLong \subseteq Name
    /\ BlockSize \in Nat /\ DotLen \in Nat
    /\ Need \in [Name \cup Dots -> 1 .. BlockSize]
    /\ \A l \in TooLong :
        /\ Need[l] >= DotLen
        /\ \A n \in (Name \cup Dots) \ TooLong : Need[l] >= Need[n]
    /\ Need["."] <= DotLen /\ DotLen + Need[".."] <= BlockSize
    /\ IsFiniteSet(Inode) /\ Root \in Inode /\ NoInode \notin Inode
    /\ Special \subseteq {"S_IFIFO", "S_IFCHR", "S_IFBLK", "S_IFSOCK"}
    /\ DataBlocks \in Nat \ {0} /\ IndexMax \in Nat \ {0}
    /\ MaxLinks \in Nat /\ MaxLinks >= 2

Mode == {"S_IFDIR", "S_IFREG", "S_IFLNK"} \cup Special

VARIABLES
    used,    \* the inode bitmap
    inode,   \* inode[i]: i_mode, i_links_count, and how many blocks i has
    dirs,    \* dirs[i]: the blocks up to the size of directory i
    index,   \* DIR_INDEX_CACHE
    free,    \* how many data blocks are free
    done     \* what the last call did to the names: "none" if it only looked or failed

vars == <<used, inode, dirs, index, free, done>>

-------------------------------------------------------------------------------
\* dir_entry_file_type_from_mode
dir_entry_file_type(mode) ==
    CASE mode = "S_IFREG" -> "FT_REG_FILE"
      [] mode = "S_IFDIR" -> "FT_DIR"
      [] mode = "S_IFLNK" -> "FT_SYMLINK"
      [] mode = "S_IFIFO" -> "FT_FIFO"
      [] mode = "S_IFCHR" -> "FT_CHRDEV"
      [] mode = "S_IFBLK" -> "FT_BLKDEV"
      [] mode = "S_IFSOCK" -> "FT_SOCK"

\* The type rename gives the entry it writes.
rename_file_type(mode) ==
    IF mode \in {"S_IFDIR", "S_IFREG"} THEN dir_entry_file_type(mode) ELSE "FT_UNKNOWN"

saturating_add_none(n) == n
saturating_add(n) == IF n < MaxLinks THEN n + 1 ELSE MaxLinks
saturating_sub(n) == IF n > 0 THEN n - 1 ELSE 0

\* An inode that is not in use: what is left on disk is never read, a call that
\* gets the number writes all of it.
no_inode == [mode |-> "none", links |-> 0, blocks |-> 0]

record(n, i, t, len) == [name |-> n, ino |-> i, type |-> t, rec |-> len]

\* The block create_dir fills for directory i in directory d.
first_block(i, d) ==
    <<record(".", i, "FT_DIR", DotLen), record("..", d, "FT_DIR", BlockSize - DotLen)>>

\* read_dir_entries: where the entries of directory i are, and what they are.
entry_at(i, p) == dirs[i][p[1]][p[2]]
entry_places(i) ==
    UNION {{<<b, k>> : k \in {j \in DOMAIN dirs[i][b] : dirs[i][b][j].ino # NoInode}} :
           b \in DOMAIN dirs[i]}
read_dir_entries(i) == {entry_at(i, p) : p \in entry_places(i)}

ls_none(i) == {}
ls(i) == {e.name : e \in read_dir_entries(i)} \ Dots

-------------------------------------------------------------------------------
\* DIR_INDEX_CACHE
index_insert(x, n, i, t) ==
    [m \in DOMAIN x \cup {n} |-> IF m = n THEN [ino |-> i, type |-> t] ELSE x[m]]
index_remove(x, n) == [m \in DOMAIN x \ {n} |-> x[m]]

\* The last entry with a name wins.
build_dir_index(i) ==
    LET places == entry_places(i)
        last(n) == CHOOSE p \in places :
                      /\ entry_at(i, p).name = n
                      /\ \A q \in places : entry_at(i, q).name = n =>
                             q[1] < p[1] \/ (q[1] = p[1] /\ q[2] <= p[2])
    IN  [n \in {entry_at(i, p).name : p \in places} |->
            LET e == entry_at(i, last(n)) IN [ino |-> e.ino, type |-> e.type]]

\* What dir_index of directory d returns, and the cache after it: the cache is
\* emptied when it is full.
dir_index(d) == IF index[d] # NotCached THEN index[d] ELSE build_dir_index(d)
indexed(d) ==
    IF index[d] # NotCached THEN index
    ELSE IF Cardinality({i \in Inode : index[i] # NotCached}) >= IndexMax
         THEN [i \in Inode |-> IF i = d THEN build_dir_index(d) ELSE NotCached]
         ELSE [index EXCEPT ![d] = build_dir_index(d)]

has_name(d, n) == n \in DOMAIN dir_index(d)
inode_of(d, n) == dir_index(d)[n].ino

inode_caches_invalidate_none(c, i) == c
inode_caches_invalidate(c, i) == [c EXCEPT ![i] = NotCached]

\* The index of d is changed when it is cached.
with_name(c, d, n, i, t) ==
    IF c[d] = NotCached THEN c ELSE [c EXCEPT ![d] = index_insert(@, n, i, t)]
without_name(c, d, n) ==
    IF c[d] = NotCached THEN c ELSE [c EXCEPT ![d] = index_remove(@, n)]

-------------------------------------------------------------------------------
\* dir_add_entry: the first record of the directory that is free and large
\* enough, or has room behind its name, takes the entry.
fits_free(e, n) == e.ino = NoInode /\ e.rec >= Need[n]
fits_behind_overlap(e, n) == e.rec >= Need[n]
fits_behind(e, n) == e.rec >= Need[e.name] + Need[n]
room(block, n) == {k \in DOMAIN block : fits_free(block[k], n) \/ fits_behind(block[k], n)}

\* Block with record k cut back to its name, and nothing behind it.
shrunk(e) == [e EXCEPT !.rec = Need[e.name]]
cut(block, k) == Append(SubSeq(block, 1, k - 1), shrunk(block[k]))

\* Room behind a name is split off before dir_write_entry_at looks at the
\* length of the new name: what is behind is then zeros, where readers stop,
\* and entries that were behind it are gone.
add_to_block(block, n, i, t) ==
    LET k == Min(room(block, n))
        e == block[k]
    IN  IF fits_free(e, n)
        THEN IF n \in TooLong THEN block
             ELSE [block EXCEPT ![k] = record(n, i, t, e.rec)]
        ELSE IF n \in TooLong THEN cut(block, k)
             ELSE InsertAt([block EXCEPT ![k] = shrunk(e)], k + 1,
                           record(n, i, t, e.rec - Need[e.name]))

\* The blocks of a directory with mapped of them in its tree, the mapped and
\* the free ones, after dir_add_entry, and what it returned.
dir_add_entry(blocks, mapped, avail, n, i, t) ==
    LET with_room == {b \in DOMAIN blocks : room(blocks[b], n) # {}}
        code == IF n \in TooLong THEN "NameTooLong" ELSE "ok"
    IN  IF with_room # {}
        THEN [ret |-> code, mapped |-> mapped, avail |-> avail,
              blocks |-> [blocks EXCEPT ![Min(with_room)] = add_to_block(@, n, i, t)]]
        ELSE IF mapped > Len(blocks) \/ avail > 0
        THEN [ret |-> code, mapped |-> Len(blocks) + 1,
              avail |-> IF mapped > Len(blocks) THEN avail ELSE avail - 1,
              blocks |-> IF n \in TooLong THEN blocks
                         ELSE Append(blocks, <<record(n, i, t, BlockSize)>>)]
        ELSE [ret |-> "NoSpace", mapped |-> mapped, avail |-> avail, blocks |-> blocks]

\* dir_remove_entry zeroes the inode of the first entry with the name.
holds(block, n) == {k \in DOMAIN block : block[k].name = n /\ block[k].ino # NoInode}
on_disk(blocks, n) == {b \in DOMAIN blocks : holds(blocks[b], n) # {}}
dir_remove_entry(blocks, n) ==
    [blocks EXCEPT ![Min(on_disk(blocks, n))] = [@ EXCEPT ![Min(holds(@, n))].ino = NoInode]]

-------------------------------------------------------------------------------
Init ==
    /\ used = {Root}
    /\ inode = [i \in Inode |->
                   IF i = Root THEN [mode |-> "S_IFDIR", links |-> 2, blocks |-> 1]
                   ELSE no_inode]
    /\ dirs = [i \in Inode |-> IF i = Root THEN <<first_block(Root, Root)>> ELSE <<>>]
    /\ index = [i \in Inode |-> NotCached]
    /\ free = DataBlocks - 1
    /\ done = "none"

\* What lookups find: the names in directory d, the names of inode i, and the
\* inodes with a name.
names_in(d) ==
    LET x == dir_index(d)
    IN  {[name |-> n, ino |-> x[n].ino] : n \in DOMAIN x \cap Name}
directories == {d \in used : inode[d].mode = "S_IFDIR"}
names_of(i) == UNION {{<<d, e.name>> : e \in {x \in names_in(d) : x.ino = i}} : d \in directories}
named == UNION {{e.ino : e \in names_in(d)} : d \in directories}

\* Only what has a name is in a caller's hands: the kernel puts off the last
\* unlink of a file until it is closed.
live == {Root} \cup named

\* A call that returns with cache c and changes no more than that.
returns(c) ==
    /\ index' = c
    /\ done' = "none"
    /\ UNCHANGED <<used, inode, dirs, free>>

\* The checks at the start of the calls that make a name n in directory d.
may_add(d, n) == n \notin TooLong /\ ~has_name(d, n)
refused(d, n) ==
    /\ ~may_add(d, n)
    /\ returns(IF n \in TooLong THEN index     \* NameTooLong
               ELSE indexed(d))                \* AlreadyExists

\* What find returns is inode_of, and None without has_name.
find(d) == returns(indexed(d))

\* A call that got inode i returns with cache c: it loses the inode, or it
\* gives it back.
loses(i, c) ==
    /\ used' = used \cup {i}
    /\ index' = c
    /\ done' = "none"
    /\ UNCHANGED <<inode, dirs, free>>
gives_back(i, c) == returns(c)

\* How many of the free blocks the new inode may take once its entry is written:
\* write_at keeps a target of at most 60 bytes in the inode of the symbolic link
\* and takes a block for a longer one; create_symlink does not care when it
\* finds none.
target_data_unchecked(mode, avail) == {k \in {0, 1} : k = 1 => mode = "S_IFLNK"}
target_data(mode, avail) == {k \in {0, 1} : k = 1 => mode = "S_IFLNK" /\ avail > 0}

\* create_file, create_special and create_symlink differ in the mode.
new_entry(d, n, mode) ==
    \/ refused(d, n)
    \/ may_add(d, n) /\ used = Inode /\ returns(indexed(d))   \* NoSpace
    \/ /\ may_add(d, n)
       /\ \E i \in Inode \ used :
            LET t == dir_entry_file_type(mode)
                r == dir_add_entry(dirs[d], inode[d].blocks, free, n, i, t)
                c == inode_caches_invalidate(indexed(d), i)
            IN  \/ r.ret # "ok" /\ gives_back(i, c)
                \/ /\ r.ret = "ok"
                   /\ used' = used \cup {i}
                   /\ \E content \in target_data(mode, r.avail) :
                        /\ inode' = [inode EXCEPT ![d].blocks = r.mapped,
                                      ![i] = [mode |-> mode, links |-> 1, blocks |-> content]]
                        /\ free' = r.avail - content
                   /\ dirs' = [dirs EXCEPT ![d] = r.blocks]
                   /\ index' = with_name(c, d, n, i, t)
                   /\ done' = "created"

create_file(d, n) == new_entry(d, n, "S_IFREG")
create_special(d, n, mode) == new_entry(d, n, mode)
create_symlink(d, n) == new_entry(d, n, "S_IFLNK")

link_inode(d, n, target) ==
    \/ refused(d, n)
    \/ /\ may_add(d, n)
       /\ inode[target].mode = "S_IFDIR"
       /\ returns(indexed(d))   \* Unsupported
    \/ /\ may_add(d, n)
       /\ inode[target].mode # "S_IFDIR"
       /\ LET t == dir_entry_file_type(inode[target].mode)
              r == dir_add_entry(dirs[d], inode[d].blocks, free, n, target, t)
          IN  \/ r.ret # "ok" /\ returns(indexed(d))   \* NoSpace
              \/ /\ r.ret = "ok"
                 /\ inode' = [inode EXCEPT ![d].blocks = r.mapped,
                                           ![target].links = saturating_add(@)]
                 /\ dirs' = [dirs EXCEPT ![d] = r.blocks]
                 /\ free' = r.avail
                 /\ index' = with_name(indexed(d), d, n, target, t)
                 /\ done' = "linked"
                 /\ UNCHANGED used

\* A directory gets its inode and its first block before its entry is made.
\* Without a block it keeps the inode; without an entry it gives both back.
create_dir(d, n) ==
    \/ refused(d, n)
    \/ may_add(d, n) /\ used = Inode /\ returns(indexed(d))   \* NoSpace
    \/ /\ may_add(d, n)
       /\ \E i \in Inode \ used :
            LET c == inode_caches_invalidate(indexed(d), i)
                r == dir_add_entry(dirs[d], inode[d].blocks, free - 1, n, i, "FT_DIR")
                new == [mode |-> "S_IFDIR", links |-> 2, blocks |-> 1]
            IN  \/ free = 0 /\ loses(i, c)                         \* NoSpace
                \/ free > 0 /\ r.ret # "ok" /\ gives_back(i, c)    \* NoSpace
                \/ /\ free > 0 /\ r.ret = "ok"
                   /\ used' = used \cup {i}
                   /\ inode' = [inode EXCEPT ![i] = new, ![d].blocks = r.mapped,
                                             ![d].links = saturating_add(@)]
                   /\ dirs' = [dirs EXCEPT ![i] = <<first_block(i, d)>>, ![d] = r.blocks]
                   /\ free' = r.avail
                   /\ index' = with_name(c, d, n, i, "FT_DIR")
                   /\ done' = "created"

\* unlink of a directory frees it; of anything else, when its last link goes.
links_left_none(i) == 0
links_left(i) == saturating_sub(inode[i].links)

\* free_all_blocks
freed_none(i) == 0
freed(i) == inode[i].blocks

unlink(d, n) ==
    LET c == indexed(d)
        child == inode_of(d, n)
        is_dir == inode[child].mode = "S_IFDIR"
        gone == is_dir \/ links_left(child) = 0
        full == is_dir /\ ls(child) # {}
        there == on_disk(dirs[d], n) # {}
    IN  \/ /\ ~(has_name(d, n) /\ (full \/ there))
           /\ returns(c)   \* NotFound
        \/ has_name(d, n) /\ full /\ returns(c)   \* Unsupported
        \/ /\ has_name(d, n) /\ ~full /\ there
           /\ dirs' = [dirs EXCEPT ![d] = dir_remove_entry(@, n),
                                   ![child] = IF is_dir THEN <<>> ELSE @]
           /\ inode' = [inode EXCEPT
                            ![d].links = IF is_dir THEN saturating_sub(@) ELSE @,
                            ![child] = IF gone THEN no_inode
                                       ELSE [@ EXCEPT !.links = links_left(child)]]
           /\ free' = IF gone THEN free + freed(child) ELSE free
           /\ used' = IF gone THEN used \ {child} ELSE used
           /\ index' = without_name(IF gone THEN inode_caches_invalidate(c, child) ELSE c, d, n)
           /\ done' = "removed"

\* rename writes the new entry, then removes the old one.
rename(d, old, new) ==
    LET c == indexed(d)
        child == inode_of(d, old)
        t == rename_file_type(inode[child].mode)
        r == dir_add_entry(dirs[d], inode[d].blocks, free, new, child, t)
        removed == on_disk(r.blocks, old) # {}
    IN  \/ old = new /\ returns(index)   \* Ok
        \/ old # new /\ has_name(d, new) /\ returns(c)   \* AlreadyExists
        \/ old # new /\ ~has_name(d, new) /\ ~has_name(d, old) /\ returns(c)   \* NotFound
        \/ /\ old # new /\ ~has_name(d, new) /\ has_name(d, old)
           /\ inode' = [inode EXCEPT ![d].blocks = r.mapped]
           /\ free' = r.avail
           /\ \/ /\ r.ret # "ok" \/ ~removed
                 /\ dirs' = [dirs EXCEPT ![d] = r.blocks]
                 /\ index' = c
                 /\ done' = "none"   \* r.ret, or NotFound
              \/ /\ r.ret = "ok" /\ removed
                 /\ dirs' = [dirs EXCEPT ![d] = dir_remove_entry(r.blocks, old)]
                 /\ index' = with_name(without_name(c, d, old), d, new, child, t)
                 /\ done' = "renamed"
           /\ UNCHANGED used

\* The caller has a handle on directory d.
called_on(d) == d \in used /\ inode[d].mode = "S_IFDIR" /\ d \in live

Next ==
    \E d \in Inode, n \in Name :
        \/ called_on(d) /\ find(d)
        \/ called_on(d) /\ create_file(d, n)
        \/ called_on(d) /\ \E mode \in Special : create_special(d, n, mode)
        \/ called_on(d) /\ create_symlink(d, n)
        \/ called_on(d) /\ \E target \in live : link_inode(d, n, target)
        \/ called_on(d) /\ create_dir(d, n)
        \/ called_on(d) /\ unlink(d, n)
        \/ called_on(d) /\ \E new \in Name : rename(d, n, new)

Spec == Init /\ [][Next]_vars

-------------------------------------------------------------------------------
\* Every variable has its type, and no more blocks are free than there are.
TypeOK ==
    /\ used \subseteq Inode
    /\ \A i \in Inode :
        /\ inode[i].mode \in Mode \cup {"none"}
        /\ inode[i].links \in 0 .. MaxLinks
        /\ inode[i].blocks \in 0 .. DataBlocks
    /\ DOMAIN dirs = Inode /\ DOMAIN index = Inode
    /\ free \in 0 .. DataBlocks

\* A cached index is what the blocks of its directory hold, and no index
\* outlives its directory.
IndexCoherent ==
    \A i \in Inode : index[i] # NotCached =>
        /\ i \in live \cap directories
        /\ index[i] = build_dir_index(i)

\* Every name is for an inode in use, and "." and ".." lead to the directory
\* and to the one its name is in: no inode was given back too early.
EntriesNameInodes ==
    /\ named \subseteq used
    /\ \A d \in live \cap directories :
        /\ has_name(d, ".") /\ inode_of(d, ".") = d
        /\ has_name(d, "..")
        /\ d = Root \/ inode_of(d, "..") \in {p[1] : p \in names_of(d)}

\* The link count is the number of names of a file, and of a directory the
\* number of its names, its own "." and the ".." of its subdirectories.
subdirectories(d) == {e.name : e \in {x \in names_in(d) : inode[x.ino].mode = "S_IFDIR"}}
LinkCounts ==
    \A i \in live :
        inode[i].links = IF inode[i].mode = "S_IFDIR" THEN 2 + Cardinality(subdirectories(i))
                         ELSE Cardinality(names_of(i))

\* The records of a directory stay inside their blocks, each has room for its
\* name, and only the last one of a block has room behind it for a name that is
\* too long: so the cut that makes room for such a name loses no entry.
RecordsFit ==
    \A d \in directories : \A b \in DOMAIN dirs[d] :
        LET block == dirs[d][b]
        IN  /\ FoldLeft(LAMBDA s, e : s + e.rec, 0, block) <= BlockSize
            /\ \A k \in DOMAIN block : block[k].rec >= Need[block[k].name]
            /\ \A k \in 1 .. Len(block) - 1, n \in TooLong : ~fits_behind(block[k], n)

\* Every data block is free or of one inode that has a name.
BlocksCounted ==
    free + FoldFunctionOnSet(+, 0, [i \in Inode |-> inode[i].blocks], live) = DataBlocks

\* An inode that is in use and has no name was lost by a call that failed with
\* no data block left (create_dir).
lost == used \ live
LostOnlyWhenFull == [][lost' \subseteq lost \/ (free = 0 /\ done' = "none")]_vars

\* What find answers, in every directory.
name_tree ==
    UNION {{[dir |-> d, name |-> e.name, file |-> e.ino, kind |-> inode[e.ino].mode] :
               e \in names_in(d)} : d \in directories}

Names == INSTANCE NameSpace
            WITH File <- Inode, Kind <- Mode, tree <- name_tree

\* Lookups see one name space: calls do to it what they say, calls that fail
\* leave it alone, and blocks, cached indexes, reused records and reused
\* inodes never show.
ImplementsNames == Names!NamesSpec

\* An inode that is not in use has no name: "No hard links remain" when unlink
\* reclaims it.
ReclaimedHaveNoName == named \subseteq used
===============================================================================
