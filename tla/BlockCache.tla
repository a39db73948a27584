------------------------------ MODULE BlockCache ------------------------------
(***************************************************************************)
(* The write-back block cache of ext4-fs (ext4-fs/src/block_cache.rs).     *)
(*                                                                         *)
(* One global manager, behind one spin lock, maps <<block_id, device_id>>  *)
(* to a cached block behind a spin lock of its own.  A thread gets a       *)
(* handle (an Arc) from the manager, locks the block, reads or changes it, *)
(* unlocks it and drops the handle some time later; an entry some thread   *)
(* has a handle on (strong_count > 1) is never evicted.  Eviction follows  *)
(* a queue of <<key, stamp>> records: a record counts only while it is the *)
(* newest of its key, and a record of a pinned entry is thrown away.       *)
(*                                                                         *)
(* A stamp is only ever compared with the stamp of the entry, and every    *)
(* mark_used takes a fresh one from a 64-bit counter, so a record carries  *)
(* "current" (equal to the entry's stamp) in place of the number.          *)
(***************************************************************************)
EXTENDS Integers, Sequences, FiniteSets

CONSTANTS
    Device,       \* devices, numbered by the address of their Arc
    NumBlocks,    \* blocks of each device
    Thread,       \* threads of the kernel inside the file system
    Value,        \* what a block can hold
    Zero,         \* the all-zero block
    Absent,       \* no cache entry for the key
    NoKey,        \* no block
    NoValue,      \* nothing read
    NoThread,     \* nobody holds the manager lock
    CacheSize,    \* BLOCK_CACHE_SIZE
    ReadAhead,    \* READ_AHEAD_BLOCKS
    QueueMult,    \* QUEUE_LIMIT_MULT
    MaxHandles    \* bound: handles one thread keeps while it gets another

Key == (0 .. NumBlocks - 1) \X Device

ASSUME ConstantsAssumption ==
    /\ Device \subseteq Nat /\ IsFiniteSet(Device)
    /\ NumBlocks \in Nat \ {0}
    /\ Zero \in Value
    /\ Absent \notin Value /\ NoValue \notin Value
    /\ NoKey \notin Key
    /\ NoThread \notin Thread
    /\ CacheSize \in Nat \ {0}
    /\ ReadAhead \in Nat \ {0}
    /\ QueueMult \in Nat \ {0}
    /\ MaxHandles \in Nat \ {0}

VARIABLES
    disk,      \* disk[k]: the block on the device
    cache,     \* cache[k]: the data of the entry of k, or Absent
    modified,  \* the keys whose entry is dirty
    queue,     \* eviction records, oldest first
    op,        \* what the holder of the manager lock is doing
    holder,    \* who holds the manager lock
    want,      \* the key it was asked for (operations that take one)
    pos,       \* blocks of the range it has handled
    buf,       \* what it read from the device
    todo,      \* the keys sync_all has still to visit
    pc,        \* pc[t]: "run", "lock" (waits for a block), "crit" (holds it)
    cur,       \* cur[t]: the block t waits for or holds
    handles,   \* handles[t]: the keys t has an Arc of
    out,       \* out[t]: what t read in its critical section
    panicked,  \* the kernel has panicked
    touched    \* history: keys changed during the running sync_all

mgrVars == <<op, holder, want, pos, buf, todo>>
threadVars == <<pc, cur, handles, out>>
vars == <<disk, cache, modified, queue, mgrVars, threadVars, panicked, touched>>

-------------------------------------------------------------------------------
cached == {k \in Key : cache[k] # Absent}

\* BTreeMap order of CacheKey: block_id first, then device_id.
KeyLess(j, k) == j[1] < k[1] \/ (j[1] = k[1] /\ j[2] < k[2])

\* A key that forgets the device.
KeyAt_one_device(k, i) == <<k[1] + i, 0>>

\* Block i of the range that starts at k.
KeyAt(k, i) == <<k[1] + i, k[2]>>

\* Eviction that does not look at strong_count.
Unpinned_always(k) == TRUE

\* Arc::strong_count(entry) = 1: only the manager has it.
Unpinned(k) == \A t \in Thread : k \notin handles[t]

NoBuf == <<>>

Record == [key : Key, current : BOOLEAN]

\* The queue rebuilt from the entries S, in key order.
rebuilt_queue(S) ==
    {q \in [1 .. Cardinality(S) -> [key : S, current : {TRUE}]] :
        \A i, j \in 1 .. Cardinality(S) : i < j => KeyLess(q[i].key, q[j].key)}

\* A queue that is never compacted.
compact_queue_never(q, S) == {q}

\* compact_queue: the queue after a push, given the entries S.
compact_queue(q, S) ==
    IF Len(q) <= CacheSize * QueueMult THEN {q} ELSE rebuilt_queue(S)

\* A record pushed without a new stamp for the entry.
stale_records_none(k) == queue

\* A new stamp for the entry of k makes the records of k stale.
stale_records(k) ==
    [i \in 1 .. Len(queue) |->
        IF queue[i].key = k THEN [key |-> k, current |-> FALSE] ELSE queue[i]]

\* mark_used(k), with the entries S.
mark_used(k, S) ==
    queue' \in compact_queue(Append(stale_records(k), [key |-> k, current |-> TRUE]), S)

\* Records evict_one accepts, by position.
victims == {i \in DOMAIN queue :
                /\ queue[i].current
                /\ queue[i].key \in cached
                /\ Unpinned(queue[i].key)}

\* BlockCache::sync: the device after a dirty block is written.
write_back(k) == IF k \in modified THEN [disk EXCEPT ![k] = cache[k]] ELSE disk

\* Memory that was not filled.
new_uninit == NoValue

\* BlockCache::new_zeroed
new_zeroed == Zero

\* The lock is free again.
unlock_manager ==
    /\ op' = "idle" /\ holder' = NoThread
    /\ want' = NoKey /\ pos' = 0 /\ buf' = NoBuf /\ todo' = {} /\ touched' = {}

\* The thread has its Arc and locks the block next.
return_handle(t, k) ==
    /\ handles' = [handles EXCEPT ![t] = @ \cup {k}]
    /\ pc' = [pc EXCEPT ![t] = "lock"]
    /\ cur' = [cur EXCEPT ![t] = k]
    /\ UNCHANGED out

\* A thread calls into the manager only with no block locked.
MayCall(t) ==
    /\ ~panicked
    /\ op = "idle"
    /\ pc[t] = "run"

MayGet(t, k) ==
    /\ MayCall(t)
    /\ Cardinality(handles[t]) < MaxHandles

-------------------------------------------------------------------------------
Init ==
    /\ disk \in [Key -> Value]
    /\ cache = [k \in Key |-> Absent]
    /\ modified = {}
    /\ queue = <<>>
    /\ op = "idle" /\ holder = NoThread
    /\ want = NoKey /\ pos = 0 /\ buf = NoBuf /\ todo = {}
    /\ pc = [t \in Thread |-> "run"]
    /\ cur = [t \in Thread |-> NoKey]
    /\ handles = [t \in Thread |-> {}]
    /\ out = [t \in Thread |-> NoValue]
    /\ panicked = FALSE
    /\ touched = {}

\* get_block_cache and get_block_cache_zeroed, hit: the two are the same, an
\* entry that is present is returned as it is.
get_block_cache_hit(t, k) ==
    /\ MayGet(t, k)
    /\ k \in cached
    /\ mark_used(k, cached)
    /\ return_handle(t, k)
    /\ UNCHANGED <<disk, cache, modified, mgrVars, panicked, touched>>

\* get_block_cache, miss: load_block_range first reads the whole range from
\* the device, then enters its loop; the manager stays locked.
get_block_cache_miss(t, k) ==
    /\ MayGet(t, k)
    /\ k \notin cached
    /\ k[1] + ReadAhead <= NumBlocks
    /\ op' = "load" /\ holder' = t
    /\ want' = k /\ pos' = 0 /\ todo' = {}
    /\ buf' = [i \in 1 .. ReadAhead |-> disk[KeyAt(k, i - 1)]]
    /\ UNCHANGED <<disk, cache, modified, queue, threadVars, panicked, touched>>

\* get_block_cache_zeroed, miss.
get_block_cache_zeroed_miss(t, k) ==
    /\ MayGet(t, k)
    /\ k \notin cached
    /\ op' = "zero" /\ holder' = t
    /\ want' = k /\ pos' = 0 /\ buf' = NoBuf /\ todo' = {}
    /\ UNCHANGED <<disk, cache, modified, queue, threadVars, panicked, touched>>

\* The key the holder is about to insert.
target == KeyAt(want, pos)

\* ensure_capacity: one evict_one that finds a victim.  Removing the entry
\* drops the only Arc, and Drop syncs the block.
evict_one ==
    /\ ~panicked
    /\ op \in {"load", "zero"}
    /\ target \notin cached
    /\ Cardinality(cached) >= CacheSize
    /\ \E i \in victims :
        /\ \A j \in victims : i <= j
        /\ LET k == queue[i].key IN
            /\ disk' = write_back(k)
            /\ cache' = [cache EXCEPT ![k] = Absent]
            /\ modified' = modified \ {k}
        /\ queue' = SubSeq(queue, i + 1, Len(queue))
    /\ UNCHANGED <<mgrVars, threadVars, panicked, touched>>

\* evict_one that empties the queue without a victim panics.
evict_one_panic ==
    /\ ~panicked
    /\ op \in {"load", "zero"}
    /\ target \notin cached
    /\ Cardinality(cached) >= CacheSize
    /\ victims = {}
    /\ queue' = <<>>
    /\ panicked' = TRUE
    /\ UNCHANGED <<disk, cache, modified, mgrVars, threadVars, touched>>

\* The block asked for is pinned only when the call returns.
load_advance_late_pin ==
    LET t == holder IN
    /\ UNCHANGED out
    /\ IF pos + 1 = ReadAhead
       THEN /\ unlock_manager
            /\ handles' = [handles EXCEPT ![t] = @ \cup {want}]
            /\ pc' = [pc EXCEPT ![t] = "lock"]
            /\ cur' = [cur EXCEPT ![t] = want]
       ELSE /\ pos' = pos + 1
            /\ UNCHANGED <<handles, op, holder, want, buf, todo, pc, cur, touched>>

\* The end of an iteration of load_block_range: the first block of the range
\* is pinned for the caller at once, the last one ends the call.
load_advance ==
    LET t == holder IN
    /\ handles' = IF pos = 0 THEN [handles EXCEPT ![t] = @ \cup {want}] ELSE handles
    /\ UNCHANGED out
    /\ IF pos + 1 = ReadAhead
       THEN /\ unlock_manager
            /\ pc' = [pc EXCEPT ![t] = "lock"]
            /\ cur' = [cur EXCEPT ![t] = want]
       ELSE /\ pos' = pos + 1
            /\ UNCHANGED <<op, holder, want, buf, todo, pc, cur, touched>>

\* A loop that does not move past a block that is cached.
load_block_present_stuck ==
    /\ ~panicked
    /\ op = "load"
    /\ target \in cached
    /\ mark_used(target, cached)
    /\ UNCHANGED <<disk, cache, modified, mgrVars, threadVars, panicked, touched>>

\* load_block_range, a block of the range that is cached already.
load_block_present ==
    /\ ~panicked
    /\ op = "load"
    /\ target \in cached
    /\ mark_used(target, cached)
    /\ load_advance
    /\ UNCHANGED <<disk, cache, modified, panicked>>

\* load_block_range, a block inserted from the buffer read at the start.
load_block_insert ==
    /\ ~panicked
    /\ op = "load"
    /\ target \notin cached
    /\ Cardinality(cached) < CacheSize
    /\ cache' = [cache EXCEPT ![target] = buf[pos + 1]]
    /\ mark_used(target, cached \cup {target})
    /\ load_advance
    /\ UNCHANGED <<disk, modified, panicked>>

\* get_block_cache_zeroed: the entry is born dirty.
zeroed_insert ==
    /\ ~panicked
    /\ op = "zero"
    /\ target \notin cached
    /\ Cardinality(cached) < CacheSize
    /\ cache' = [cache EXCEPT ![target] = new_zeroed]
    /\ modified' = modified \cup {target}
    /\ mark_used(target, cached \cup {target})
    /\ return_handle(holder, want)
    /\ unlock_manager
    /\ UNCHANGED <<disk, panicked>>

\* A sync that passes over the blocks somebody uses.
block_cache_sync_all_unpinned(t) ==
    /\ MayCall(t)
    /\ op' = "sync" /\ holder' = t
    /\ todo' = {k \in cached : Unpinned(k)}
    /\ UNCHANGED <<disk, cache, modified, queue, want, pos, buf, threadVars, panicked, touched>>

\* block_cache_sync_all takes the manager lock and keeps it for the loop.
block_cache_sync_all(t) ==
    /\ MayCall(t)
    /\ op' = "sync" /\ holder' = t
    /\ todo' = cached
    /\ UNCHANGED <<disk, cache, modified, queue, want, pos, buf, threadVars, panicked, touched>>

\* One entry, in key order, under its block lock.
sync(k) ==
    /\ ~panicked
    /\ op = "sync"
    /\ k \in todo
    /\ \A j \in todo : j = k \/ KeyLess(k, j)
    /\ \A t \in Thread : ~(pc[t] = "crit" /\ cur[t] = k)
    /\ disk' = write_back(k)
    /\ modified' = modified \ {k}
    /\ todo' = todo \ {k}
    /\ UNCHANGED <<cache, queue, op, holder, want, pos, buf, threadVars, panicked, touched>>

sync_all_done ==
    /\ ~panicked
    /\ op = "sync"
    /\ todo = {}
    /\ unlock_manager
    /\ UNCHANGED <<disk, cache, modified, queue, threadVars, panicked>>

\* The caller's side: lock the block, use it, unlock it, drop the handle.
lock_block(t) ==
    /\ ~panicked
    /\ pc[t] = "lock"
    /\ \A u \in Thread : ~(pc[u] = "crit" /\ cur[u] = cur[t])
    /\ pc' = [pc EXCEPT ![t] = "crit"]
    /\ UNCHANGED <<disk, cache, modified, queue, mgrVars, cur, handles, out, panicked, touched>>

\* read, get_ref, get_bytes
read(t) ==
    /\ ~panicked
    /\ pc[t] = "crit"
    /\ out' = [out EXCEPT ![t] = cache[cur[t]]]
    /\ UNCHANGED <<disk, cache, modified, queue, mgrVars, pc, cur, handles, panicked, touched>>

\* A change that does not mark the block dirty.
modify_unmarked(t, v) ==
    /\ ~panicked
    /\ pc[t] = "crit"
    /\ cache' = [cache EXCEPT ![cur[t]] = v]
    /\ touched' = IF op = "sync" THEN touched \cup {cur[t]} ELSE touched
    /\ UNCHANGED <<disk, modified, queue, mgrVars, threadVars, panicked>>

\* modify, get_mut, get_bytes_mut
modify(t, v) ==
    /\ ~panicked
    /\ pc[t] = "crit"
    /\ cache' = [cache EXCEPT ![cur[t]] = v]
    /\ modified' = modified \cup {cur[t]}
    /\ touched' = IF op = "sync" THEN touched \cup {cur[t]} ELSE touched
    /\ UNCHANGED <<disk, queue, mgrVars, threadVars, panicked>>

\* sync by the caller, under the block lock it holds (create_dir).
guard_sync(t) ==
    /\ ~panicked
    /\ pc[t] = "crit"
    /\ disk' = write_back(cur[t])
    /\ modified' = modified \ {cur[t]}
    /\ UNCHANGED <<cache, queue, mgrVars, threadVars, panicked, touched>>

unlock_block(t) ==
    /\ ~panicked
    /\ pc[t] = "crit"
    /\ pc' = [pc EXCEPT ![t] = "run"]
    /\ cur' = [cur EXCEPT ![t] = NoKey]
    /\ out' = [out EXCEPT ![t] = NoValue]
    /\ UNCHANGED <<disk, cache, modified, queue, mgrVars, handles, panicked, touched>>

drop_handle(t, k) ==
    /\ ~panicked
    /\ pc[t] = "run" /\ holder # t
    /\ k \in handles[t]
    /\ handles' = [handles EXCEPT ![t] = @ \ {k}]
    /\ UNCHANGED <<disk, cache, modified, queue, mgrVars, pc, cur, out, panicked, touched>>

\* After a panic nothing runs.
halted == panicked /\ UNCHANGED vars

manager_step ==
    \/ evict_one
    \/ evict_one_panic
    \/ load_block_present
    \/ load_block_insert
    \/ zeroed_insert
    \/ \E k \in Key : sync(k)
    \/ sync_all_done

Next ==
    \/ manager_step
    \/ \E t \in Thread :
        \/ \E k \in Key : get_block_cache_hit(t, k)
        \/ \E k \in Key : get_block_cache_miss(t, k)
        \/ \E k \in Key : get_block_cache_zeroed_miss(t, k)
        \/ block_cache_sync_all(t)
        \/ lock_block(t)
        \/ read(t)
        \/ \E v \in Value : modify(t, v)
        \/ guard_sync(t)
        \/ unlock_block(t)
        \/ \E k \in Key : drop_handle(t, k)
    \/ halted

Spec == Init /\ [][Next]_vars

\* A thread that holds a lock is not descheduled for ever.
Fairness ==
    /\ WF_vars(manager_step)
    /\ \A t \in Thread : WF_vars(unlock_block(t))

FairSpec == Spec /\ Fairness

-------------------------------------------------------------------------------
\* Every variable has its type; a handle is on an entry the manager knows.
TypeOK ==
    /\ disk \in [Key -> Value]
    /\ cache \in [Key -> Value \cup {Absent}]
    /\ modified \subseteq Key
    /\ queue \in Seq(Record)
    /\ op \in {"idle", "load", "zero", "sync"}
    /\ holder \in Thread \cup {NoThread}
    /\ want \in Key \cup {NoKey}
    /\ pos \in Nat
    /\ buf \in Seq(Value)
    /\ todo \subseteq Key
    /\ pc \in [Thread -> {"run", "lock", "crit"}]
    /\ cur \in [Thread -> Key \cup {NoKey}]
    /\ handles \in [Thread -> SUBSET Key]
    /\ out \in [Thread -> Value \cup {NoValue}]
    /\ panicked \in BOOLEAN
    /\ touched \subseteq Key

\* No write is lost: an entry that is not marked dirty agrees with the device
\* (evicting it, or reading the block again, changes nothing).
NoLostWrite ==
    \A k \in Key : k \in cached /\ k \notin modified => cache[k] = disk[k]

\* There is one copy of a block: whatever a thread has a handle on, and
\* whatever it reads or changes, is the entry the manager would give the next
\* caller.  A pinned entry is never evicted.
OneCopy ==
    \A t \in Thread : /\ handles[t] \subseteq cached
                      /\ pc[t] # "run" => cur[t] \in handles[t]

\* A block lock excludes: two threads are never in the same block.
BlockMutex ==
    \A t, u \in Thread :
        t # u /\ pc[t] = "crit" /\ pc[u] = "crit" => cur[t] # cur[u]

\* The cache never holds more than BLOCK_CACHE_SIZE blocks, and the record
\* queue stays within the limit of compact_queue.
Bounded ==
    /\ Cardinality(cached) <= CacheSize
    /\ Len(queue) <= CacheSize * QueueMult

\* The queue names every entry at most once with its current stamp, and never
\* a block that is gone, so the victim of evict_one is an entry.
RecordsCurrent ==
    \A i \in DOMAIN queue : queue[i].current =>
        /\ queue[i].key \in cached
        /\ \A j \in DOMAIN queue : queue[j].current /\ queue[j].key = queue[i].key => i = j

\* When sync_all returns, the device holds every block as it was when the call
\* started, or as some thread wrote it during the call.
SyncDurable ==
    [][sync_all_done => \A k \in cached : disk[k] = cache[k] \/ k \in touched]_vars

\* The manager lock is always released again, or the kernel panics.
ManagerReleased == (op # "idle") ~> (op = "idle" \/ panicked)

\* The block as the callers see it.
content == [k \in Key |-> IF cache[k] = Absent THEN disk[k] ELSE cache[k]]

Store == INSTANCE BlockStore
            WITH at <- cur, inside <- {t \in Thread : pc[t] = "crit"}

\* The cache and the device together are a store of atomic blocks: a read
\* returns what the last write left, whatever was loaded, evicted or synced
\* in between, and nothing but a caller changes a block.
ImplementsStore == Store!StoreSpec

\* What the holder of the manager lock relies on, and what ties a thread's
\* place in its critical section to its handles.
ManagerInv ==
    /\ modified \subseteq cached
    /\ op = "idle" <=> holder = NoThread
    /\ op # "idle" => pc[holder] = "run"
    /\ op \in {"load", "zero"} => want \in Key
    /\ op = "load" => /\ want[1] + ReadAhead <= NumBlocks
                      /\ pos < ReadAhead
                      /\ buf \in [1 .. ReadAhead -> Value]
                      /\ pos > 0 => want \in handles[holder]
    /\ op # "load" => pos = 0
    /\ op \in {"load", "zero"} /\ pos = 0 => want \notin cached
    /\ op = "sync" => todo \subseteq cached
    /\ \A t \in Thread : pc[t] = "run" <=> cur[t] = NoKey

\* The inductive invariant behind TypeOK, OneCopy, BlockMutex and Bounded.
IndInv == TypeOK /\ ManagerInv /\ OneCopy /\ BlockMutex /\ Bounded

\* With no read-ahead the buffer is one block, it is not cached, and so nobody
\* writes it to the device before it is inserted.
BufferFresh == op = "load" => buf[1] = disk[want]

CoherentInv == IndInv /\ NoLostWrite /\ BufferFresh

\* "Run out of BlockCache!": the panic says that no entry could be evicted.
PanicOnlyWhenPinned ==
    panicked => \A k \in cached : ~Unpinned(k)
===============================================================================
