--------------------------- MODULE BlockCacheProofs ---------------------------
(***************************************************************************)
(* Proofs about BlockCache.  For every number of devices, blocks, threads  *)
(* and values and every size of the cache and the queue: the types, one    *)
(* copy of each block, the block locks, the bounds and the records of the  *)
(* queue (any read-ahead), and, without read-ahead, coherence, the         *)
(* refinement of BlockStore and what sync_all leaves on the devices.       *)
(***************************************************************************)
EXTENDS BlockCache, FiniteSetTheorems, SequenceTheorems, TLAPS

\* The keys are finite, so every set of entries can be counted.
LEMMA KeyFinite == IsFiniteSet(Key)
<1>1. IsFiniteSet(0 .. NumBlocks - 1)
  BY FS_Interval, ConstantsAssumption
<1>2. QED
  BY <1>1, FS_Product, ConstantsAssumption DEF Key

\* A set of keys has a cardinality, and a key added counts once.
LEMMA KeysCount ==
  ASSUME NEW S \in SUBSET Key, NEW k \in Key
  PROVE  /\ Cardinality(S) \in Nat
         /\ Cardinality(S \cup {k}) = IF k \in S THEN Cardinality(S) ELSE Cardinality(S) + 1
         /\ Cardinality(S \ {k}) = IF k \in S THEN Cardinality(S) - 1 ELSE Cardinality(S)
<1>1. IsFiniteSet(S)
  BY KeyFinite, FS_Subset
<1>2. QED
  BY <1>1, FS_CardinalityType, FS_AddElement, FS_RemoveElement

\* The limit of the queue is at least the size of the cache.
LEMMA LimitProperties ==
  /\ CacheSize * QueueMult \in Nat
  /\ CacheSize <= CacheSize * QueueMult
<1>1. PICK c \in Nat, m \in Nat : CacheSize = c + 1 /\ QueueMult = m + 1
  <2>1. CacheSize - 1 \in Nat /\ QueueMult - 1 \in Nat
    BY ConstantsAssumption
  <2>2. QED
    BY <2>1, ConstantsAssumption
<1>2. c * m \in Nat
  OBVIOUS
<1>3. CacheSize * QueueMult = c * m + c + m + 1
  BY <1>1
<1>4. QED
  BY <1>1, <1>2, <1>3

\* mark_used leaves a queue of records within its limit.
LEMMA MarkUsedQueue ==
  ASSUME queue \in Seq(Record),
         NEW S \in SUBSET Key, NEW k \in Key, Cardinality(S) <= CacheSize,
         mark_used(k, S)
  PROVE  queue' \in Seq(Record) /\ Len(queue') <= CacheSize * QueueMult
<1> DEFINE r == [key |-> k, current |-> TRUE]
           q == Append(stale_records(k), r)
<1>1. stale_records(k) \in Seq(Record) /\ r \in Record
  <2>1. /\ Len(queue) \in Nat
        /\ \A i \in 1 .. Len(queue) : queue[i] \in Record
    OBVIOUS
  <2>2. \A i \in 1 .. Len(queue) : stale_records(k)[i] \in Record
    BY <2>1 DEF stale_records, Record
  <2>3. stale_records(k) \in [1 .. Len(queue) -> Record]
    BY <2>2 DEF stale_records
  <2>4. QED
    BY <2>1, <2>3, SeqDef DEF Record
<1>2. q \in Seq(Record)
  BY <1>1
<1>3. CASE Len(q) <= CacheSize * QueueMult
  <2>1. queue' = q
    BY <1>3 DEF mark_used, compact_queue
  <2>2. QED
    BY <1>2, <1>3, <2>1
<1>4. CASE ~(Len(q) <= CacheSize * QueueMult)
  <2>1. queue' \in [1 .. Cardinality(S) -> Record]
    <3>1. queue' \in rebuilt_queue(S)
      BY <1>4 DEF mark_used, compact_queue
    <3>2. queue' \in [1 .. Cardinality(S) -> [key : S, current : {TRUE}]]
      BY <3>1 DEF rebuilt_queue
    <3>3. [key : S, current : {TRUE}] \subseteq Record
      BY DEF Record
    <3>4. QED
      BY <3>2, <3>3
  <2>2. Cardinality(S) \in Nat
    BY KeysCount
  <2>3. queue' \in Seq(Record)
    BY <2>1, <2>2, SeqDef
  <2>4. Len(queue') = Cardinality(S)
    BY <2>1, <2>2, <2>3
  <2>5. QED
    BY <2>2, <2>3, <2>4, LimitProperties, ConstantsAssumption
<1>5. QED
  BY <1>3, <1>4

\* The initial states satisfy the inductive invariant.
LEMMA InitIndInv == Init => IndInv
<1> SUFFICES ASSUME Init PROVE IndInv
  OBVIOUS
<1>1. TypeOK
  <2>1. panicked \in BOOLEAN
    BY Zenon DEF Init
  <2>2. queue \in Seq(Record) /\ buf \in Seq(Value)
    BY EmptySeq DEF Init, NoBuf
  <2>3. QED
    BY <2>1, <2>2, SMT DEF Init, TypeOK
<1>2. cached = {}
  BY DEF Init, cached
<1>3. ManagerInv
  BY <1>2, ConstantsAssumption DEF Init, ManagerInv
<1>4. OneCopy /\ BlockMutex
  BY DEF Init, OneCopy, BlockMutex
<1>5. Bounded
  BY <1>2, FS_EmptySet, LimitProperties, ConstantsAssumption DEF Init, Bounded
<1>6. QED
  BY <1>1, <1>3, <1>4, <1>5 DEF IndInv

\* The keys of the entries are keys, and they can be counted.
LEMMA CachedKeys == cached \in SUBSET Key /\ Cardinality(cached) \in Nat
<1>1. cached \in SUBSET Key
  BY DEF cached
<1>2. IsFiniteSet(cached)
  BY <1>1, KeyFinite, FS_Subset
<1>3. QED
  BY <1>1, <1>2, FS_CardinalityType

\* A hit changes the queue and gives the caller one more handle.
LEMMA HitIndInv ==
  ASSUME IndInv, NEW t \in Thread, NEW k \in Key, get_block_cache_hit(t, k)
  PROVE  IndInv'
<1> USE DEF IndInv
<1>1. queue' \in Seq(Record) /\ Len(queue') <= CacheSize * QueueMult
  BY MarkUsedQueue, CachedKeys DEF get_block_cache_hit, TypeOK, Bounded
<1>2. cached' = cached
  BY DEF cached, get_block_cache_hit
<1>3. TypeOK'
  BY <1>1 DEF TypeOK, get_block_cache_hit, return_handle, mgrVars
<1>4. ManagerInv'
  BY <1>2, ConstantsAssumption
  DEF TypeOK, ManagerInv, get_block_cache_hit, return_handle, mgrVars, MayGet, MayCall
<1>5. OneCopy'
  BY <1>2 DEF TypeOK, OneCopy, get_block_cache_hit, return_handle
<1>6. BlockMutex'
  BY DEF TypeOK, BlockMutex, get_block_cache_hit, return_handle
<1>7. Bounded'
  BY <1>1, <1>2 DEF Bounded
<1>8. QED
  BY <1>3, <1>4, <1>5, <1>6, <1>7

\* A miss only takes the manager lock.
LEMMA MissIndInv ==
  ASSUME IndInv, NEW t \in Thread, NEW k \in Key,
         get_block_cache_miss(t, k) \/ get_block_cache_zeroed_miss(t, k)
  PROVE  IndInv'
<1> USE DEF IndInv
<1>1. cached' = cached
  BY DEF cached, get_block_cache_miss, get_block_cache_zeroed_miss
<1>2. ASSUME get_block_cache_miss(t, k)
      PROVE  buf' \in [1 .. ReadAhead -> Value]
  <2>1. \A i \in 1 .. ReadAhead : KeyAt(k, i - 1) \in Key
    BY <1>2, ConstantsAssumption DEF get_block_cache_miss, KeyAt, Key
  <2>2. QED
    BY <1>2, <2>1 DEF TypeOK, get_block_cache_miss
<1>3. buf' \in Seq(Value)
  <2>1. CASE get_block_cache_miss(t, k)
    BY <1>2, <2>1, SeqDef, ConstantsAssumption
  <2>2. CASE get_block_cache_zeroed_miss(t, k)
    BY <2>2, EmptySeq DEF get_block_cache_zeroed_miss, NoBuf
  <2>3. QED
    BY <2>1, <2>2
<1>4. TypeOK'
  BY <1>3 DEF TypeOK, get_block_cache_miss, get_block_cache_zeroed_miss, threadVars
<1>5. ManagerInv'
  BY <1>1, <1>2, ConstantsAssumption
  DEF TypeOK, ManagerInv, get_block_cache_miss, get_block_cache_zeroed_miss, threadVars,
      MayGet, MayCall
<1>6. OneCopy' /\ BlockMutex' /\ Bounded'
  BY <1>1 DEF OneCopy, BlockMutex, Bounded, get_block_cache_miss,
              get_block_cache_zeroed_miss, threadVars
<1>7. QED
  BY <1>4, <1>5, <1>6

\* Eviction removes one entry that nobody has a handle on.
LEMMA EvictIndInv ==
  ASSUME IndInv, evict_one
  PROVE  IndInv'
<1> USE DEF IndInv
<1>1. PICK i \in victims :
        /\ disk' = IF queue[i].key \in modified
                   THEN [disk EXCEPT ![queue[i].key] = cache[queue[i].key]] ELSE disk
        /\ cache' = [cache EXCEPT ![queue[i].key] = Absent]
        /\ modified' = modified \ {queue[i].key}
        /\ queue' = SubSeq(queue, i + 1, Len(queue))
  BY DEF evict_one, write_back
<1> DEFINE k == queue[i].key
<1>2. i \in 1 .. Len(queue) /\ Len(queue) \in Nat /\ k \in cached /\ k \in Key /\ Unpinned(k)
  BY DEF victims, TypeOK, cached
<1>3. cached' = cached \ {k}
  BY <1>1, <1>2 DEF cached, TypeOK
<1>4. queue' \in Seq(Record) /\ Len(queue') <= Len(queue)
  <2>1. \A j \in i + 1 .. Len(queue) : queue[j] \in Record
    BY <1>2 DEF TypeOK
  <2>2. QED
    BY <1>1, <1>2, <2>1, SubSeqProperties
<1>5. cache[k] \in Value
  BY <1>2 DEF TypeOK, cached
<1>6. TypeOK'
  BY <1>1, <1>2, <1>4, <1>5 DEF TypeOK, evict_one, write_back, mgrVars, threadVars
<1>7. ManagerInv'
  BY <1>1, <1>2, <1>3 DEF TypeOK, ManagerInv, evict_one, write_back, mgrVars, threadVars
<1>8. OneCopy'
  BY <1>2, <1>3 DEF OneCopy, Unpinned, evict_one, write_back, threadVars
<1>9. BlockMutex'
  BY DEF BlockMutex, evict_one, write_back, threadVars
<1>10. Bounded'
  <2>1. Cardinality(cached') <= Cardinality(cached)
    BY <1>2, <1>3, KeysCount, CachedKeys
  <2>2. QED
    BY <1>3, <1>4, <2>1, <1>2, CachedKeys, KeysCount, LimitProperties, ConstantsAssumption
    DEF Bounded
<1>11. QED
  BY <1>6, <1>7, <1>8, <1>9, <1>10

\* The panic changes nothing but the queue.
LEMMA PanicIndInv ==
  ASSUME IndInv, evict_one_panic
  PROVE  IndInv'
<1> USE DEF IndInv
<1>1. cached' = cached
  BY DEF cached, evict_one_panic
<1>2. TypeOK'
  BY DEF TypeOK, evict_one_panic, mgrVars, threadVars
<1>3. ManagerInv' /\ OneCopy' /\ BlockMutex'
  BY <1>1 DEF ManagerInv, OneCopy, BlockMutex, evict_one_panic, mgrVars, threadVars
<1>4. Bounded'
  BY <1>1, LimitProperties DEF Bounded, evict_one_panic
<1>5. QED
  BY <1>2, <1>3, <1>4

\* The end of an iteration of load_block_range, once its entry is in place.
LEMMA LoadAdvanceIndInv ==
  ASSUME IndInv, op = "load", load_advance,
         disk' = disk, modified' = modified, panicked' = panicked,
         cached' = cached \cup {target}, cache' \in [Key -> Value \cup {Absent}],
         queue' \in Seq(Record), Len(queue') <= CacheSize * QueueMult,
         Cardinality(cached') <= CacheSize
  PROVE  IndInv'
<1> USE DEF IndInv
<1>1. /\ holder \in Thread /\ want \in Key /\ pc[holder] = "run"
      /\ pos \in Nat /\ pos < ReadAhead
  BY ConstantsAssumption DEF TypeOK, ManagerInv
<1>2. pos = 0 => target = want
  BY <1>1 DEF target, KeyAt, Key
<1>3. CASE pos + 1 = ReadAhead
  <2>1. unlock_manager /\ pc' = [pc EXCEPT ![holder] = "lock"]
                       /\ cur' = [cur EXCEPT ![holder] = want] /\ out' = out
    BY <1>3 DEF load_advance
  <2>2. handles' \in [Thread -> SUBSET Key]
    BY <1>1 DEF load_advance, TypeOK
  <2>3. TypeOK'
    BY <1>1, <2>1, <2>2, EmptySeq DEF TypeOK, unlock_manager, NoBuf
  <2>4. ManagerInv'
    BY <1>1, <2>1, ConstantsAssumption DEF TypeOK, ManagerInv, unlock_manager
  <2>5. pos # 0 => want \in handles[holder]
    BY <1>1 DEF ManagerInv
  <2>6. OneCopy'
    BY <1>1, <1>2, <2>1, <2>5 DEF TypeOK, OneCopy, load_advance
  <2>7. BlockMutex'
    BY <1>1, <2>1 DEF TypeOK, BlockMutex
  <2>8. QED
    BY <2>3, <2>4, <2>6, <2>7 DEF Bounded
<1>4. CASE pos + 1 # ReadAhead
  <2>1. pos' = pos + 1 /\ UNCHANGED <<op, holder, want, buf, todo, pc, cur, touched, out>>
    BY <1>4 DEF load_advance
  <2>2. handles' \in [Thread -> SUBSET Key]
    BY <1>1 DEF load_advance, TypeOK
  <2>3. TypeOK'
    BY <1>1, <2>1, <2>2 DEF TypeOK
  <2>4. ManagerInv'
    BY <1>1, <1>4, <2>1, ConstantsAssumption DEF TypeOK, ManagerInv, load_advance
  <2>5. OneCopy'
    BY <1>1, <1>2, <2>1 DEF TypeOK, OneCopy, load_advance
  <2>6. BlockMutex'
    BY <2>1 DEF BlockMutex
  <2>7. QED
    BY <2>3, <2>4, <2>5, <2>6 DEF Bounded
<1>5. QED
  BY <1>3, <1>4

\* The block the holder is about to insert is a key of the device.
LEMMA TargetKey ==
  ASSUME IndInv, op \in {"load", "zero"}
  PROVE  target \in Key
BY ConstantsAssumption DEF IndInv, TypeOK, ManagerInv, target, KeyAt, Key

\* Inserting the target adds one entry, within the capacity.
LEMMA InsertTarget ==
  ASSUME IndInv, op \in {"load", "zero"}, target \notin cached,
         Cardinality(cached) < CacheSize, mark_used(target, cached \cup {target}),
         NEW v \in Value, cache' = [cache EXCEPT ![target] = v]
  PROVE  /\ cache' \in [Key -> Value \cup {Absent}]
         /\ cached' = cached \cup {target}
         /\ Cardinality(cached') <= CacheSize
         /\ queue' \in Seq(Record)
         /\ Len(queue') <= CacheSize * QueueMult
<1>1. target \in Key
  BY TargetKey
<1>2. cached' = cached \cup {target} /\ cache' \in [Key -> Value \cup {Absent}]
  BY <1>1, ConstantsAssumption DEF cached, IndInv, TypeOK
<1>3. Cardinality(cached \cup {target}) <= CacheSize
  BY <1>1, KeysCount, CachedKeys, ConstantsAssumption
<1>4. cached \cup {target} \in SUBSET Key
  BY <1>1, CachedKeys
<1>5. queue' \in Seq(Record) /\ Len(queue') <= CacheSize * QueueMult
  BY <1>1, <1>3, <1>4, MarkUsedQueue DEF IndInv, TypeOK
<1>6. QED
  BY <1>2, <1>3, <1>5

\* A block of the range that is cached already is only marked used.
LEMMA LoadPresentIndInv ==
  ASSUME IndInv, load_block_present
  PROVE  IndInv'
<1>1. op = "load" /\ target \in cached /\ target \in Key
  BY TargetKey DEF load_block_present
<1>2. cached' = cached
  BY DEF load_block_present, cached
<1>3. queue' \in Seq(Record) /\ Len(queue') <= CacheSize * QueueMult
  BY <1>1, MarkUsedQueue, CachedKeys DEF load_block_present, IndInv, TypeOK, Bounded
<1>4. cached' = cached \cup {target} /\ cache' \in [Key -> Value \cup {Absent}]
  BY <1>1, <1>2 DEF load_block_present, IndInv, TypeOK
<1>5. Cardinality(cached') <= CacheSize
  BY <1>2 DEF IndInv, Bounded
<1>6. QED
  BY <1>1, <1>3, <1>4, <1>5, LoadAdvanceIndInv DEF load_block_present

\* A block of the range that is not cached is inserted from the buffer.
LEMMA LoadInsertIndInv ==
  ASSUME IndInv, load_block_insert
  PROVE  IndInv'
<1>1. op = "load" /\ target \notin cached /\ Cardinality(cached) < CacheSize
  BY DEF load_block_insert
<1>2. buf[pos + 1] \in Value
  BY <1>1, ConstantsAssumption DEF IndInv, TypeOK, ManagerInv
<1>3. /\ cache' \in [Key -> Value \cup {Absent}]
      /\ cached' = cached \cup {target}
      /\ Cardinality(cached') <= CacheSize
      /\ queue' \in Seq(Record)
      /\ Len(queue') <= CacheSize * QueueMult
  BY <1>1, <1>2, InsertTarget DEF load_block_insert
<1>4. QED
  BY <1>1, <1>3, LoadAdvanceIndInv DEF load_block_insert

\* A zeroed entry is inserted dirty and handed to the caller.
LEMMA ZeroedIndInv ==
  ASSUME IndInv, zeroed_insert
  PROVE  IndInv'
<1>1. /\ op = "zero" /\ target \notin cached /\ Cardinality(cached) < CacheSize
      /\ holder \in Thread /\ want \in Key /\ pc[holder] = "run" /\ target = want
  BY ConstantsAssumption
  DEF zeroed_insert, new_zeroed, IndInv, TypeOK, ManagerInv, target, KeyAt, Key
<1>2. /\ cache' \in [Key -> Value \cup {Absent}]
      /\ cached' = cached \cup {target}
      /\ Cardinality(cached') <= CacheSize
      /\ queue' \in Seq(Record)
      /\ Len(queue') <= CacheSize * QueueMult
  BY <1>1, InsertTarget, ConstantsAssumption DEF zeroed_insert, new_zeroed
<1>3. TypeOK'
  BY <1>1, <1>2, EmptySeq
  DEF zeroed_insert, new_zeroed, IndInv, TypeOK, unlock_manager, return_handle, NoBuf
<1>4. ManagerInv'
  BY <1>1, <1>2, ConstantsAssumption
  DEF zeroed_insert, new_zeroed, IndInv, TypeOK, ManagerInv, unlock_manager, return_handle
<1>5. OneCopy'
  BY <1>1, <1>2 DEF zeroed_insert, new_zeroed, IndInv, TypeOK, OneCopy, return_handle
<1>6. BlockMutex'
  BY <1>1 DEF zeroed_insert, new_zeroed, IndInv, TypeOK, BlockMutex, return_handle
<1>7. Bounded'
  BY <1>2 DEF Bounded
<1>8. QED
  BY <1>3, <1>4, <1>5, <1>6, <1>7 DEF IndInv

\* sync_all changes no entry: it takes the lock, cleans entries, gives it back.
LEMMA SyncIndInv ==
  ASSUME IndInv,
         \/ \E t \in Thread : block_cache_sync_all(t)
         \/ \E k \in Key : sync(k)
         \/ sync_all_done
  PROVE  IndInv'
<1> USE DEF IndInv
<1>1. cached' = cached
  BY DEF cached, block_cache_sync_all, sync, write_back, sync_all_done
<1>2. CASE \E t \in Thread : block_cache_sync_all(t)
  <2>1. TypeOK'
    BY <1>2, CachedKeys DEF TypeOK, block_cache_sync_all, threadVars
  <2>2. ManagerInv'
    BY <1>1, <1>2, ConstantsAssumption
    DEF TypeOK, ManagerInv, block_cache_sync_all, threadVars, MayCall
  <2>3. OneCopy' /\ BlockMutex' /\ Bounded'
    BY <1>1, <1>2 DEF OneCopy, BlockMutex, Bounded, block_cache_sync_all, threadVars
  <2>4. QED
    BY <2>1, <2>2, <2>3
<1>3. CASE \E k \in Key : sync(k)
  <2>1. PICK k \in Key : sync(k)
    BY <1>3
  <2>2. cache[k] \in Value
    BY <2>1 DEF sync, write_back, TypeOK, ManagerInv, cached
  <2>3. TypeOK'
    BY <2>1, <2>2 DEF TypeOK, sync, write_back, threadVars
  <2>4. ManagerInv'
    BY <1>1, <2>1 DEF TypeOK, ManagerInv, sync, write_back, threadVars
  <2>5. OneCopy' /\ BlockMutex' /\ Bounded'
    BY <1>1, <2>1 DEF OneCopy, BlockMutex, Bounded, sync, write_back, threadVars
  <2>6. QED
    BY <2>3, <2>4, <2>5
<1>4. CASE sync_all_done
  <2>1. TypeOK'
    BY <1>4, EmptySeq DEF TypeOK, sync_all_done, unlock_manager, threadVars, NoBuf
  <2>2. ManagerInv'
    BY <1>1, <1>4 DEF TypeOK, ManagerInv, sync_all_done, unlock_manager, threadVars
  <2>3. OneCopy' /\ BlockMutex' /\ Bounded'
    BY <1>1, <1>4 DEF OneCopy, BlockMutex, Bounded, sync_all_done, threadVars
  <2>4. QED
    BY <2>1, <2>2, <2>3
<1>5. QED
  BY <1>2, <1>3, <1>4

\* The caller's steps: lock, read, change, unlock a block, drop a handle.
LEMMA CallerIndInv ==
  ASSUME IndInv, NEW t \in Thread,
         \/ lock_block(t)
         \/ read(t)
         \/ \E v \in Value : modify(t, v)
         \/ guard_sync(t)
         \/ unlock_block(t)
         \/ \E k \in Key : drop_handle(t, k)
  PROVE  IndInv'
<1> USE DEF IndInv
<1>1. CASE lock_block(t)
  <2>1. cached' = cached
    BY <1>1 DEF cached, lock_block
  <2>2. TypeOK' /\ OneCopy' /\ BlockMutex' /\ Bounded'
    BY <1>1, <2>1 DEF TypeOK, OneCopy, BlockMutex, Bounded, lock_block, mgrVars
  <2>3. ManagerInv'
    BY <1>1, <2>1 DEF TypeOK, ManagerInv, lock_block, mgrVars
  <2>4. QED
    BY <2>2, <2>3
<1>2. CASE read(t)
  <2>1. cached' = cached
    BY <1>2 DEF cached, read
  <2>2. cur[t] \in cached /\ cache[cur[t]] \in Value
    BY <1>2 DEF read, OneCopy, TypeOK, cached
  <2>3. TypeOK' /\ OneCopy' /\ BlockMutex' /\ Bounded'
    BY <1>2, <2>1, <2>2 DEF TypeOK, OneCopy, BlockMutex, Bounded, read, mgrVars
  <2>4. ManagerInv'
    BY <1>2, <2>1 DEF TypeOK, ManagerInv, read, mgrVars
  <2>5. QED
    BY <2>3, <2>4
<1>3. ASSUME NEW v \in Value, modify(t, v) PROVE IndInv'
  <2>1. cur[t] \in cached /\ cur[t] \in Key
    BY <1>3 DEF modify, OneCopy, TypeOK, cached
  <2>2. cached' = cached
    BY <1>3, <2>1, ConstantsAssumption DEF cached, modify, TypeOK
  <2>3. TypeOK' /\ OneCopy' /\ BlockMutex' /\ Bounded'
    BY <1>3, <2>1, <2>2 DEF TypeOK, OneCopy, BlockMutex, Bounded, modify, mgrVars, threadVars
  <2>4. ManagerInv'
    BY <1>3, <2>1, <2>2 DEF TypeOK, ManagerInv, modify, mgrVars, threadVars
  <2>5. QED
    BY <2>3, <2>4
<1>4. CASE unlock_block(t)
  <2>1. cached' = cached
    BY <1>4 DEF cached, unlock_block
  <2>2. TypeOK' /\ OneCopy' /\ BlockMutex' /\ Bounded'
    BY <1>4, <2>1 DEF TypeOK, OneCopy, BlockMutex, Bounded, unlock_block, mgrVars
  <2>3. ManagerInv'
    BY <1>4, <2>1, ConstantsAssumption DEF TypeOK, ManagerInv, unlock_block, mgrVars
  <2>4. QED
    BY <2>2, <2>3
<1>5. ASSUME NEW k \in Key, drop_handle(t, k) PROVE IndInv'
  <2>1. cached' = cached
    BY <1>5 DEF cached, drop_handle
  <2>2. TypeOK' /\ OneCopy' /\ BlockMutex' /\ Bounded'
    BY <1>5, <2>1 DEF TypeOK, OneCopy, BlockMutex, Bounded, drop_handle, mgrVars
  <2>3. ManagerInv'
    BY <1>5, <2>1 DEF TypeOK, ManagerInv, drop_handle, mgrVars
  <2>4. QED
    BY <2>2, <2>3
<1>6. CASE guard_sync(t)
  <2>1. cur[t] \in Key /\ cache[cur[t]] \in Value /\ cached' = cached
    BY <1>6 DEF guard_sync, OneCopy, TypeOK, cached
  <2>2. TypeOK'
    BY <1>6, <2>1 DEF TypeOK, guard_sync, write_back, mgrVars, threadVars
  <2>3. ManagerInv'
    BY <1>6, <2>1 DEF TypeOK, ManagerInv, guard_sync, mgrVars, threadVars
  <2>4. OneCopy' /\ BlockMutex' /\ Bounded'
    BY <1>6, <2>1 DEF OneCopy, BlockMutex, Bounded, guard_sync, threadVars
  <2>5. QED
    BY <2>2, <2>3, <2>4
<1>7. QED
  BY <1>1, <1>2, <1>3, <1>4, <1>5, <1>6

\* Every step of the cache preserves the inductive invariant.
LEMMA NextIndInv == IndInv /\ [Next]_vars => IndInv'
<1> SUFFICES ASSUME IndInv, [Next]_vars PROVE IndInv'
  OBVIOUS
<1>1. CASE UNCHANGED vars
  <2>1. cached' = cached
    BY <1>1 DEF cached, vars
  <2>2. QED
    BY <1>1, <2>1
    DEF IndInv, TypeOK, ManagerInv, OneCopy, BlockMutex, Bounded, vars, mgrVars, threadVars
<1>2. CASE manager_step
  BY <1>2, EvictIndInv, PanicIndInv, LoadPresentIndInv, LoadInsertIndInv, ZeroedIndInv,
     SyncIndInv
  DEF manager_step
<1>3. ASSUME NEW t \in Thread,
             \/ \E k \in Key : get_block_cache_hit(t, k)
             \/ \E k \in Key : get_block_cache_miss(t, k)
             \/ \E k \in Key : get_block_cache_zeroed_miss(t, k)
             \/ block_cache_sync_all(t)
      PROVE  IndInv'
  BY <1>3, HitIndInv, MissIndInv, SyncIndInv
<1>4. ASSUME NEW t \in Thread,
             \/ lock_block(t)
             \/ read(t)
             \/ \E v \in Value : modify(t, v)
             \/ guard_sync(t)
             \/ unlock_block(t)
             \/ \E k \in Key : drop_handle(t, k)
      PROVE  IndInv'
  BY <1>4, CallerIndInv
<1>5. QED
  BY <1>1, <1>2, <1>3, <1>4 DEF Next, halted

\* For any cache size, queue limit and read-ahead, and any number of threads:
\* the state is well typed, a block has one copy and a handle keeps it, a block
\* lock excludes, and neither the cache nor its queue outgrows its limit.
THEOREM SpecIndInv == Spec => []IndInv
<1>1. Init => IndInv
  BY InitIndInv
<1>2. IndInv /\ [Next]_vars => IndInv'
  BY NextIndInv
<1>3. QED
  BY <1>1, <1>2, PTL DEF Spec

\* Type correctness of the cache.
THEOREM SpecTypeOK == Spec => []TypeOK
<1>1. IndInv => TypeOK
  BY DEF IndInv
<1>2. QED
  BY <1>1, SpecIndInv, PTL

\* A pinned entry is never evicted, so a handle always is on the copy of the
\* block that every other caller gets.
THEOREM SpecOneCopy == Spec => []OneCopy
<1>1. IndInv => OneCopy
  BY DEF IndInv
<1>2. QED
  BY <1>1, SpecIndInv, PTL

\* The cache stays within BLOCK_CACHE_SIZE and the queue within its limit.
THEOREM SpecBounded == Spec => []Bounded
<1>1. IndInv => Bounded
  BY DEF IndInv
<1>2. QED
  BY <1>1, SpecIndInv, PTL

-------------------------------------------------------------------------------
(***************************************************************************)
(* The eviction queue.                                                     *)
(***************************************************************************)

\* RecordsCurrent, said of a queue q and a set S of entries.
CurrentIn(q, S) ==
  \A i \in DOMAIN q : q[i].current =>
      /\ q[i].key \in S
      /\ \A j \in DOMAIN q : q[j].current /\ q[j].key = q[i].key => i = j

\* The order of the keys is strict.
LEMMA KeyLessIrreflexive == \A j \in Key : ~KeyLess(j, j)
<1> SUFFICES ASSUME NEW j \in Key PROVE ~KeyLess(j, j)
  OBVIOUS
<1>1. PICK b \in 0 .. NumBlocks - 1, d \in Device : j = <<b, d>>
  BY DEF Key
<1>2. b \in Int /\ d \in Int
  BY ConstantsAssumption
<1>3. QED
  BY <1>1, <1>2 DEF KeyLess

\* mark_used leaves one current record of its key, and drops none it still
\* needs: the other current records stay, or the queue is rebuilt.
LEMMA MarkUsedCurrent ==
  ASSUME queue \in Seq(Record), CurrentIn(queue, cached),
         NEW S \in SUBSET Key, cached \subseteq S, NEW k \in S, mark_used(k, S)
  PROVE  CurrentIn(queue', S)
<1> DEFINE r == [key |-> k, current |-> TRUE]
           s == stale_records(k)
           q == Append(s, r)
<1>1. /\ Len(queue) \in Nat
      /\ DOMAIN queue = 1 .. Len(queue)
      /\ \A i \in 1 .. Len(queue) : queue[i] \in Record
  OBVIOUS
<1>2. /\ s \in Seq(Record) /\ Len(s) = Len(queue)
      /\ \A i \in 1 .. Len(queue) :
            s[i] = IF queue[i].key = k THEN [key |-> k, current |-> FALSE] ELSE queue[i]
  <2>1. \A i \in 1 .. Len(queue) : s[i] \in Record
    BY <1>1 DEF stale_records, Record
  <2>2. s \in [1 .. Len(queue) -> Record]
    BY <2>1 DEF stale_records
  <2>3. s \in Seq(Record)
    BY <1>1, <2>2, SeqDef
  <2>4. Len(s) = Len(queue)
    <3> HIDE DEF s
    <3>1. QED
      BY <1>1, <2>2, <2>3
  <2>5. QED
    BY <2>3, <2>4 DEF stale_records
<1>3. CASE Len(q) <= CacheSize * QueueMult
  <2>1. queue' = q
    BY <1>3 DEF mark_used, compact_queue
  <2>2. /\ DOMAIN q = 1 .. Len(queue) + 1
        /\ q[Len(queue) + 1] = r
        /\ \A i \in 1 .. Len(queue) : q[i] = s[i]
    <3>1. r \in Record
      BY DEF Record
    <3> HIDE DEF s, r
    <3>2. QED
      BY <1>1, <1>2, <3>1
  <2>3. \A i \in 1 .. Len(queue) : q[i].current =>
            queue[i].current /\ q[i].key = queue[i].key /\ queue[i].key # k
    BY <1>2, <2>2
  <2>4. \A i \in 1 .. Len(queue) : q[i].current => q[i].key \in S
    BY <1>1, <2>3 DEF CurrentIn
  <2>5. \A i, j \in 1 .. Len(queue) :
            q[i].current /\ q[j].current /\ q[i].key = q[j].key => i = j
    BY <1>1, <2>3 DEF CurrentIn
  <2>6. \A i \in DOMAIN q : i \in 1 .. Len(queue) \/ i = Len(queue) + 1
    BY <1>1, <2>2
  <2>7. r.key = k /\ r.current
    OBVIOUS
  <2>8. CurrentIn(q, S)
    <3> HIDE DEF q, r, s
    <3>1. QED
      BY <2>2, <2>3, <2>4, <2>5, <2>6, <2>7 DEF CurrentIn
  <2>9. QED
    BY <2>1, <2>8
<1>4. CASE ~(Len(q) <= CacheSize * QueueMult)
  <2>1. queue' \in rebuilt_queue(S)
    BY <1>4 DEF mark_used, compact_queue
  <2>2. /\ queue' \in [1 .. Cardinality(S) -> [key : S, current : {TRUE}]]
        /\ \A i, j \in 1 .. Cardinality(S) : i < j => KeyLess(queue'[i].key, queue'[j].key)
    BY <2>1 DEF rebuilt_queue
  <2>3. Cardinality(S) \in Nat
    BY KeysCount
  <2>4. \A i \in 1 .. Cardinality(S) : queue'[i].key \in S
    BY <2>2
  <2>5. \A j \in Key : ~KeyLess(j, j)
    BY KeyLessIrreflexive
  <2>6. \A i, j \in 1 .. Cardinality(S) : queue'[i].key = queue'[j].key => i = j
    <3> SUFFICES ASSUME NEW i \in 1 .. Cardinality(S), NEW j \in 1 .. Cardinality(S),
                        queue'[i].key = queue'[j].key, i # j
                 PROVE  FALSE
      OBVIOUS
    <3>1. i < j \/ j < i
      BY <2>3
    <3>2. queue'[i].key \in Key
      BY <2>4
    <3>3. QED
      BY <2>2, <2>5, <3>1, <3>2
  <2>7. QED
    BY <2>2, <2>4, <2>6 DEF CurrentIn
<1>5. QED
  BY <1>3, <1>4

\* evict_one takes the only current record of its victim off the queue.
LEMMA EvictCurrent ==
  ASSUME TypeOK, RecordsCurrent, evict_one
  PROVE  RecordsCurrent'
<1>1. PICK i \in victims :
        /\ cache' = [cache EXCEPT ![queue[i].key] = Absent]
        /\ queue' = SubSeq(queue, i + 1, Len(queue))
  BY DEF evict_one
<1> DEFINE k == queue[i].key
           n == Len(queue)
<1>2. /\ n \in Nat /\ DOMAIN queue = 1 .. n
      /\ i \in 1 .. n /\ k \in cached /\ k \in Key /\ queue[i].current
  BY DEF victims, TypeOK, cached
<1>3. cached' = cached \ {k}
  BY <1>1, <1>2 DEF cached, TypeOK
<1>4. DOMAIN queue' = 1 .. n - i /\ \A j \in 1 .. n - i : queue'[j] = queue[i + j]
  <2>1. \A j \in i + 1 .. n : queue[j] \in Record
    BY <1>2 DEF TypeOK
  <2> DEFINE q == SubSeq(queue, i + 1, n)
  <2>2. /\ q \in Seq(Record)
        /\ Len(q) = IF i + 1 <= n THEN n - (i + 1) + 1 ELSE 0
        /\ \A j \in 1 .. n - (i + 1) + 1 : q[j] = queue[i + 1 + j - 1]
    <3>1. i + 1 \in 1 .. n + 1 /\ queue \in Seq(Record)
      BY <1>2 DEF TypeOK
    <3>2. QED
      BY <1>2, <2>1, <3>1, SubSeqProperties
  <2> HIDE DEF q
  <2>3. Len(q) = n - i /\ \A j \in 1 .. n - i : q[j] = queue[i + j]
    <3>1. n \in Nat /\ i \in 1 .. n
      BY <1>2
    <3> HIDE DEF n
    <3>2. n - (i + 1) + 1 = n - i /\ \A j \in 1 .. n - i : i + 1 + j - 1 = i + j
      BY <3>1
    <3>3. QED
      BY <2>2, <3>1, <3>2
  <2>4. DOMAIN q = 1 .. n - i
    BY <2>2, <2>3
  <2>5. QED
    BY <1>1, <2>3, <2>4 DEF q
<1>5. \A j \in 1 .. n - i : i + j \in 1 .. n /\ i + j # i
  BY <1>2
<1>6. \A j \in DOMAIN queue' : queue'[j].current => queue'[j].key \in cached'
  BY <1>2, <1>3, <1>4, <1>5 DEF RecordsCurrent
<1>7. \A j, m \in DOMAIN queue' :
        queue'[j].current /\ queue'[m].current /\ queue'[m].key = queue'[j].key => j = m
  <2> SUFFICES ASSUME NEW j \in 1 .. n - i, NEW m \in 1 .. n - i,
                      queue[i + j].current, queue[i + m].current,
                      queue[i + m].key = queue[i + j].key
               PROVE  j = m
    BY <1>4
  <2>1. i + j = i + m
    BY <1>2, <1>5 DEF RecordsCurrent
  <2>2. QED
    BY <1>2, <2>1
<1>8. QED
  BY <1>6, <1>7 DEF RecordsCurrent

\* The steps that change the queue keep its records current.
LEMMA QueueCurrent ==
  ASSUME IndInv, RecordsCurrent,
         \/ \E t \in Thread, k \in Key : get_block_cache_hit(t, k)
         \/ load_block_present
         \/ load_block_insert
         \/ zeroed_insert
  PROVE  RecordsCurrent'
<1> USE DEF IndInv
<1>1. queue \in Seq(Record) /\ CurrentIn(queue, cached) /\ cached \in SUBSET Key
  BY CachedKeys DEF TypeOK, RecordsCurrent, CurrentIn
<1>2. CASE \E t \in Thread, k \in Key : get_block_cache_hit(t, k)
  <2>1. PICK k \in cached : mark_used(k, cached)
    BY <1>2 DEF get_block_cache_hit
  <2>2. CurrentIn(queue', cached)
    BY <1>1, <2>1, MarkUsedCurrent
  <2>3. cached' = cached
    BY <1>2 DEF get_block_cache_hit, cached
  <2>4. QED
    BY <2>2, <2>3 DEF RecordsCurrent, CurrentIn
<1>3. CASE load_block_present
  <2>1. CurrentIn(queue', cached)
    BY <1>1, <1>3, MarkUsedCurrent DEF load_block_present
  <2>2. cached' = cached
    BY <1>3 DEF load_block_present, cached
  <2>3. QED
    BY <2>1, <2>2 DEF RecordsCurrent, CurrentIn
<1>4. CASE load_block_insert \/ zeroed_insert
  <2>1. /\ op \in {"load", "zero"} /\ target \notin cached
        /\ Cardinality(cached) < CacheSize /\ mark_used(target, cached \cup {target})
    BY <1>4 DEF load_block_insert, zeroed_insert
  <2>2. target \in Key
    BY <2>1, TargetKey
  <2>3. CurrentIn(queue', cached \cup {target})
    <3>1. cached \cup {target} \in SUBSET Key
      BY <1>1, <2>2
    <3>2. QED
      BY <1>1, <2>1, <3>1, MarkUsedCurrent
  <2>4. cached' = cached \cup {target}
    <3>1. CASE load_block_insert
      <4>1. buf[pos + 1] \in Value
        BY <3>1, ConstantsAssumption DEF load_block_insert, TypeOK, ManagerInv
      <4>2. QED
        BY <2>2, <3>1, <4>1, ConstantsAssumption DEF load_block_insert, cached, TypeOK
    <3>2. CASE zeroed_insert
      BY <2>2, <3>2, ConstantsAssumption DEF zeroed_insert, new_zeroed, cached, TypeOK
    <3>3. QED
      BY <1>4, <3>1, <3>2
  <2>5. QED
    BY <2>3, <2>4 DEF RecordsCurrent, CurrentIn
<1>5. QED
  BY <1>2, <1>3, <1>4

\* A step that leaves the queue alone keeps the set of entries too.
LEMMA OtherCurrent ==
  ASSUME IndInv, RecordsCurrent,
         \/ UNCHANGED vars
         \/ evict_one_panic
         \/ \E k \in Key : sync(k)
         \/ sync_all_done
         \/ \E t \in Thread :
              \/ \E k \in Key : get_block_cache_miss(t, k)
              \/ \E k \in Key : get_block_cache_zeroed_miss(t, k)
              \/ block_cache_sync_all(t)
              \/ lock_block(t)
              \/ read(t)
              \/ \E v \in Value : modify(t, v)
              \/ guard_sync(t)
              \/ unlock_block(t)
              \/ \E k \in Key : drop_handle(t, k)
  PROVE  RecordsCurrent'
<1>1. CASE evict_one_panic
  BY <1>1 DEF evict_one_panic, RecordsCurrent
<1>2. ASSUME NEW t \in Thread, NEW v \in Value, modify(t, v)
      PROVE  RecordsCurrent'
  <2>1. cur[t] \in cached /\ cur[t] \in Key
    BY <1>2 DEF modify, IndInv, OneCopy, TypeOK, cached
  <2>2. cached' = cached
    BY <1>2, <2>1, ConstantsAssumption DEF cached, modify, IndInv, TypeOK
  <2>3. QED
    BY <1>2, <2>2 DEF modify, RecordsCurrent
<1>3. CASE queue' = queue /\ cache' = cache
  BY <1>3 DEF RecordsCurrent, cached
<1>4. QED
  BY <1>1, <1>2, <1>3
  DEF vars, sync, sync_all_done, get_block_cache_miss, get_block_cache_zeroed_miss,
      block_cache_sync_all, lock_block, read, guard_sync, unlock_block, drop_handle

\* For every cache and queue size and any read-ahead: the queue holds at most
\* one current record of a block, and only of blocks that are cached.
THEOREM SpecRecordsCurrent == Spec => []RecordsCurrent
<1>1. Init => RecordsCurrent
  BY DEF Init, RecordsCurrent
<1>2. IndInv /\ RecordsCurrent /\ [Next]_vars => RecordsCurrent'
  <2> SUFFICES ASSUME IndInv, RecordsCurrent, [Next]_vars PROVE RecordsCurrent'
    OBVIOUS
  <2>1. CASE UNCHANGED vars \/ halted
    BY <2>1, OtherCurrent DEF halted
  <2>2. CASE manager_step
    BY <2>2, EvictCurrent, QueueCurrent, OtherCurrent DEF manager_step, IndInv
  <2>3. ASSUME NEW t \in Thread,
               \/ \E k \in Key : get_block_cache_hit(t, k)
               \/ \E k \in Key : get_block_cache_miss(t, k)
               \/ \E k \in Key : get_block_cache_zeroed_miss(t, k)
               \/ block_cache_sync_all(t)
               \/ lock_block(t)
               \/ read(t)
               \/ \E v \in Value : modify(t, v)
               \/ guard_sync(t)
               \/ unlock_block(t)
               \/ \E k \in Key : drop_handle(t, k)
        PROVE  RecordsCurrent'
    BY <2>3, QueueCurrent, OtherCurrent
  <2>4. QED
    BY <2>1, <2>2, <2>3 DEF Next
<1>3. QED
  BY <1>1, <1>2, SpecIndInv, PTL DEF Spec

-------------------------------------------------------------------------------
(***************************************************************************)
(* Coherence and refinement, for READ_AHEAD_BLOCKS = 1 (every target but   *)
(* loongarch64).  With a longer range they are false: see the run          *)
(* cache_lost_write.                                                       *)
(***************************************************************************)

\* The actions of the abstract store that a step may map to.
StoreStep == Store!StoreNext \/ UNCHANGED Store!storeVars

\* A step that keeps the contents and what the threads see is a stutter.
LEMMA StoreStutter ==
  ASSUME content' = content, pc' = pc, cur' = cur, out' = out
  PROVE  StoreStep
BY DEF StoreStep, Store!storeVars

\* Eviction: a dirty block is written back, a clean one is on the device.
LEMMA EvictCoherent ==
  ASSUME CoherentInv, evict_one
  PROVE  NoLostWrite' /\ BufferFresh' /\ StoreStep
<1> USE DEF CoherentInv, IndInv
<1>1. PICK i \in victims :
        /\ disk' = IF queue[i].key \in modified
                   THEN [disk EXCEPT ![queue[i].key] = cache[queue[i].key]] ELSE disk
        /\ cache' = [cache EXCEPT ![queue[i].key] = Absent]
        /\ modified' = modified \ {queue[i].key}
  BY DEF evict_one, write_back
<1> DEFINE k == queue[i].key
<1>2. k \in cached /\ k \in Key /\ cache[k] \in Value
  BY DEF victims, TypeOK, cached
<1>3. NoLostWrite'
  BY <1>1, <1>2 DEF NoLostWrite, TypeOK, cached
<1>4. BufferFresh'
  <2>1. op = "load" => want \in Key /\ want # k
    <3>1. Unpinned(k)
      BY DEF victims
    <3>2. op = "load" => holder \in Thread /\ want \in Key /\ pos \in Nat
      BY ConstantsAssumption DEF ManagerInv, TypeOK
    <3>3. QED
      BY <1>2, <3>1, <3>2 DEF ManagerInv, Unpinned
  <2>2. QED
    BY <1>1, <1>2, <2>1 DEF BufferFresh, TypeOK, evict_one, write_back, mgrVars
<1>5. content' = content
  BY <1>1, <1>2, ConstantsAssumption DEF content, NoLostWrite, TypeOK
<1>6. QED
  BY <1>3, <1>4, <1>5, StoreStutter DEF evict_one, write_back, threadVars

\* A load inserts what the device holds, so the block does not change.
LEMMA LoadCoherent ==
  ASSUME ReadAhead = 1, CoherentInv, load_block_insert \/ load_block_present
  PROVE  NoLostWrite' /\ BufferFresh' /\ StoreStep
<1> USE DEF CoherentInv, IndInv
<1>1. /\ op = "load" /\ pos = 0 /\ want \in Key /\ want \notin cached /\ target = want
      /\ holder \in Thread /\ pc[holder] = "run" /\ cur[holder] = NoKey
  <2>1. op = "load"
    BY DEF load_block_insert, load_block_present
  <2>2. holder \in Thread /\ want \in Key /\ pos = 0
    BY <2>1, ConstantsAssumption DEF TypeOK, ManagerInv
  <2>3. target = want
    BY <2>2 DEF target, KeyAt, Key
  <2>4. QED
    BY <2>1, <2>2, <2>3 DEF ManagerInv
<1>2. load_block_insert
  BY <1>1 DEF load_block_present
<1>3. cache' = [cache EXCEPT ![want] = disk[want]] /\ disk' = disk /\ modified' = modified
  <2>1. buf[pos + 1] = disk[want]
    BY <1>1 DEF BufferFresh
  <2>2. QED
    BY <1>1, <1>2, <2>1 DEF load_block_insert
<1>4. /\ unlock_manager /\ out' = out
      /\ pc' = [pc EXCEPT ![holder] = "lock"]
      /\ cur' = [cur EXCEPT ![holder] = want]
  BY <1>1, <1>2 DEF load_block_insert, load_advance
<1>5. NoLostWrite'
  BY <1>1, <1>3 DEF NoLostWrite, TypeOK, cached
<1>6. BufferFresh'
  BY <1>4 DEF BufferFresh, unlock_manager
<1>7. content' = content
  BY <1>1, <1>3, ConstantsAssumption DEF content, TypeOK, cached
<1>8. Store!Ask(holder, want)
  BY <1>1, <1>4, <1>7 DEF Store!Ask, TypeOK
<1>9. QED
  BY <1>1, <1>5, <1>6, <1>8 DEF StoreStep, Store!StoreNext

\* A zeroed entry is the zero block for every later reader.
LEMMA ZeroedCoherent ==
  ASSUME CoherentInv, zeroed_insert
  PROVE  NoLostWrite' /\ BufferFresh' /\ StoreStep
<1> USE DEF CoherentInv, IndInv
<1>1. /\ want \in Key /\ target = want /\ holder \in Thread
      /\ pc[holder] = "run" /\ cur[holder] = NoKey
  BY ConstantsAssumption DEF zeroed_insert, new_zeroed, TypeOK, ManagerInv, target, KeyAt, Key
<1>2. NoLostWrite'
  BY <1>1 DEF zeroed_insert, new_zeroed, NoLostWrite, TypeOK, cached
<1>3. BufferFresh'
  BY DEF zeroed_insert, new_zeroed, BufferFresh, unlock_manager
<1>4. content' = [content EXCEPT ![want] = Zero]
  BY <1>1, ConstantsAssumption DEF zeroed_insert, new_zeroed, content, TypeOK
<1>5. Store!AskZeroed(holder, want)
  BY <1>1, <1>4 DEF zeroed_insert, new_zeroed, return_handle, Store!AskZeroed, TypeOK
<1>6. QED
  BY <1>1, <1>2, <1>3, <1>5 DEF StoreStep, Store!StoreNext

\* sync writes entries back and changes no content.
LEMMA SyncCoherent ==
  ASSUME CoherentInv, NEW k \in Key, sync(k)
  PROVE  NoLostWrite' /\ BufferFresh' /\ StoreStep
<1> USE DEF CoherentInv, IndInv
<1>1. k \in cached /\ cache[k] \in Value
  BY DEF sync, write_back, ManagerInv, TypeOK, cached
<1>2. NoLostWrite'
  BY <1>1 DEF sync, write_back, NoLostWrite, TypeOK, cached
<1>3. BufferFresh'
  BY DEF sync, write_back, BufferFresh
<1>4. content' = content
  BY <1>1 DEF sync, write_back, content, TypeOK, cached
<1>5. QED
  BY <1>2, <1>3, <1>4, StoreStutter DEF sync, write_back, threadVars

\* A caller that syncs the block it has locked changes no content either.
LEMMA GuardSyncCoherent ==
  ASSUME ReadAhead = 1, CoherentInv, NEW t \in Thread, guard_sync(t)
  PROVE  NoLostWrite' /\ BufferFresh' /\ StoreStep
<1> USE DEF CoherentInv, IndInv
<1>1. cur[t] \in cached /\ cur[t] \in Key /\ cache[cur[t]] \in Value
  BY DEF guard_sync, OneCopy, TypeOK, cached
<1>2. NoLostWrite'
  BY <1>1 DEF guard_sync, write_back, NoLostWrite, TypeOK, cached
<1>3. BufferFresh'
  <2>1. op = "load" => want \in Key /\ want # cur[t]
    BY <1>1, ConstantsAssumption DEF TypeOK, ManagerInv
  <2>2. QED
    BY <1>1, <2>1 DEF guard_sync, write_back, BufferFresh, TypeOK, mgrVars
<1>4. content' = content
  BY <1>1 DEF guard_sync, write_back, content, TypeOK, cached
<1>5. QED
  BY <1>2, <1>3, <1>4, StoreStutter DEF guard_sync, threadVars

\* A change under the block lock marks the entry dirty and is a write.
LEMMA ModifyCoherent ==
  ASSUME CoherentInv, NEW t \in Thread, NEW v \in Value, modify(t, v)
  PROVE  NoLostWrite' /\ BufferFresh' /\ StoreStep
<1> USE DEF CoherentInv, IndInv
<1>1. cur[t] \in cached /\ cur[t] \in Key
  BY DEF modify, OneCopy, TypeOK, cached
<1>2. NoLostWrite'
  BY <1>1 DEF modify, NoLostWrite, TypeOK, cached
<1>3. BufferFresh'
  BY DEF modify, BufferFresh, mgrVars
<1>4. content' = [content EXCEPT ![cur[t]] = v]
  BY <1>1, ConstantsAssumption DEF modify, content, TypeOK, cached
<1>5. Store!Write(t, v)
  BY <1>4 DEF modify, threadVars, Store!Write
<1>6. QED
  BY <1>2, <1>3, <1>5 DEF StoreStep, Store!StoreNext

\* The steps that touch no block, or only the caller's place.
LEMMA QuietCoherent ==
  ASSUME CoherentInv, cache' = cache, disk' = disk, modified' = modified
  PROVE  /\ NoLostWrite'
         /\ content' = content
         /\ (op' = "load" => op = "load" /\ want' = want /\ buf' = buf) => BufferFresh'
BY DEF CoherentInv, NoLostWrite, BufferFresh, cached, content

\* A hit asks for the block.
LEMMA HitCoherent ==
  ASSUME CoherentInv, NEW t \in Thread, NEW k \in Key, get_block_cache_hit(t, k)
  PROVE  NoLostWrite' /\ BufferFresh' /\ StoreStep
<1>1. NoLostWrite' /\ content' = content /\ BufferFresh'
  BY QuietCoherent DEF get_block_cache_hit, mgrVars
<1>2. Store!Ask(t, k)
  BY <1>1 DEF CoherentInv, IndInv, TypeOK, ManagerInv, get_block_cache_hit, MayGet, MayCall,
              return_handle, Store!Ask
<1>3. QED
  BY <1>1, <1>2 DEF StoreStep, Store!StoreNext

\* A miss reads the block from the device under the manager lock.
LEMMA MissCoherent ==
  ASSUME CoherentInv, NEW t \in Thread, NEW k \in Key,
         get_block_cache_miss(t, k) \/ get_block_cache_zeroed_miss(t, k)
  PROVE  NoLostWrite' /\ BufferFresh' /\ StoreStep
<1>1. NoLostWrite' /\ content' = content
  BY QuietCoherent DEF get_block_cache_miss, get_block_cache_zeroed_miss
<1>2. StoreStep
  BY <1>1, StoreStutter DEF get_block_cache_miss, get_block_cache_zeroed_miss, threadVars
<1>3. KeyAt(k, 1 - 1) = k
  BY DEF KeyAt, Key
<1>4. BufferFresh'
  BY <1>3, ConstantsAssumption
  DEF BufferFresh, get_block_cache_miss, get_block_cache_zeroed_miss
<1>5. QED
  BY <1>1, <1>2, <1>4

\* Lock, read and unlock are the store's Enter, Read and Leave.
LEMMA CallerCoherent ==
  ASSUME CoherentInv, NEW t \in Thread,
         \/ lock_block(t)
         \/ read(t)
         \/ unlock_block(t)
         \/ \E k \in Key : drop_handle(t, k)
  PROVE  NoLostWrite' /\ BufferFresh' /\ StoreStep
<1> USE DEF CoherentInv, IndInv
<1>1. NoLostWrite' /\ content' = content /\ BufferFresh'
  BY QuietCoherent DEF lock_block, read, unlock_block, drop_handle, mgrVars
<1>2. CASE lock_block(t)
  <2>1. Store!Enter(t)
    BY <1>1, <1>2 DEF TypeOK, ManagerInv, lock_block, Store!Enter
  <2>2. QED
    BY <1>1, <2>1 DEF StoreStep, Store!StoreNext
<1>3. CASE read(t)
  <2>1. cur[t] \in Key /\ content[cur[t]] = cache[cur[t]]
    BY <1>3 DEF read, OneCopy, TypeOK, cached, content
  <2>2. Store!Read(t)
    BY <1>1, <1>3, <2>1 DEF read, Store!Read
  <2>3. QED
    BY <1>1, <2>2 DEF StoreStep, Store!StoreNext
<1>4. CASE unlock_block(t)
  <2>1. Store!Leave(t)
    BY <1>1, <1>4 DEF TypeOK, unlock_block, Store!Leave
  <2>2. QED
    BY <1>1, <2>1 DEF StoreStep, Store!StoreNext
<1>5. CASE \E k \in Key : drop_handle(t, k)
  BY <1>1, <1>5, StoreStutter DEF drop_handle
<1>6. QED
  BY <1>2, <1>3, <1>4, <1>5

\* Every step keeps the cache coherent and is a step of the store.
LEMMA NextCoherent ==
  ASSUME ReadAhead = 1
  PROVE  CoherentInv /\ [Next]_vars => CoherentInv' /\ StoreStep
<1> SUFFICES ASSUME CoherentInv, [Next]_vars
             PROVE  NoLostWrite' /\ BufferFresh' /\ StoreStep
  BY NextIndInv DEF CoherentInv
<1>1. CASE UNCHANGED vars \/ evict_one_panic \/ sync_all_done
           \/ \E t \in Thread : block_cache_sync_all(t)
  <2>1. NoLostWrite' /\ content' = content /\ BufferFresh'
    BY <1>1, QuietCoherent
    DEF vars, evict_one_panic, sync_all_done, block_cache_sync_all, mgrVars, unlock_manager
  <2>2. QED
    BY <1>1, <2>1, StoreStutter
    DEF vars, evict_one_panic, sync_all_done, block_cache_sync_all, threadVars
<1>2. CASE manager_step
  BY <1>1, <1>2, EvictCoherent, LoadCoherent, ZeroedCoherent, SyncCoherent
  DEF manager_step
<1>3. ASSUME NEW t \in Thread,
             \/ \E k \in Key : get_block_cache_hit(t, k)
             \/ \E k \in Key : get_block_cache_miss(t, k)
             \/ \E k \in Key : get_block_cache_zeroed_miss(t, k)
             \/ block_cache_sync_all(t)
             \/ lock_block(t)
             \/ read(t)
             \/ \E v \in Value : modify(t, v)
             \/ guard_sync(t)
             \/ unlock_block(t)
             \/ \E k \in Key : drop_handle(t, k)
      PROVE  NoLostWrite' /\ BufferFresh' /\ StoreStep
  BY <1>1, <1>3, HitCoherent, MissCoherent, CallerCoherent, ModifyCoherent, GuardSyncCoherent
<1>4. QED
  BY <1>1, <1>2, <1>3 DEF Next, halted

\* The cache starts empty: the contents are the device's.
LEMMA InitCoherent == Init => CoherentInv /\ Store!StoreInit
<1> SUFFICES ASSUME Init PROVE CoherentInv /\ Store!StoreInit
  OBVIOUS
<1>1. CoherentInv
  BY InitIndInv DEF Init, CoherentInv, NoLostWrite, BufferFresh, cached
<1>2. content = disk
  BY DEF Init, content
<1>3. Store!StoreInit
  BY <1>2 DEF Init, Store!StoreInit
<1>4. QED
  BY <1>1, <1>3

\* Without read-ahead no write is ever lost, whatever is evicted or synced.
THEOREM SpecNoLostWrite ==
  ASSUME ReadAhead = 1
  PROVE  Spec => []NoLostWrite
<1>1. Init => CoherentInv
  BY InitCoherent
<1>2. CoherentInv /\ [Next]_vars => CoherentInv'
  BY NextCoherent
<1>3. CoherentInv => NoLostWrite
  BY DEF CoherentInv
<1>4. QED
  BY <1>1, <1>2, <1>3, PTL DEF Spec

\* Without read-ahead the cache over a device is a store of atomic blocks.
THEOREM CacheImplementsStore ==
  ASSUME ReadAhead = 1
  PROVE  Spec => ImplementsStore
<1>1. Init => CoherentInv /\ Store!StoreInit
  BY InitCoherent
<1>2. CoherentInv /\ [Next]_vars => CoherentInv' /\ [Store!StoreNext]_(Store!storeVars)
  BY NextCoherent DEF StoreStep
<1>3. QED
  BY <1>1, <1>2, PTL DEF Spec, ImplementsStore, Store!StoreSpec

-------------------------------------------------------------------------------
(***************************************************************************)
(* block_cache_sync_all.                                                   *)
(***************************************************************************)

\* While sync_all runs, an entry it is past is clean, or was changed since the
\* call began.
Synced ==
  op = "sync" => \A k \in cached : k \in todo \/ k \notin modified \/ k \in touched

\* The steps that can run beside a sync_all, and its own.
LEMMA NextSynced == IndInv /\ Synced /\ [Next]_vars => Synced'
<1> SUFFICES ASSUME IndInv, Synced, [Next]_vars, op' = "sync"
             PROVE  \A k \in cached' : k \in todo' \/ k \notin modified' \/ k \in touched'
  BY DEF Synced
<1> USE DEF IndInv
<1>1. ASSUME NEW t \in Thread, block_cache_sync_all(t)
      PROVE  \A k \in cached' : k \in todo'
  BY <1>1 DEF block_cache_sync_all, cached
<1>2. ASSUME NEW k \in Key, sync(k)
      PROVE  \A j \in cached' : j \in todo' \/ j \notin modified' \/ j \in touched'
  BY <1>2 DEF sync, cached, Synced
<1>3. ASSUME NEW t \in Thread, NEW v \in Value, modify(t, v)
      PROVE  \A k \in cached' : k \in todo' \/ k \notin modified' \/ k \in touched'
  <2>1. cur[t] \in cached /\ cur[t] \in Key
    BY <1>3 DEF modify, OneCopy, TypeOK, cached
  <2>2. cached' = cached
    BY <1>3, <2>1, ConstantsAssumption DEF cached, modify, TypeOK
  <2>3. op = "sync" /\ todo' = todo
    BY <1>3 DEF modify, mgrVars
  <2>4. QED
    BY <1>3, <2>2, <2>3 DEF modify, Synced
<1>4. CASE UNCHANGED <<op, todo, cache, modified, touched>>
  BY <1>4 DEF Synced, cached
<1>5. ASSUME \/ evict_one
             \/ evict_one_panic
             \/ load_block_present
             \/ load_block_insert
             \/ zeroed_insert
             \/ sync_all_done
      PROVE  FALSE
  BY <1>5 DEF evict_one, evict_one_panic, load_block_present, load_block_insert, load_advance,
              zeroed_insert, sync_all_done, unlock_manager, mgrVars
<1>6. ASSUME NEW t \in Thread, NEW k \in Key,
             get_block_cache_miss(t, k) \/ get_block_cache_zeroed_miss(t, k)
      PROVE  FALSE
  BY <1>6 DEF get_block_cache_miss, get_block_cache_zeroed_miss
<1>7. ASSUME NEW t \in Thread,
             \/ \E k \in Key : get_block_cache_hit(t, k)
             \/ lock_block(t)
             \/ read(t)
             \/ unlock_block(t)
             \/ \E k \in Key : drop_handle(t, k)
      PROVE  UNCHANGED <<op, todo, cache, modified, touched>>
  BY <1>7 DEF get_block_cache_hit, lock_block, read, unlock_block, drop_handle, mgrVars
<1>8. ASSUME NEW t \in Thread, guard_sync(t)
      PROVE  \A k \in cached' : k \in todo' \/ k \notin modified' \/ k \in touched'
  BY <1>8 DEF guard_sync, mgrVars, cached, Synced
<1>9. QED
  BY <1>1, <1>2, <1>3, <1>4, <1>5, <1>6, <1>7, <1>8
  DEF Next, manager_step, halted, vars, mgrVars

\* Without read-ahead, when sync_all returns the device holds every block that
\* nobody changed during the call, for any number of threads that go on writing.
THEOREM SpecSyncDurable ==
  ASSUME ReadAhead = 1
  PROVE  Spec => SyncDurable
<1>1. Init => CoherentInv /\ Synced
  BY InitCoherent DEF Init, Synced
<1>2. CoherentInv /\ [Next]_vars => CoherentInv'
  BY NextCoherent
<1>3. CoherentInv /\ Synced /\ [Next]_vars => Synced'
  BY NextSynced DEF CoherentInv
<1>4. CoherentInv /\ Synced /\ [Next]_vars
        => [sync_all_done => \A k \in cached : disk[k] = cache[k] \/ k \in touched]_vars
  BY DEF CoherentInv, NoLostWrite, Synced, sync_all_done, cached
<1>5. QED
  BY <1>1, <1>2, <1>3, <1>4, PTL DEF Spec, SyncDurable
===============================================================================
