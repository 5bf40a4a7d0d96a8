------------------------------- MODULE Lsmt -------------------------------
(***************************************************************************)
(* The LSM-tree storage engine (deps/lsmt): one writer (the event loop,    *)
(* which calls lsmt_insert, lsmt_flush and lsmt_free), the flush daemon,   *)
(* the compaction daemon, and reader threads that hold iterators.          *)
(*                                                                         *)
(* A critical section of the code is one action.  flush_cond and           *)
(* compaction_cond are waited on with their predicate under their own      *)
(* mutex, so a wait is a guard; thread_pool_cond is not, so the writer's   *)
(* sleep and the broadcasts that end it are modelled.                      *)
(*                                                                         *)
(* Sizes are counted in records.  A memtable and an SSTable are named by   *)
(* their creation number, which is also their order in immutables[] and in *)
(* a tier's queue: both are only appended to and taken from the front.     *)
(***************************************************************************)
EXTENDS Integers, Sequences, FiniteSets, FiniteSetsExt

CONSTANTS
  Keys,           \* the keys callers insert
  ReservedKey,    \* the sentinel key (RESERVED_KEY), which sl_insert refuses
  Readers,        \* the threads that run queries
  SizeThreshold,  \* SIZE_THRESHOLD
  MaxImmutables,  \* MAX_IMMUTABLES
  MergeLimit,     \* SSTABLE_MERGE_LIMIT
  ZeroLevelMax,   \* ZERO_LEVEL_MAX_SIZE
  TierGrowth,     \* how much larger each tier may be (10 in the code)
  MergeChunk,     \* records a merge writes between two waits (4096)
  MaxInserts,     \* bound: records accepted in a behaviour
  MaxFlushes      \* bound: calls of lsmt_flush in a behaviour

ASSUME ConstantsAssumption ==
  /\ SizeThreshold \in Nat
  /\ MaxImmutables \in Nat \ {0}
  /\ MergeLimit \in Nat \ {0, 1}
  /\ ZeroLevelMax \in Nat
  /\ TierGrowth \in Nat
  /\ MergeChunk \in Nat \ {0}
  /\ MaxInserts \in Nat
  /\ MaxFlushes \in Nat

\* A memtable fits the first tier, and what a merge writes the next one.
ASSUME TierConstants == SizeThreshold < ZeroLevelMax /\ MergeLimit <= TierGrowth

VARIABLES
  mem,            \* every memtable ever created: its records and refcount
  immutables,     \* the immutable memtables registered in lsmt->immutables
  active,         \* active_background_threads
  flush_needed,
  stop_flush,
  flush_active,
  compaction_needed,
  stop_compaction,
  sst,            \* every SSTable ever created: records, level, refcount, old
  list,           \* the tables in the metadata list and its tier queues
  highest_tier,
  files,          \* the tables whose files exist
  metadata_generation,
  disk_generation,
  disk,           \* the tables the metadata file on disk names
  writer,         \* the thread that inserts, flushes and frees
  flusher,        \* the flush daemon and its local variables
  compactor,      \* the compaction daemon and its local variables
  iter,           \* each reader's iterator
  accepted,       \* history: the records lsmt_insert returned 0 for
  inserted,       \* history: how many those are
  flushes         \* history: how often lsmt_flush was called

memVars   == <<mem, immutables>>
poolVars  == <<active, flush_active>>
flagVars  == <<flush_needed, stop_flush, compaction_needed, stop_compaction>>
tableVars == <<sst, list, highest_tier, files>>
metaVars  == <<metadata_generation, disk_generation, disk>>
storage   == <<tableVars, metaVars>>
history   == <<accepted, inserted, flushes>>
\* What a step of one thread leaves alone of the others.
daemonsAndReaders == <<flusher, compactor, iter>>
notFlusher   == <<compactor, iter, history>>
notCompactor == <<writer, flusher, iter, history>>
notReader    == <<writer, flusher, compactor, history>>
vars == <<mem, immutables, active, flush_needed, stop_flush, flush_active,
          compaction_needed, stop_compaction, sst, list, highest_tier, files,
          metadata_generation, disk_generation, disk, writer, flusher,
          compactor, iter, accepted, inserted, flushes>>

---------------------------------------------------------------------------
(* Records, memtables and tables.                                          *)

Record == (Keys \cup {ReservedKey}) \X Nat

Memtable == [recs : SUBSET Record, ref : Int]

SSTable == [recs : SUBSET Record, level : Nat, ref : Int, old : BOOLEAN]

WriterPC == {"idle", "full", "full_wait", "retry", "signal", "flush_pool",
             "flush_signal", "flush_check", "flush_wait", "overflow",
             "join_flush", "join_compact", "freed"}

FlusherPC == {"idle", "scan", "write", "add", "persist", "unregister",
              "release", "notify_compact", "notify_pool", "exited"}

CompactorPC == {"idle", "start", "tier", "merge", "wait_active", "wait_count",
                "add", "copy", "persist", "delete", "abort", "exited"}

NewMemtable == [recs |-> {}, ref |-> 1]

Idle == [pc |-> "idle", key |-> ReservedKey]

\* The records of a set of tables.
RecordsOf(T) == UNION {sst[t].recs : t \in T}

\* lsmt->memtable is the last memtable created.
Current == Len(mem)

Size(m) == Cardinality(mem[m].recs)

TierTables(tier) == {t \in list : sst[t].level = tier}

\* The sum of the sizes of the tables in T.
SumSizes(T) == Cardinality(UNION {{t} \X sst[t].recs : t \in T})

Threshold[tier \in Nat] ==
  IF tier = 0 THEN ZeroLevelMax ELSE TierGrowth * Threshold[tier - 1]

\* Mutant: the last reference is not recognised.
RemovedAtZero(s, T) == {t \in T : s[t].ref = 0 /\ s[t].old}

\* Mutant: a table marked old is removed by the first release.
RemovedAtOnce(s, T) == {t \in T : s[t].old}

\* sst_metadata_record_retain and _release, on a set of tables.  The release
\* that drops the last reference to a table marked old removes its files.
Retain(s, T) ==
  [t \in DOMAIN s |-> IF t \in T THEN [s[t] EXCEPT !.ref = @ + 1] ELSE s[t]]

Release(s, T) ==
  [t \in DOMAIN s |-> IF t \in T THEN [s[t] EXCEPT !.ref = @ - 1] ELSE s[t]]

Removed(s, T) == {t \in T : s[t].ref = 1 /\ s[t].old}

\* Mutant: the broadcast is forgotten.
NotWoken(w) == w

\* pthread_cond_broadcast on thread_pool_cond, whose only waiter is the writer.
Woken(w) ==
  CASE w.pc = "full_wait"  -> [w EXCEPT !.pc = "retry"]
    [] w.pc = "flush_wait" -> [w EXCEPT !.pc = "flush_check"]
    [] OTHER               -> w

NoJob == [pc |-> "idle", mem |-> 0, tab |-> 0, gen |-> 0, copy |-> {}]

NoCompaction == [pc |-> "idle", tier |-> 0, top |-> 0, inputs |-> {}, tab |-> 0,
                 left |-> 0, garbage |-> {}, gen |-> 0, copy |-> {}]

NoIterator == [open |-> FALSE, mem |-> 0, tabs |-> {}]

Init ==
  /\ mem = <<NewMemtable>>
  /\ immutables = {}
  /\ active = 0
  /\ flush_needed = FALSE /\ stop_flush = FALSE /\ flush_active = FALSE
  /\ compaction_needed = FALSE /\ stop_compaction = FALSE
  /\ sst = <<>> /\ list = {} /\ highest_tier = 0 /\ files = {}
  /\ metadata_generation = 0 /\ disk_generation = 0 /\ disk = {}
  /\ writer = Idle
  /\ flusher = NoJob
  /\ compactor = NoCompaction
  /\ iter = [r \in Readers |-> NoIterator]
  /\ accepted = {} /\ inserted = 0 /\ flushes = 0

---------------------------------------------------------------------------
(* The writer.                                                             *)

\* lsmt_insert is called with key k, or has come back from its wait for room.
Inserting(k) ==
  \/ writer.pc = "idle" /\ inserted < MaxInserts
  \/ writer.pc = "retry" /\ writer.key = k

MemtableFull == Size(Current) > SizeThreshold

\* sl_insert takes neither the reserved key nor a key the memtable holds.
Refused(k, recs) == k = ReservedKey \/ \E r \in recs : r[1] = k

Accept(k, refused) ==
  /\ accepted' = IF refused THEN accepted ELSE accepted \cup {<<k, inserted + 1>>}
  /\ inserted' = IF refused THEN inserted ELSE inserted + 1
  /\ UNCHANGED flushes

\* The memtable is full and so is immutables[]: the lock is dropped.
InsertBlocked(k) ==
  /\ Inserting(k)
  /\ MemtableFull /\ Cardinality(immutables) >= MaxImmutables
  /\ writer' = [pc |-> "full", key |-> k]
  /\ UNCHANGED <<memVars, poolVars, flagVars, storage, daemonsAndReaders, history>>

\* Under thread_pool_mutex the count is read again, then waited on.
InsertWait ==
  /\ writer.pc = "full"
  /\ writer' = [writer EXCEPT !.pc =
                  IF Cardinality(immutables) >= MaxImmutables THEN "full_wait"
                                                              ELSE "retry"]
  /\ UNCHANGED <<memVars, poolVars, flagVars, storage, daemonsAndReaders, history>>

\* The memtable has room.
InsertPlace(k) ==
  /\ Inserting(k)
  /\ ~MemtableFull
  /\ LET refused == Refused(k, mem[Current].recs) IN
       /\ mem' = IF refused THEN mem
                 ELSE [mem EXCEPT ![Current].recs = @ \cup {<<k, inserted + 1>>}]
       /\ Accept(k, refused)
  /\ writer' = Idle
  /\ UNCHANGED <<immutables, poolVars, flagVars, storage, daemonsAndReaders>>

\* The memtable is full: it becomes immutable and a new one takes the record.
\* The flush daemon is signalled only when it was not already running.
InsertRotate(k) ==
  /\ Inserting(k)
  /\ MemtableFull /\ Cardinality(immutables) < MaxImmutables
  /\ immutables' = immutables \cup {Current}
  /\ LET refused == Refused(k, {}) IN
       /\ mem' = Append(mem, IF refused THEN NewMemtable
                             ELSE [NewMemtable EXCEPT !.recs = {<<k, inserted + 1>>}])
       /\ Accept(k, refused)
  /\ active' = 1
  /\ writer' = IF active = 0 THEN [Idle EXCEPT !.pc = "signal"] ELSE Idle
  /\ UNCHANGED <<flush_active, flagVars, storage, daemonsAndReaders>>

InsertSignal ==
  /\ writer.pc = "signal"
  /\ flush_needed' = TRUE
  /\ writer' = Idle
  /\ UNCHANGED <<memVars, poolVars, stop_flush, compaction_needed,
                 stop_compaction, storage, daemonsAndReaders, history>>

\* lsmt_flush registers the memtable, whatever it holds.  It does not look
\* whether immutables[] has room: the write past its end is undefined
\* behaviour, and the model stops there (see Next).
FlushRegister ==
  /\ writer.pc = "idle" /\ flushes < MaxFlushes
  /\ IF Cardinality(immutables) < MaxImmutables
     THEN /\ immutables' = immutables \cup {Current}
          /\ mem' = Append(mem, NewMemtable)
          /\ writer' = [Idle EXCEPT !.pc = "flush_pool"]
     ELSE /\ writer' = [Idle EXCEPT !.pc = "overflow"]
          /\ UNCHANGED memVars
  /\ flushes' = flushes + 1
  /\ UNCHANGED <<poolVars, flagVars, storage, accepted, inserted,
                 daemonsAndReaders>>

\* Mutant: the count of background threads is incremented without a look at it.
FlushPoolCounts ==
  /\ writer.pc = "flush_pool"
  /\ active' = active + 1
  /\ writer' = [Idle EXCEPT !.pc = "flush_signal"]
  /\ UNCHANGED <<memVars, flush_active, flagVars, storage, daemonsAndReaders, history>>

\* Mutant: lsmt_flush leaves it to lsmt_insert to mark the pool active.
FlushPoolSkips ==
  /\ writer.pc = "flush_pool"
  /\ writer' = [Idle EXCEPT !.pc = "flush_signal"]
  /\ UNCHANGED <<memVars, poolVars, flagVars, storage, daemonsAndReaders, history>>

FlushPool ==
  /\ writer.pc = "flush_pool"
  /\ active' = 1
  /\ writer' = [Idle EXCEPT !.pc = "flush_signal"]
  /\ UNCHANGED <<memVars, flush_active, flagVars, storage, daemonsAndReaders, history>>

FlushSignal ==
  /\ writer.pc = "flush_signal"
  /\ flush_needed' = TRUE
  /\ writer' = [Idle EXCEPT !.pc = "flush_check"]
  /\ UNCHANGED <<memVars, poolVars, stop_flush, compaction_needed,
                 stop_compaction, storage, daemonsAndReaders, history>>

\* Wait for all background threads to finish.
FlushCheck ==
  /\ writer.pc = "flush_check"
  /\ writer' = IF active > 0 THEN [Idle EXCEPT !.pc = "flush_wait"] ELSE Idle
  /\ UNCHANGED <<memVars, poolVars, flagVars, storage, daemonsAndReaders, history>>

\* POSIX lets a condition wait end for no reason; both callers check again.
SpuriousWakeup ==
  /\ writer.pc \in {"full_wait", "flush_wait"}
  /\ writer' = Woken(writer)
  /\ UNCHANGED <<memVars, poolVars, flagVars, storage, daemonsAndReaders, history>>

\* lsmt_free.  Its callers, a test and the demonstration program, have closed their
\* iterators and left no immutable memtable behind (they call lsmt_flush first, or
\* never filled a memtable); the server never calls it.
Free ==
  /\ writer.pc = "idle"
  /\ immutables = {}
  /\ \A r \in Readers : ~iter[r].open
  /\ stop_flush' = TRUE
  /\ writer' = [Idle EXCEPT !.pc = "join_flush"]
  /\ UNCHANGED <<memVars, poolVars, flush_needed, compaction_needed,
                 stop_compaction, storage, daemonsAndReaders, history>>

\* The flush daemon is joined, then the compaction daemon is told to stop.
FreeJoinFlush ==
  /\ writer.pc = "join_flush"
  /\ flusher.pc = "exited"
  /\ stop_compaction' = TRUE
  /\ writer' = [Idle EXCEPT !.pc = "join_compact"]
  /\ UNCHANGED <<memVars, poolVars, flush_needed, stop_flush,
                 compaction_needed, storage, daemonsAndReaders, history>>

\* The compaction daemon is joined and the metadata list is released, which
\* frees the tables' records and keeps their files.
FreeJoinCompact ==
  /\ writer.pc = "join_compact"
  /\ compactor.pc = "exited"
  /\ sst' = Release(sst, list)
  /\ files' = files \ Removed(sst, list)
  /\ writer' = [Idle EXCEPT !.pc = "freed"]
  /\ UNCHANGED <<memVars, poolVars, flagVars, list, highest_tier, metaVars,
                 daemonsAndReaders, history>>

---------------------------------------------------------------------------
(* The flush daemon.                                                       *)

FlushDaemonWake ==
  /\ flusher.pc = "idle"
  /\ flush_needed \/ stop_flush
  /\ flusher' = [flusher EXCEPT !.pc = IF stop_flush THEN "exited" ELSE "scan"]
  /\ flush_needed' = IF stop_flush THEN flush_needed ELSE FALSE
  /\ UNCHANGED <<memVars, poolVars, stop_flush, compaction_needed,
                 stop_compaction, storage, writer, notFlusher>>

\* Take the oldest immutable memtable.
FlushScan ==
  /\ flusher.pc = "scan"
  /\ immutables # {}
  /\ flusher' = [flusher EXCEPT !.pc = "write", !.mem = Min(immutables)]
  /\ UNCHANGED <<memVars, poolVars, flagVars, storage, writer, notFlusher>>

\* Mutant: the pool is not marked idle.
FlushIdleStaysActive ==
  /\ flusher.pc = "scan"
  /\ immutables = {}
  /\ writer' = Woken(writer)
  /\ flusher' = NoJob
  /\ UNCHANGED <<memVars, poolVars, flagVars, storage, notFlusher>>

\* None is left.  memtable_rwlock is held while the pool is marked idle, so no
\* memtable can be registered between the look and the mark.
FlushIdle ==
  /\ flusher.pc = "scan"
  /\ immutables = {}
  /\ active' = 0
  /\ writer' = Woken(writer)
  /\ flusher' = NoJob
  /\ UNCHANGED <<memVars, flush_active, flagVars, storage, notFlusher>>

\* memtable_to_disk writes and syncs the table's files.  An empty memtable
\* gives no table (tab = 0).
FlushWrite ==
  /\ flusher.pc = "write"
  /\ flush_active' = TRUE
  /\ LET recs == mem[flusher.mem].recs IN
     IF recs = {}
     THEN /\ flusher' = [flusher EXCEPT !.pc = "unregister"]
          /\ UNCHANGED <<sst, files>>
     ELSE /\ sst' = Append(sst, [recs |-> recs, level |-> 0, ref |-> 1, old |-> FALSE])
          /\ files' = files \cup {Len(sst) + 1}
          /\ flusher' = [flusher EXCEPT !.pc = "add", !.tab = Len(sst) + 1]
  /\ UNCHANGED <<memVars, active, flagVars, list, highest_tier, metaVars,
                 writer, notFlusher>>

\* sst_metadata_add: highest_tier counts the tiers that were ever used.
AddTable(t, level) ==
  /\ list' = list \cup {t}
  /\ highest_tier' = IF level < highest_tier THEN highest_tier ELSE highest_tier + 1

\* Under metadata_lock: list the table, number this version of the metadata
\* and copy it.
FlushAdd ==
  /\ flusher.pc = "add"
  /\ AddTable(flusher.tab, 0)
  /\ metadata_generation' = metadata_generation + 1
  /\ flusher' = [flusher EXCEPT !.pc = "persist", !.gen = metadata_generation + 1,
                                !.copy = list']
  /\ UNCHANGED <<memVars, poolVars, flagVars, sst, files, disk_generation,
                 disk, writer, notFlusher>>

\* Mutant: the generation is not compared.
WriteMetadataAlways(gen, copy) == disk_generation' = gen /\ disk' = copy

\* Under metadata_write_lock: replace the metadata file, unless a later
\* version is already there.
WriteMetadata(gen, copy) ==
  /\ disk_generation' = IF gen > disk_generation THEN gen ELSE disk_generation
  /\ disk' = IF gen > disk_generation THEN copy ELSE disk

FlushPersist ==
  /\ flusher.pc = "persist"
  /\ WriteMetadata(flusher.gen, flusher.copy)
  /\ flusher' = [flusher EXCEPT !.pc = "unregister", !.gen = 0, !.copy = {}]
  /\ UNCHANGED <<memVars, poolVars, flagVars, tableVars, metadata_generation,
                 writer, notFlusher>>

\* Mutant: the count is decremented but the array is not shifted.
DropLast(m) == immutables \ {Max(immutables)}

\* Mutant: the memtable stays registered.
DropNothing(m) == immutables

\* The array of immutable memtables without m.
Shifted(m) == immutables \ {m}

\* unregister_immutable_memtable, under memtable_rwlock ...
FlushUnregister ==
  /\ flusher.pc = "unregister"
  /\ immutables' = Shifted(flusher.mem)
  /\ flusher' = [flusher EXCEPT !.pc = "release"]
  /\ UNCHANGED <<mem, poolVars, flagVars, storage, writer, notFlusher>>

\* ... and after it: the memtable's reference is dropped and compaction may go on.
FlushRelease ==
  /\ flusher.pc = "release"
  /\ mem' = [mem EXCEPT ![flusher.mem].ref = @ - 1]
  /\ flush_active' = FALSE
  /\ flusher' = [NoJob EXCEPT !.pc = IF flusher.tab = 0 THEN "notify_pool"
                                                        ELSE "notify_compact"]
  /\ UNCHANGED <<immutables, active, flagVars, storage, writer, notFlusher>>

FlushNotifyCompaction ==
  /\ flusher.pc = "notify_compact"
  /\ compaction_needed' = TRUE
  /\ flusher' = [flusher EXCEPT !.pc = "notify_pool"]
  /\ UNCHANGED <<memVars, poolVars, flush_needed, stop_flush, stop_compaction,
                 storage, writer, notFlusher>>

FlushNotifyPool ==
  /\ flusher.pc = "notify_pool"
  /\ writer' = Woken(writer)
  /\ flusher' = [flusher EXCEPT !.pc = "scan"]
  /\ UNCHANGED <<memVars, poolVars, flagVars, storage, notFlusher>>

---------------------------------------------------------------------------
(* The compaction daemon.                                                  *)

CompactionDaemonWake ==
  /\ compactor.pc = "idle"
  /\ compaction_needed \/ stop_compaction
  /\ compactor' = [compactor EXCEPT !.pc = IF stop_compaction THEN "exited" ELSE "start"]
  /\ compaction_needed' = IF stop_compaction THEN compaction_needed ELSE FALSE
  /\ UNCHANGED <<memVars, poolVars, flush_needed, stop_flush, stop_compaction,
                 storage, notCompactor>>

\* sst_compact reads highest_tier once.
CompactStart ==
  /\ compactor.pc = "start"
  /\ compactor' = [compactor EXCEPT !.pc = "tier", !.top = highest_tier]
  /\ UNCHANGED <<memVars, poolVars, flagVars, storage, notCompactor>>

\* Mutant: merged tables are deleted without writing the metadata first.
NextTierNoFlush(c) ==
  IF c.tier < c.top THEN [c EXCEPT !.pc = "tier", !.tier = @ + 1]
  ELSE IF c.garbage # {} THEN [c EXCEPT !.pc = "delete"] ELSE NoCompaction

\* The end of an iteration of the loop over the tiers, and of the loop: the
\* metadata is written only if some tier was merged.
NextTier(c) ==
  IF c.tier < c.top THEN [c EXCEPT !.pc = "tier", !.tier = @ + 1]
  ELSE IF c.garbage # {} THEN [c EXCEPT !.pc = "copy"] ELSE NoCompaction

\* The n oldest tables of T.
Oldest(T, n) == {t \in T : Cardinality({u \in T : u < t}) < n}

\* Mutant: one table may be enough, as soon as it makes up for the excess.
PopCountOne(T, delta) ==
  Min({n \in 0..Cardinality(T) :
         \/ n = MergeLimit
         \/ n = Cardinality(T)
         \/ n >= 1 /\ SumSizes(Oldest(T, n)) >= delta})

\* How many tables are popped from a tier that is delta records too large:
\* up to MergeLimit, stopping once there are two and they hold more than delta.
PopCount(T, delta) ==
  Min({n \in 0..Cardinality(T) :
         \/ n = MergeLimit
         \/ n = Cardinality(T)
         \/ n >= 2 /\ SumSizes(Oldest(T, n)) > delta})

TierFits ==
  /\ compactor.pc = "tier"
  /\ SumSizes(TierTables(compactor.tier)) <= Threshold[compactor.tier]
  /\ compactor' = NextTier(compactor)
  /\ UNCHANGED <<memVars, poolVars, flagVars, storage, notCompactor>>

\* The tier is too large: its oldest tables leave the list, under metadata_lock.
\* A tier that exceeds its limit with a single table ends the process.
TierPop ==
  /\ compactor.pc = "tier"
  /\ LET T     == TierTables(compactor.tier)
         delta == SumSizes(T) - Threshold[compactor.tier]
         n     == PopCount(T, delta)
     IN  /\ delta > 0
         /\ list' = list \ Oldest(T, n)
         /\ compactor' = [compactor EXCEPT !.pc = IF n < 2 THEN "abort" ELSE "merge",
                                           !.inputs = Oldest(T, n)]
  /\ UNCHANGED <<memVars, poolVars, flagVars, sst, highest_tier, files,
                 metaVars, notCompactor>>

\* sst_merge opens iterators on its inputs, which retains them, and creates
\* its output file.  It waits for the flush daemon once, and again each time
\* another MergeChunk records have been read.
MergeOpen ==
  /\ compactor.pc = "merge"
  /\ sst' = Append(Retain(sst, compactor.inputs),
                   [recs |-> {}, level |-> compactor.tier + 1, ref |-> 1, old |-> FALSE])
  /\ files' = files \cup {Len(sst) + 1}
  /\ compactor' = [compactor EXCEPT
                     !.pc = "wait_active", !.tab = Len(sst) + 1,
                     !.left = 1 + (Cardinality(RecordsOf(compactor.inputs)) \div MergeChunk)]
  /\ UNCHANGED <<memVars, poolVars, flagVars, list, highest_tier, metaVars,
                 notCompactor>>

\* The wait reads flush_active and then immutable_count, under no lock, and
\* starts over if either shows that a flush is under way.
MergePollActive ==
  /\ compactor.pc = "wait_active"
  /\ ~flush_active
  /\ compactor' = [compactor EXCEPT !.pc = "wait_count"]
  /\ UNCHANGED <<memVars, poolVars, flagVars, storage, notCompactor>>

MergePollCount ==
  /\ compactor.pc = "wait_count"
  /\ immutables # {}
  /\ compactor' = [compactor EXCEPT !.pc = "wait_active"]
  /\ UNCHANGED <<memVars, poolVars, flagVars, storage, notCompactor>>

\* A wait ends and the records up to the next one are written.
MergeWrite ==
  /\ compactor.pc = "wait_count"
  /\ immutables = {}
  /\ compactor.left > 1
  /\ compactor' = [compactor EXCEPT !.pc = "wait_active", !.left = @ - 1]
  /\ UNCHANGED <<memVars, poolVars, flagVars, storage, notCompactor>>

\* Mutant: a merge keeps the latest record of each key only.
MergedLatest(T) ==
  {r \in RecordsOf(T) : \A q \in RecordsOf(T) : q[1] = r[1] => q[2] <= r[2]}

\* What a merge writes: every record, those with equal keys too.
Merged(T) == RecordsOf(T)

\* The last wait ends, the rest is written and synced and the iterators are
\* closed.  The inputs are taken to be readable: one that cannot be opened or read
\* (sst_iterator_ensure_open, sst_iterator_next) ends as if it had no more records,
\* the merge goes on without them, and its file is deleted like the others'.
MergeFinish ==
  /\ compactor.pc = "wait_count"
  /\ immutables = {}
  /\ compactor.left = 1
  /\ sst' = [Release(sst, compactor.inputs) EXCEPT
               ![compactor.tab].recs = Merged(compactor.inputs)]
  /\ files' = files \ Removed(sst, compactor.inputs)
  /\ compactor' = [compactor EXCEPT !.pc = "add", !.left = 0]
  /\ UNCHANGED <<memVars, poolVars, flagVars, list, highest_tier, metaVars,
                 notCompactor>>

\* Under metadata_lock: list the merged table, and keep its inputs in
\* sst_to_delete (which is large enough: 64 tiers of at most 4 inputs).
CompactAdd ==
  /\ compactor.pc = "add"
  /\ AddTable(compactor.tab, compactor.tier + 1)
  /\ compactor' = NextTier([compactor EXCEPT !.inputs = {}, !.tab = 0,
                              !.garbage = @ \cup compactor.inputs])
  /\ UNCHANGED <<memVars, poolVars, flagVars, sst, files, metaVars, notCompactor>>

CompactCopy ==
  /\ compactor.pc = "copy"
  /\ metadata_generation' = metadata_generation + 1
  /\ compactor' = [compactor EXCEPT !.pc = "persist", !.copy = list,
                                    !.gen = metadata_generation + 1]
  /\ UNCHANGED <<memVars, poolVars, flagVars, tableVars, disk_generation, disk,
                 notCompactor>>

CompactPersist ==
  /\ compactor.pc = "persist"
  /\ WriteMetadata(compactor.gen, compactor.copy)
  /\ compactor' = [compactor EXCEPT !.pc = "delete", !.gen = 0, !.copy = {}]
  /\ UNCHANGED <<memVars, poolVars, flagVars, tableVars, metadata_generation,
                 notCompactor>>

\* Each merged table is marked old and released; a reader that still holds it
\* keeps its files until it closes its iterator.
CompactDelete ==
  /\ compactor.pc = "delete"
  /\ LET marked == [t \in DOMAIN sst |->
                      IF t \in compactor.garbage THEN [sst[t] EXCEPT !.old = TRUE]
                                                 ELSE sst[t]]
     IN  /\ sst' = Release(marked, compactor.garbage)
         /\ files' = files \ Removed(marked, compactor.garbage)
  /\ compactor' = NoCompaction
  /\ UNCHANGED <<memVars, poolVars, flagVars, list, highest_tier, metaVars,
                 notCompactor>>

---------------------------------------------------------------------------
(* The readers.                                                            *)

\* Mutant: a memtable with a single record counts as empty.
IteratorCreateOffByOne(r) ==
  /\ ~iter[r].open
  /\ writer.pc \notin {"join_flush", "join_compact", "freed"}
  /\ LET m == IF Size(Current) > 1 THEN Current ELSE 0 IN
       /\ iter' = [iter EXCEPT ![r] = [open |-> TRUE, mem |-> m, tabs |-> list]]
       /\ mem' = IF m = 0 THEN mem ELSE [mem EXCEPT ![m].ref = @ + 1]
  /\ sst' = Retain(sst, list)
  /\ UNCHANGED <<immutables, poolVars, flagVars, list, highest_tier, files,
                 metaVars, notReader>>

\* lsmt_iterator_create, under metadata_lock and memtable_rwlock: it retains
\* the memtable, if it holds anything, and every listed table.
IteratorCreate(r) ==
  /\ ~iter[r].open
  /\ writer.pc \notin {"join_flush", "join_compact", "freed"}
  /\ LET m == IF Size(Current) > 0 THEN Current ELSE 0 IN
       /\ iter' = [iter EXCEPT ![r] = [open |-> TRUE, mem |-> m, tabs |-> list]]
       /\ mem' = IF m = 0 THEN mem ELSE [mem EXCEPT ![m].ref = @ + 1]
  /\ sst' = Retain(sst, list)
  /\ UNCHANGED <<immutables, poolVars, flagVars, list, highest_tier, files,
                 metaVars, notReader>>

IteratorClose(r) ==
  /\ iter[r].open
  /\ mem' = IF iter[r].mem = 0 THEN mem ELSE [mem EXCEPT ![iter[r].mem].ref = @ - 1]
  /\ sst' = Release(sst, iter[r].tabs)
  /\ files' = files \ Removed(sst, iter[r].tabs)
  /\ iter' = [iter EXCEPT ![r] = NoIterator]
  /\ UNCHANGED <<immutables, poolVars, flagVars, list, highest_tier, metaVars,
                 notReader>>

---------------------------------------------------------------------------

\* The calls the callers of the engine may make, or not.
Calls ==
  \/ \E k \in Keys \cup {ReservedKey} :
       writer.pc = "idle" /\ (InsertBlocked(k) \/ InsertPlace(k) \/ InsertRotate(k))
  \/ FlushRegister
  \/ Free

\* A call that has begun goes on.
WriterStep ==
  \/ writer.pc = "retry" /\ (\/ InsertBlocked(writer.key) \/ InsertPlace(writer.key)
                             \/ InsertRotate(writer.key))
  \/ InsertWait \/ InsertSignal
  \/ FlushPool \/ FlushSignal \/ FlushCheck
  \/ FreeJoinFlush \/ FreeJoinCompact

FlusherStep ==
  \/ FlushDaemonWake \/ FlushScan \/ FlushIdle \/ FlushWrite \/ FlushAdd
  \/ FlushPersist \/ FlushUnregister \/ FlushRelease
  \/ FlushNotifyCompaction \/ FlushNotifyPool

CompactorStep ==
  \/ CompactionDaemonWake \/ CompactStart \/ TierFits \/ TierPop \/ MergeOpen
  \/ MergePollActive \/ MergePollCount \/ MergeWrite \/ MergeFinish \/ CompactAdd \/ CompactCopy \/ CompactPersist
  \/ CompactDelete

\* After a write past the end of immutables[] nothing is known of the process.
Undefined == writer.pc = "overflow"

\* The engine was freed, or its behaviour is no longer defined.
Stopped == (writer.pc = "freed" \/ Undefined) /\ UNCHANGED vars

Step ==
  \/ Calls \/ WriterStep \/ SpuriousWakeup
  \/ FlusherStep \/ CompactorStep
  \/ \E r \in Readers : IteratorCreate(r) \/ IteratorClose(r)

Next == (~Undefined /\ Step) \/ Stopped

\* Every thread that can take a step eventually does; a query ends.
Fairness ==
  /\ WF_vars(~Undefined /\ WriterStep)
  /\ WF_vars(~Undefined /\ FlusherStep)
  /\ WF_vars(~Undefined /\ CompactorStep)
  /\ \A r \in Readers : WF_vars(~Undefined /\ IteratorClose(r))

Spec == Init /\ [][Next]_vars

FairSpec == Spec /\ Fairness

---------------------------------------------------------------------------
(* Properties.                                                             *)

MemType ==
  /\ mem \in Seq(Memtable) /\ mem # <<>>
  /\ immutables \subseteq 1..Len(mem)

FlagType ==
  /\ active \in {0, 1}
  /\ {flush_needed, stop_flush, flush_active, compaction_needed, stop_compaction}
       \subseteq BOOLEAN

TableType ==
  /\ sst \in Seq(SSTable)
  /\ list \cup files \cup disk \subseteq 1..Len(sst)
  /\ {highest_tier, metadata_generation, disk_generation} \subseteq Nat

WriterType == writer \in [pc : WriterPC, key : Keys \cup {ReservedKey}]

FlusherType ==
  flusher \in [pc : FlusherPC, mem : 0..Len(mem), tab : 0..Len(sst), gen : Nat,
               copy : SUBSET (1..Len(sst))]

CompactorType ==
  compactor \in [pc : CompactorPC, tier : Nat, top : Nat,
                 inputs : SUBSET (1..Len(sst)), tab : 0..Len(sst), left : Nat,
                 garbage : SUBSET (1..Len(sst)), gen : Nat,
                 copy : SUBSET (1..Len(sst))]

IterType ==
  iter \in [Readers -> [open : BOOLEAN, mem : 0..Len(mem),
                        tabs : SUBSET (1..Len(sst))]]

HistoryType == accepted \subseteq Record /\ inserted \in Nat /\ flushes \in Nat

\* Every variable has its type: in particular the tables and memtables the
\* threads and the metadata refer to are ones that were created.
TypeOK ==
  /\ MemType /\ FlagType /\ TableType /\ WriterType /\ FlusherType
  /\ CompactorType /\ IterType /\ HistoryType

\* The tables that together hold what has left the memtables: those listed and
\* those a running merge has taken from the list.
Held == list \cup compactor.inputs

\* No accepted record is ever lost: while memtables are rotated, flushed and
\* released and tables are merged and deleted, each record lsmt_insert took is
\* in the memtable, in a registered immutable memtable, or in a table that is
\* listed or being merged and whose file exists.
NoRecordLost ==
  accepted \subseteq RecordsOf(Held \cap files)
                     \cup (UNION {mem[m].recs : m \in immutables \cup {Current}})

\* A record is in one table only: no memtable is flushed twice and no table is
\* both merged and kept, so a query does not return a record twice.
NoRecordTwice ==
  \A t, u \in Held : t # u => sst[t].recs \cap sst[u].recs = {}

\* Nothing in use is freed: an open iterator's memtable is alive and its
\* tables' files exist, the memtable being flushed is alive, and the files of
\* the tables being merged exist until the compaction daemon releases them.
NoUseAfterFree ==
  /\ \A r \in Readers : iter[r].open =>
       /\ iter[r].mem # 0 => mem[iter[r].mem].ref > 0
       /\ iter[r].tabs \subseteq files
  /\ \A m \in immutables \cup {Current} : mem[m].ref > 0
  /\ flusher.pc \in {"write", "unregister", "release"} => mem[flusher.mem].ref > 0
  /\ list \cup compactor.inputs \cup compactor.garbage \subseteq files

\* Nothing is kept for ever: a table's file exists only while the table is
\* listed, or the daemons or an open iterator work with it.
NoOrphanFile ==
  files \subseteq list \cup compactor.inputs \cup compactor.garbage
                  \cup {flusher.tab, compactor.tab}
                  \cup (UNION {iter[r].tabs : r \in Readers})

\* The metadata file never names a table whose file was deleted, although the
\* two daemons copy the list, write it and delete files without a common lock.
DiskMetadataSound == disk \subseteq files

\* Once no daemon has a version of the metadata left to write, the file names
\* exactly the listed tables: an older version never overwrites a later one.
DiskMetadataCurrent ==
  ( /\ flusher.pc # "persist"
    /\ compactor.pc = "delete" \/ compactor.inputs \cup compactor.garbage = {} )
  => disk = list

\* The exit(1) of sst_compact is not reached: a tier over its limit always has
\* two tables to merge.
NeverQuits == compactor.pc # "abort"

\* lsmt_flush returns only when every record accepted so far is in a table.
FlushDrains ==
  [][ (writer.pc = "flush_check" /\ writer'.pc = "idle")
      => accepted \subseteq RecordsOf(Held) ]_vars

\* A call of lsmt_insert, lsmt_flush or lsmt_free returns: no wake-up is lost
\* and the three threads never wait for each other.
WriterReturns ==
  (writer.pc # "idle") ~> (writer.pc \in {"idle", "freed"} \/ Undefined)

\* Every registered memtable is eventually flushed and unregistered, although
\* the flush daemon is signalled only when it was not running.
EveryMemtableFlushed ==
  \A m \in 1..(MaxInserts + MaxFlushes + 1) :
    (m \in immutables) ~> (m \notin immutables \/ Undefined)

\* The engine implements RecordStore: durable are the records of the tables
\* whose files exist and that are listed or being merged.
Flushing == writer.pc \in {"flush_pool", "flush_signal", "flush_check", "flush_wait"}

Store == INSTANCE RecordStore WITH
           stored   <- accepted,
           durable  <- RecordsOf(Held \cap files),
           flushing <- IF Flushing THEN accepted ELSE {}

ImplementsRecordStore == Store!Spec

\* lsmt.h:106 "The iterator fetches the records in ascending order within the
\* provided key range": a new iterator covers every accepted record.
IteratorComplete ==
  [][ \A r \in Readers : (~iter[r].open /\ iter'[r].open) =>
        accepted \subseteq RecordsOf(iter'[r].tabs)
                           \cup (IF iter'[r].mem = 0 THEN {} ELSE mem[iter'[r].mem].recs)
    ]_vars

\* What a new iterator does not cover is under way between memory and the list:
\* in a registered immutable memtable or in the inputs of a running merge.
IteratorMissesOnlyInTransit ==
  [][ \A r \in Readers : (~iter[r].open /\ iter'[r].open) =>
        accepted \subseteq RecordsOf(iter'[r].tabs \cup compactor.inputs)
                           \cup (UNION {mem[m].recs : m \in immutables \cup ({iter'[r].mem} \ {0})})
    ]_vars

\* lsmt.h:24 declares immutables[MAX_IMMUTABLES], and lsmt_insert waits for
\* room in it: nothing is written past its end.
ImmutablesFit == ~Undefined
====
