# A TLA+ model of raft-lsmt

raft-lsmt is a replicated time-series store. Each server (`src/server.c`) takes
insertions on one port and range queries on another, replicates insertions with
Raft, and keeps the records in a log-structured merge tree (`deps/lsmt`). A
Python library (`client/`) spreads keys over several clusters, writes batches to
leaders and reads ranges from followers. This directory holds TLA+ modules for
the parts whose correctness depends on interleaving, failure and boundaries, TLC
configurations that check them on small instances, and TLAPS proofs of the
properties that matter most.

`tlc -config X.cfg M` runs a configuration, `tlapm M.tla` checks a proof module.
`PROJECT.json` lists the runs, the source lines behind every definition, a
mutation of the model that breaks each property, and the hazards of the code.

## The system

| Part | State | Operations | Runs in |
|---|---|---|---|
| Storage engine, `lsmt.c` | current memtable, `immutables[]`, flags and condition variables of two daemons, generation numbers | `lsmt_insert`, `lsmt_flush`, `lsmt_free`, iterators | event loop, flush daemon, compaction daemon, query workers |
| Tables and metadata, `sst.c`, `queue.c`, `index.c` | list of tables, one queue per tier, reference counts, files, metadata file | add, pop, retain, release, copy, write, k-way iteration | both daemons, query workers |
| Memtable, `skiplist.c` | sorted list with a reference count | insert, get, iterate, retain, release | event loop, flush daemon, query workers |
| Insert service, `server.c` | per connection: byte buffer, batch, `is_paused`, `ref_count` | read callback, framing, batching, `raft_apply`, acknowledgement, redirect, statistics timer | event loop |
| Query service, `server.c` | per connection: request buffer, `is_paused`, `ref_count`; `active_queries_count`; list of clients | read callback, dispatch, search, response, close | event loop and libuv workers |
| Replication | Raft log, term, leader | propose, apply, elect | Raft library (external) |
| Client writes, `dbclient.py`, `router.py` | buffers per node, pool of sockets, leader registry | `connect`, `write`, `flush`, `_flush_batch`, `disconnect` | caller's thread, threads of `io_pool` |
| Client reads, `dbclient.py`, `routing_strats.py` | futures, pages collected so far, round-robin counters | `read`, `read_batch`, `_query_single_node`, `_query_batch_single_node` | threads of `io_pool`, threads of `aggregator_pool` |
| Benchmarks, `write-bench.py`, `read_benchmark.py` | futures in flight | `bench` | main thread |

How they interact. The insert service frames messages, gathers them into a batch
per connection and proposes the batch as one Raft entry; Raft calls `FsmApply` on
every node, which calls `lsmt_insert`, and on the proposer `serverApplyCb`, which
sends one byte per message. The service stops reading while the engine has 24 or
more immutable memtables, and the timer resumes it below 12. The query service
runs each request on a worker that opens an engine iterator. The client counts
acknowledgement bytes, follows `REDIRECT`, and asks for the next page while a
response says that its limit was reached.

What is hard. Four kinds of threads share the engine under six locks with
several steps between unlock and relock; memtables and files are freed by
whoever drops the last reference; connections are closed while workers, Raft and
pending writes still refer to them; leadership changes in the middle of a batch;
pausing and resuming must not leave anything behind; pages are cut at byte limits
and continued by key. In the client, threads change the leader while records are
routed by it, sockets go from one call to the next over failures, and threads of
one pool wait for those of another.

What makes each part correct:
- engine: an accepted record is never lost nor stored twice; flushing finishes
  what was accepted before; no use after free, no leaked file; the metadata file
  agrees with the files; no lost wake-up;
- query service: a client is freed exactly when nobody uses it, no place under
  the limit leaks, every request on an open connection is answered;
- insert service: an acknowledgement means that `FsmApply` handed the message to the
  engine; order and no repetition
  within a connection; nothing waits for ever;
- write path: a batch reported as written is applied; each record goes into one
  batch; what is in flight stays bounded; a normal end hides no failure;
- read path: a read returns the records of its range once each, and ends; a call
  never reads another call's answer; no pool waits for itself.

## Modules

| Module | Models |
|---|---|
| `RecordStore` | what the engine promises: accepted records stay, reach the disk, and a flush returns only when all of them have |
| `Lsmt` | the engine: one writer, the two daemons, readers with iterators |
| `LsmtProofs` | proofs about `Lsmt`: types, no loss, the refinement |
| `LsmtTableProofs` | proofs about `Lsmt`: the tables and the metadata file, reference counts and the life of files, the sizes of tiers |
| `QueryService` | the query port of a server |
| `QueryServiceProofs` | proofs about `QueryService` |
| `InsertService` | the insert ports of the servers of one cluster, with Raft as its environment |
| `InsertServiceProofs` | proofs about `InsertService` |
| `WritePath` | the client's write thread composed with `InsertService` |
| `WritePathProofs` | proofs about `WritePath` |
| `ReadPath` | range routing and a paged read over several clusters |
| `ReadPathProofs` | proofs about `ReadPath` |
| `BatchRead` | `read_batch` under the read benchmark: two thread pools, failover, sockets |
| `BatchReadProofs` | proofs about `BatchRead` |
| `WriteBench` | the write benchmark: `connect`, `write`, `flush`, write threads, `disconnect` |
| `WriteBenchProofs` | proofs about `WriteBench` |
| `MC...` | instances for TLC |

**Lsmt.** Each critical section of the code is one action, named for the function
and its phase: `InsertRotate`, `FlushScan`, `FlushAdd`, `TierPop`, `MergeWrite`,
`CompactPersist` and so on; local variables of a thread are the fields of its
record (`writer`, `flusher`, `compactor`). `flush_cond` and `compaction_cond` are
waited on under the mutex of their predicate, so that a wait is a guard;
`thread_pool_cond` protects a test made under another lock, so sleeping, broadcasts
and spurious wake-ups are modelled. `sst_merge` polls `flush_active` and
`immutable_count` without a lock, in two steps. Sizes are counted in records.
Deleting a table's file is part of dropping its last reference. The model calls `lsmt_free`
only when no immutable memtable is left; in the repository a test and the demonstration
program call it, the server never does. File operations succeed: a failure to write
a table ends the process, while an input of a merge that cannot be opened or read is taken
for one without further records (`sst.c:323-350`, `465-489`) and then deleted with the others
(`lsmt.c:331-334`), so that `NoRecordLost` is a statement about readable inputs. Storing past the end of `immutables[]` is
undefined behaviour: the model stops there (`Undefined`), and a run shows that it
is reached.

**QueryService and InsertService.** A callback of the event loop is one action
and runs to its end: `OnClientQuery` includes the dispatch of everything the limit
allows, `AfterQuery` the response and the resuming of paused clients. `uv_write`,
`uv_close` and worker threads complete in steps of their own, in any order. Bytes are
counted in fragments so that a read may end within a message. Lack of memory is
an outcome where the code handles it. The statistics timer serves one connection
per step. Raft is external: a leader's entries are
applied in order, or lost when another leader is elected; a deposed leader
reports failure for every entry it has not seen applied, whether lost or not.
A node's engine gets immutable memtables from the applies while it leads and from its
`ServerClose`.
An entry of the log keeps its index for good; it is forgotten once it is neither pending nor
awaited by its proposer.
"Applied" means that `FsmApply` ran on the message and handed it to `lsmt_insert`. What
that returns is only logged (`server.c:781-793`): a record with id 0 or with a key that the
memtable already has is refused and acknowledged all the same, and `AckMeansApplied`,
`AppliedInOrder` and the properties of `WritePath` count it as applied. Messages that pass
`process_insert_buffer` and for which `FsmApply` returns `RAFT_MALFORMED` are left out: they
stop every node's state machine alike.

A server is `listening` until `ServerClose`, which closes its sockets and listed clients and
ends in `lsmt_flush`. That call registers the memtable in use whether or not
`immutables[]` has room for it (`lsmt.c:721`, finding 2): with a full array the server is
`undefined` from then on and takes no further step. Otherwise it is `flushing`: the event
loop stands still, so that none of its callbacks, no apply and no change of its leadership
happens, until the flush daemon has emptied the array (`LsmtFlushReturns`) and the loop goes on
(`closed`). The servers whose loop runs are `Running`.

**WritePath.** One thread sends its batches in turn over a pool of connections; the peer
in `InsertService` is replaced by it, and the servers' shutdown and dropped reads
are left out. A `REDIRECT` is `RedirectLen` bytes in the same stream as acknowledgements,
which is what the client sees. After any failure the whole batch is sent again.

**ReadPath.** A key is an id and a timestamp. `InsertCluster` and `Overlaps` are
the two integer formulas of range routing. `Responses` is the set of answers
`background_query_cb` can give: cut after any record by the byte limit or the deadline,
complete, or empty with the limit flag after a long wait in the queue. Insertions
go on during the read, except of the reserved id 0, which `sl_insert` refuses
(`skiplist.c:263`). All nodes of a cluster are taken to hold the same records and an
iterator to find all of them; the run `engine_iterator` shows when it does not.

**BatchRead.** A call in `io_pool` is a record: queued, connecting, receiving, done,
failed or cancelled. `Start` is a thread taking the next call by priority and age,
`Connect` is `_get_socket` and `sendall`, `Receive` one answer, `CallFails` the exception
path that closes the socket and goes to the next node. `_aggregate` is split at each
future it looks at (`Wait`, `TakeFirst`, `LookAt`, `TakePage`, `Return`, `Raise`), since
calls go on in between. A socket carries the requests still to be answered, which is
what a later user of it could read. Answers of one connection come in any order, as the
server's workers finish. `_get_socket` may or may not see that an idle socket was closed:
the end may still be on its way. One cluster is modelled, as the clusters of a batch share
only the aggregator, and all its nodes hold the same records. The registry keeps what
`connect` found: reads never change it.

**WriteBench.** `bench` and the calls it makes run in the main thread: `TakeChunk`, `Route`
(one record a step, since the leader may change between two), `Extend` (`write` adds what was
routed to the buffers, under `_buffer_lock`), `Submit` (one full buffer a step; as a chunk is no
longer than a batch, a node has at most one batch to cut), `WriteReturns`, `Throttle`,
`Flush` (one node a step) and the ends. The threads may work on a batch while
the next is submitted. A batch and the thread that sends it are one record. An attempt is acknowledged, redirected or
failed; what stands behind each outcome is `WritePath`'s. A record may be routed to any
cluster, which covers every routing strategy.

## Runs

| Run | Question | Instance |
|---|---|---|
| `engine_safety` | Is a record ever lost or kept twice? Use after free, orphan files, metadata on disk, the `exit(1)` of `sst_compact`? What may an iterator miss? Does a flush finish? Does `Lsmt` implement `RecordStore`? | 2 keys, 6 insertions, 2 immutables, merges of 2 that reach the second tier, 1 reader, 1 flush; symmetric keys |
| `engine_live` | Does every call return, is every memtable flushed? | one slot in `immutables[]`, so that writers really wait |
| `engine_iterator` | Does a new iterator cover every accepted record? **No** | as `engine_safety`, fewer insertions |
| `engine_overflow` | Does `immutables[]` stay within bounds? **No** | as `engine_iterator` |
| `query_service` | Reference counts, limit, list, pausing, answers | 2 clients, 2 requests each in 2 fragments, 2 running queries |
| `insert_service` | Acknowledgements, order, reference counts, nothing left behind; does an array of memtables overflow anywhere but in `ServerClose`? | 1 connection, 4 messages in 2 fragments, the last of a refused length, batches of 2, 2 nodes, 1 election after the first |
| `write_path` | Is a batch whose counted bytes were all acknowledgements applied? Is an acknowledgement of one batch ever counted for the next? | 2 nodes, 2 connections, 2 batches of 2, a single attempt but for redirects, 1 election |
| `write_redirect` | Is every batch reported as written applied? **No** | 1 batch, 1 connection, 2 attempts |
| `read_path` | Routing, disjoint pages, what may be missed, termination | 2 clusters, key space 2, ids 0 to 3 (1 and 2 within it, 3 past it; 0, which no record has, in queries only), 2 timestamps |
| `read_pages` | Is a read complete? **No** | as `read_path` |
| `batch_read` | Does a call read another's answer? Is a batch complete? What outlives `disconnect`, does anyone wait for ever? | 2 nodes, 2 ids per query, 3 queries in batches of 2 or 2 in batches of 1, 2 I/O threads and 1 aggregator, 2 faults |
| `write_bench` | Is each record in one batch, what is in flight bounded, the end clean, does it end? | clusters of 2 and 1 nodes, 5 or 6 records, chunks and batches of 2, 2 threads, 2 attempts, 1 redirect, throttle from the first batch on |

The bounds were chosen so that each limit of the code is met: `immutables[]`
fills, a tier overflows into the next, the limit on queries is reached by
one client while the other waits, a batch fills and a partial message follows it,
and a page is cut inside an id. Each property of a passing run is broken by a
mutation in `PROJECT.json`, so none holds for lack of the interesting case.
The engine's instances satisfy `MergeLimit <= TierGrowth` and keep `ZeroLevelMax` at
least the size of the largest memtable, as the code's 4, 10, 64 MiB and 16 MiB do;
the assumption `TierConstants` says so, and `NeverQuits` relies on it. `write_path`, `batch_read` and `write_bench` do not use TLC's deadlock
check: their programs end. `batch_read` has `NeverStuck` instead, which
excludes the faults a server may add from the steps that count as progress, and
`write_bench` has `BenchEnds`.

`batch_read`: the two sets of arguments give a full batch followed by a short one, and two
batches that reach the limit of pending ones; two faults suffice for a call that fails on
both nodes, for a failover after which a node answers twice, and for a closed idle socket
together with another failure. A saturated answer (no records, limit reached) counts as a
fault. `write_bench`: five records end in a short chunk and leave a leftover in a buffer, six
do not; the leader of the first cluster can change between two records of one chunk,
which is what fills a former leader's buffer.

`IteratorMissesOnlyInTransit`, `ReturnsAllUnlessOverwritten` and `ClosedAtEnd` hold with an
exception that names a weakness of the code exactly: an iterator misses the records of immutable memtables
and of the inputs of a running merge and nothing else (finding 1); a batch misses
an answer only when two of its calls were answered by the same node, one of them after
a failover, and `node_to_accumulated[n] = list(responses)` (`dbclient.py:574`) dropped the
earlier; and a batch that raises leaves its running calls behind (`dbclient.py:609`), whose sockets,
returned after `disconnect`, nobody closes. `InFlightBounded` is not the limit of 512 the benchmark tests: it waits for one
batch of several. A chunk adds no more than one batch on the average, so that
`BatchSize * |futures|` exceeds the limit at most by what the buffers can hold back, one record
less than a batch for each node, and one chunk. It needs `ChunkSize <= BatchSize`; both are 8192.

The four violations are disagreements of the code with its own comments,
declarations or tests; `PROJECT.json` quotes them under `findings`:
1. an iterator misses immutable memtables (`lsmt.c:916`), and likewise the inputs of a
   running merge (`lsmt.c:249`);
2. `lsmt_flush` stores into `immutables[]` unchecked (`lsmt.c:721`); `ServerClose` is where
   the server calls it, and `TypeOK` of `InsertService` says that its array overflows nowhere else;
3. bytes of a `REDIRECT` that follows an acknowledgement are counted as
   acknowledgements (`dbclient.py:277`);
4. a page cut inside an id is continued at the next id (`dbclient.py:448`).

### Fairness

- Engine: weak fairness of the writer, of each daemon, and of closing an
  iterator: threads are scheduled, no lock is held while waiting, and a query
  has a time budget. No fairness of calling the engine. The number of
  insertions is bounded: under endless writes a merge could wait for ever, which
  the runs do not rule out.
- Query service: weak fairness of each worker and of its completion callback. Peers
  may stop sending, and responses may stay unsent.
- Insert service: weak fairness of the timer and of the engine's flush daemon.
  None of Raft: an entry may stay undecided for ever.
- Read path: weak fairness of each query, which ends at the latest with a socket
  timeout, and of the aggregating thread.
- Write benchmark: weak fairness of the next step: threads are scheduled, and an
  attempt is answered or ends with its socket timeout. That every step is progress is
  the content of `BenchEnds`: attempts are counted, records are finitely many.
  Redirects are not counted by the code and bounded by `MaxRedirects`; two nodes that
  name each other for ever would keep a batch going.
- `write_path`, `write_redirect` and `batch_read` check safety only. In `batch_read` every
  step of the program uses up something finite (queries, pages, nodes to try), so that
  `NeverStuck` excludes what could keep it from ending.

## Proofs

`LsmtProofs` proves, for all sets of keys and readers and all sizes and limits:

- `TypeCorrect`: `Spec => []TypeOK`;
- `RecordsAreKept`: `Spec => []NoRecordLost`;
- `FlushIsComplete`: `Spec => FlushDrains`;
- `EngineImplementsRecordStore`: `Spec => ImplementsRecordStore`.

`NoRecordLost` is not inductive: a step that deletes a file preserves it only
because of who holds which reference. The inductive invariant `IInv` adds
`Grounded` (only accepted records are stored, finitely many), `MemInv` (the memtable
in use is not registered, and is empty while `lsmt_flush` runs), `TableInv` (a table
that is listed or being merged has its file and is not marked for removal, and none
of them is among those to be deleted), `FlusherInv` (the memtable being flushed stays
registered until its records are listed), `CompactorInv` (the merged table has the
records of its inputs, which count until it is listed), `FlushCallInv` (while
`lsmt_flush` waits, an idle pool means no immutables) and `Kept`. There is one lemma
per action that moves records or references and three (`WriterQuiet`,
`FlusherQuiet`, `CompactorQuiet`) for the rest. The refinement follows from `IInv` and a
classification of steps (`StepKinds`). The only assumption is
`ConstantsAssumption`, which types the constants.

`LsmtTableProofs` adds, over the same assumption but for the last theorem:

- `RecordsAreUnique`: `Spec => []NoRecordTwice`. `ApartInv` says that the memtables that
  are still to be flushed hold different records (`MemtablesApart`) and that the tables hold
  different ones from each other and from them (`TablesApart`). It needs that the writer's
  record is in no memtable yet, and that the flushed memtable stops counting in the step in
  which its table starts to;
- `MetadataIsSound`: `Spec => []DiskMetadataSound`, and `MetadataIsCurrent`:
  `Spec => []DiskMetadataCurrent`. Both daemons copy the list of tables under one lock
  and write it under another. `MetadataInv` relates the versions they hold: which of the
  two is later (`VersionInv`), that the inputs of a merge are in no version that is still
  to be written after their deletion began (`CompactionInv`), that what is named
  has a file (`NamesInv`) and that the latest version is the list (`LatestInv`);
- `IteratorsMissLittle`: `Spec => IteratorMissesOnlyInTransit`;
- `NothingInUseIsFreed`: `Spec => []NoUseAfterFree`, and `NoFileIsOrphaned`:
  `Spec => []NoOrphanFile`. Neither is inductive, nor is any inequality between a count and
  its uses: a count that were too high would leave a file behind, one too low would free
  something. `CountInv` therefore states each count exactly: the
  references to a memtable (`MemRefs`) and to a table (`TableRefs`) are the number of
  open iterators that hold it plus those of the engine's lists and of the daemons, and a table's
  file exists exactly while that number is positive (`FilesInv`). Counts of a set of
  readers need that only finitely many are open, which is part of the invariant: `Readers` may be
  infinite;
- `CompactionNeverQuits`: `Spec => []NeverQuits`. A tier over its limit must give a merge two
  tables, so no table may fill its tier alone. `SizeInv` bounds what there is: a memtable
  exceeds its threshold by at most one record (`MemSizes`), a table is within the limit of its tier
  (`TableSizes`), and a merge takes at most `MergeLimit` tables of one tier (`MergeInv`), so
  that its result is within the limit of the next. The first step of that argument needs
  `SizeThreshold < ZeroLevelMax` and the last `MergeLimit <= TierGrowth`: `TierConstants`, which
  `lsmt.c:24-27` satisfies with 16 MiB, 64 MiB, 4 and 10.

`QueryServiceProofs` proves, for all sets of clients, limits and request sizes:

- `QueryTypeCorrect`, `ClientsAreCounted`, `PlacesAreCounted`, `ListIsExact` and
  `NobodyWaitsForNothing`: `Spec => []P` for `TypeOK`, `RefCountExact`, `ActiveCountExact`,
  `ListExact` and `PausedOnlyWhenFull`.

A callback runs several handlers on the loop's state, between which the invariant does not
hold: a response is counted before the query that it answers is forgotten. The lemmas are
therefore about a state `s` of the loop and a number of references `h[c]` held besides those
of the queries and writes (`Sound(s, w, h)`): each handler takes `Sound` with one `h` to
`Sound` with another, and between callbacks `h` is 1 for an open or closing handle and 0
otherwise (`Resting`). That the loop which resumes clients leaves no paused client with
a free place is shown by the least position of the list at which it would
(`Passes`, `ResumingAll`). The only assumption is `QueryConstants`.

`InsertServiceProofs` proves, for all sets of nodes and connections, batch sizes, limits, and
numbers of messages and elections:

- `AcknowledgedIsApplied`: `Spec => []AckMeansApplied`;
- `MessagesAreAppliedInOrder`: `Spec => []AppliedInOrder`;
- `NoMessageIsForgotten`: `Spec => []NothingLeftBehind`;
- `InsertClientsAreCounted`: `Spec => []RefCountExact`;
- `InsertTypeCorrect`: `Spec => []TypeOK`. Besides the types it says that no server but one
  that is `undefined` has more than `MaxImmutables` immutable memtables.

Its invariant, `InsertInv`, says of each connection, from what its messages go through one
after the other: what was applied, the pending entries by index and the batch hold
increasing positions of the stream, all of them read (`InOrder`), and the buffer follows them as
long as the connection is listed (`InLine`); a connection closed for a malformed message keeps
a buffer that nobody will look at. To this come the count of references, no more
acknowledgements than applied messages (`Good`), and that what is not sent yet waits for
something (`Tidy`). Again a callback consists of several steps on the
loop's state. `Good` holds after each of them, `InLine` and `Tidy` only at its end, and every
step leaves the other connections `Apart`: nothing of theirs changes but that an
election or an apply may take entries off the log. Three lemmas carry the weight:
`Cutting` and `CuttingAll`, by which the batches of `Take` are consecutive parts of
the messages whatever the batch size, `Proposing`, which puts them at the end of the log, and
`Applying`. `Sheltered` relates the states of the servers to their arrays of
memtables. The only assumption is `InsertConstants`.

`WritePathProofs` proves, for all numbers of nodes, connections and batches, lengths of a batch
and of a redirect, numbers of retries, and whatever `InsertServiceProofs` leaves open:

- `AcknowledgedBatchIsApplied`: `WriteSpec => []CleanBatchIsApplied`, which bounds finding 3: if
  every byte that was counted was an acknowledgement, every record of the batch is applied;
- `WriterIsAPeer`: `WriteSpec => Spec`. The write thread is one of the peers of `InsertService`, so
  that all theorems about the insert ports hold on the write path.

The client counts bytes; that these are the acknowledgements of this batch and not of an
earlier one is what has to be shown. A pooled socket has been read up to the end of its
batches (`SocketInv`), and the thread waits for the last batch of its socket (`WriterInv`). A redirect is
written at most once, and the server reads nothing after it (`Quiet`). `CutInv` places it: it was
written while the k-th batch was the last one, so that no message of a later batch is
ever received, and it comes after the bytes the client read for the batches before. If the
batch is counted in full and clean (`CleanRead`), the redirect either lies behind it or so far before it
that too few acknowledgements follow, and the acknowledgements that were sent are no more than
the applied messages (`Good`). Where a byte of the stream comes from is defined by
position (`Sent`, `Stream`), and `Streaming` and `GrowingStream` say that a stream only grows. The
effects of a server's callbacks on the replies are lemmas of `InsertServiceProofs` (`Tells`,
`Talks`, `Acknowledges`, `Greets`). The assumptions are `InsertConstants` and `WriteConstants`.

`ReadPathProofs` proves, for all numbers of clusters, key spaces, ids and timestamps:

- `RoutingIsComplete`: `Spec => []NothingUnasked`. The heart is `RoutingAgrees`: if
  an id lies between the ends of a query, the division that places its record
  and the intervals that route the query name the same cluster;
- `PagesAreDisjoint`: `Spec => []PagesDoNotOverlap`;
- `ReadMissesOnlyTies`: `Spec => []OnlyTiesAreMissed`, which bounds finding 4:
  nothing else is lost by pagination.

Its invariant adds that clusters which may hold records of the range were asked
(`AskedWhereNeeded`), that nothing is collected before the read (`NothingYet`), that
`before` is still stored (`BeforeKept`), that a read which has returned has no page
outstanding (`NoneOutstanding`), and that every record of the range
is returned, still to come, or follows a returned one of the same id
(`Accounted`). Its only assumption is `ReadConstants`.

`BatchReadProofs` proves, for all numbers of nodes, batches, threads and faults:

- `AnswersAreItsOwn`: `Spec => []NoDesync`;
- `BatchesAreComplete`: `Spec => []ReturnsAllUnlessOverwritten`;
- `NothingIsLeftOpen`: `Spec => []ClosedAtEnd`. After `disconnect` only calls of batches that
  raised are still under way, and the pools hold at most one socket for each call of such a
  batch that ended.

None is inductive. A call reads only its own answers because the requests of a call are
distinct, each of them is owed or answered while it receives (`CallsSound`), and an idle
socket has nothing left to read (`PoolClean`): one invariant about the two ends of
`_return_socket`. Of each batch, `AggInv` accounts for every call it submitted: the
aggregator waits for it, has it among the results it works through, or has looked at it;
and `ContentInv` says that an answer the aggregator looked at holds the records up to its
`max_id` and, unless it is the last one, exactly one call is on its way to continue it.
`ContentInv` is claimed only of batches in which no answer replaced another (`Overwritten`,
`dbclient.py:574`), and `MainInv` says which batches the main thread has still to wait for.
A batch that has ended without returning has raised, so what is still running after
`disconnect` belongs to one of these (`AllEnded`, `EndedQuiet`), and each such call that ends adds one
to both sides of the inequality (`ProgressCloses`).
There is one lemma per action. The only assumption is `BatchConstants`.

`WriteBenchProofs` proves, for all clusters of finitely many nodes, numbers of records, threads,
retries and redirects, and sizes with `ChunkSize <= BatchSize`:

- `NoRecordIsLostOrDoubled`: `Spec => []RecordsAccounted`;
- `ANormalEndIsClean`: `Spec => []EndsClean`;
- `WhatIsInFlightIsBounded`: `Spec => []InFlightBounded`.

For the first, the lists of `Lists` are one function `Held`, over which the records taken
so far are `Spread`. Whatever moves records is one of three changes of that function:
the first records of a list go to the end of another (`Moving`: `Route`, `Submit` and
`Flush`), an empty list receives the next ones (`Adding`: `TakeChunk`), or what was
routed follows what was buffered (`Pouring`: `Extend`). That the chunk is empty when the next
is taken is part of `PhaseInv`, which says what each phase of the main thread leaves behind.
For the second, `Followed`: a batch is done, waited for by bench or by `flush`, or reported as
failed, and only failed ones are reported; so when both have waited nothing is running that could
return a socket. The third is not inductive: a step may add one batch for
every node. What does not grow is the potential `Load`, the batches in flight times `BatchSize` plus
the records that are in no batch (`Pending`): `Submit` leaves it as it is, since the records
of a buffer are distinct and in no batch. `TakeChunk` adds at most a chunk, and `LoadInv` says that it
does so only from `Allowed`: `WriteReturns` leads back to the stream with few batches and
no full buffer, and `Throttle` takes off at least one batch, which is at least a chunk.
The only assumption is `BenchConstants`.

Only model-checked: all liveness, and `NeverStuck`. Fairness and `ENABLED` are out of the
prover's reach.

## Not modelled

Failing file operations, in particular unreadable inputs of a merge, whose records are
lost without a word; the levels of the skiplist, file formats and the sparse index; what an iterator returns
from several sources for equal keys; restart (`sst_metadata_load` is not
implemented, and snapshots hold no data); start-up; statistics and latency
files; the measurements and CSV files of the benchmarks, among them the callbacks that may
run after `wait` has returned (`read_benchmark.py:190`) and the query id a page's metrics carry
(`dbclient.py:536`); key distributions and jitter; the formula by which hash, round-robin and
leader routing choose a cluster for an insert; command line, scripts and mocks.
The components and the reasons are listed in `PROJECT.json`.

## Plan

Done, in this order: the engine and its proofs; the query service; the insert
service; the write path on top of it; the read path and its proofs; batched reads; the
write benchmark with the client's buffers and threads.

Next: `EngineIterator`, memtable and table iterators with lazy opening and index lookup
against a sorted-merge reference; equal keys, insertion during iteration.
