----------------------------- MODULE WriteBench -----------------------------
(***************************************************************************)
(* The write benchmark (write-bench.py, bench) and the client's buffered    *)
(* writes (client/dbclient.py, write, flush, _flush_batch): a stream of      *)
(* records is routed to clusters, buffered by node, cut into batches and     *)
(* sent by the threads of io_pool, while the main thread bounds the batches  *)
(* in flight and at the end flushes, waits and disconnects.                 *)
(*                                                                         *)
(* What a batch's attempt meets at the servers is InsertService's and        *)
(* WritePath's; here it succeeds, is redirected or fails.                    *)
(***************************************************************************)
EXTENDS Integers, Sequences, FiniteSets, SequencesExt

CONSTANTS
  Clusters,      \* the clusters of the configuration
  NodesOf,       \* the nodes of each, in the order of the configuration
  NoNode,        \* no leader is known
  RequestCounts, \* --requests: how many records are written
  ChunkSize,     \* bench's buffer_size
  BatchSize,     \* config.batch_size
  MaxFutures,    \* the batches in flight before bench waits
  Threads,       \* config.thread_pool_size
  MaxRetries,    \* config.max_retries
  MaxRedirects   \* bound: redirects, which the code does not count

Nodes == UNION {ToSet(NodesOf[c]) : c \in Clusters}

ASSUME BenchConstants ==
  /\ NodesOf \in [Clusters -> Seq(Nodes) \ {<<>>}]
  /\ \A c, d \in Clusters : c # d => ToSet(NodesOf[c]) \cap ToSet(NodesOf[d]) = {}
  /\ IsFiniteSet(Nodes) /\ NoNode \notin Nodes
  /\ RequestCounts \subseteq Nat /\ BatchSize \in Nat \ {0}
  /\ ChunkSize \in 1..BatchSize
  /\ MaxFutures \in Nat /\ Threads \in Nat \ {0}
  /\ MaxRetries \in Nat \ {0} /\ MaxRedirects \in Nat

VARIABLES
  requests,   \* the argument of this run
  main,       \* the main thread
  registry,   \* the leader the LeaderRegistry names for each cluster
  buffer,     \* _write_buffer
  batches,    \* the batches submitted to io_pool, in order
  pool,       \* _socket_pools: how many idle sockets there are to each node
  redirects,  \* how many redirects there were
  reported    \* history: the failed batches that were printed

sendVars == <<requests, registry, batches, pool, redirects>>
vars     == <<requests, main, registry, buffer, batches, pool, redirects, reported>>

---------------------------------------------------------------------------

ClusterOf(n) == CHOOSE c \in Clusters : n \in ToSet(NodesOf[c])

\* taken records were read from the stream; chunk is the batch_buffer that
\* write has not routed yet, last if it holds what remained of the stream, and
\* routed the records write has routed (node_records).
Main == [pc : {"connect", "stream", "route", "submit", "throttle", "flush", "wait", "ended", "error"},
         taken : 0..requests, chunk : Seq(1..requests), last : BOOLEAN,
         routed : [Nodes -> Seq(1..requests)],
         futures : SUBSET Nat, flushing : SUBSET Nat]

\* A batch and the thread that sends it: node is the one it is sent to.
Batch == [cluster : Clusters, records : Seq(1..requests), retries : 0..MaxRetries,
          node : Nodes \cup {NoNode},
          state : {"queued", "again", "connect", "sent", "done", "failed"}]

NothingRouted == [n \in Nodes |-> <<>>]

NewBatch(n, records) ==
  [cluster |-> ClusterOf(n), records |-> records, retries |-> 0, node |-> NoNode,
   state |-> "queued"]

Init ==
  /\ requests \in RequestCounts
  /\ main = [pc |-> "connect", taken |-> 0, chunk |-> <<>>, last |-> FALSE,
             routed |-> NothingRouted, futures |-> {}, flushing |-> {}]
  /\ registry = [c \in Clusters |-> NoNode]
  /\ buffer = [n \in Nodes |-> <<>>]
  /\ batches = <<>>
  /\ pool = [n \in Nodes |-> 0]
  /\ redirects = 0
  /\ reported = {}

---------------------------------------------------------------------------
(* LeaderRegistry and the socket pools.                                    *)

SetLeader(n) == [registry EXCEPT ![ClusterOf(n)] = n]

ClearLeader(n) == [registry EXCEPT ![ClusterOf(n)] = NoNode]

\* _get_socket: idle sockets to n that are readable are closed, the next one is
\* taken, or a new connection opened: what may be left in the pool.
AfterGet(n) == {[pool EXCEPT ![n] = left] : left \in 0..(IF pool[n] = 0 THEN 0 ELSE pool[n] - 1)}

\* disconnect closes the idle sockets.
Disconnected == [n \in Nodes |-> 0]

---------------------------------------------------------------------------
(* The main thread.                                                        *)

\* connect: of each cluster, the first node that takes the connection and does
\* not send a redirect at once is the leader; its socket is kept.
Connect ==
  /\ main.pc = "connect"
  /\ \E found \in [Clusters -> Nodes \cup {NoNode}] :
       /\ \A c \in Clusters : found[c] \in ToSet(NodesOf[c]) \cup {NoNode}
       /\ registry' = found
       /\ pool' = [n \in Nodes |-> IF found[ClusterOf(n)] = n THEN 1 ELSE 0]
  /\ main' = [main EXCEPT !.pc = "stream"]
  /\ UNCHANGED <<requests, buffer, batches, redirects, reported>>

\* The next records of the stream; after the last, flush.
TakeChunk ==
  LET upto == IF main.taken + ChunkSize <= requests THEN main.taken + ChunkSize ELSE requests IN
  /\ main.pc = "stream"
  /\ main' = IF main.taken = requests THEN [main EXCEPT !.pc = "flush"]
             ELSE [main EXCEPT !.pc = "route", !.taken = upto, !.last = upto - main.taken < ChunkSize,
                               !.chunk = [i \in 1..(upto - main.taken) |-> main.taken + i]]
  /\ UNCHANGED <<buffer, reported, sendVars>>

\* get_node_insert: whatever the strategy, a cluster's leader or first node.
RouteTo(c) == IF registry[c] # NoNode THEN registry[c] ELSE NodesOf[c][1]

\* write routes the records of the chunk one by one.
Route(c) ==
  /\ main.pc = "route" /\ main.chunk # <<>>
  /\ main' = [main EXCEPT !.chunk = Tail(@),
                          !.routed[RouteTo(c)] = Append(@, Head(main.chunk))]
  /\ UNCHANGED <<buffer, reported, sendVars>>

\* The buffers that a batch can be cut from.
Full == {n \in Nodes : Len(buffer[n]) >= BatchSize}

\* Mutant: the routed records replace those that were left over.
ExtendAnew ==
  /\ main.pc = "route" /\ main.chunk = <<>>
  /\ buffer' = [n \in Nodes |-> IF main.routed[n] = <<>> THEN buffer[n] ELSE main.routed[n]]
  /\ main' = [main EXCEPT !.pc = "submit", !.routed = NothingRouted]
  /\ UNCHANGED <<reported, sendVars>>

\* write adds what was routed to the buffers,
Extend ==
  /\ main.pc = "route" /\ main.chunk = <<>>
  /\ buffer' = [n \in Nodes |-> buffer[n] \o main.routed[n]]
  /\ main' = [main EXCEPT !.pc = "submit", !.routed = NothingRouted]
  /\ UNCHANGED <<reported, sendVars>>

\* and submits a batch of the first records while a buffer is full, in the order
\* in which nodes were routed to: any. A node has no second batch to cut, as a
\* chunk is no longer than a batch.
Submit(n) ==
  /\ main.pc = "submit" /\ n \in Full
  /\ batches' = Append(batches, NewBatch(n, SubSeq(buffer[n], 1, BatchSize)))
  /\ buffer' = [buffer EXCEPT ![n] = SubSeq(@, BatchSize + 1, Len(@))]
  /\ main' = [main EXCEPT !.futures = @ \cup {Len(batches) + 1}]
  /\ UNCHANGED <<requests, registry, pool, redirects, reported>>

\* Then bench waits if there are too many, but not after what remained.
WriteReturns ==
  /\ main.pc = "submit" /\ Full = {}
  /\ main' = [main EXCEPT !.pc = IF main.last THEN "flush"
                                ELSE IF Cardinality(main.futures) > MaxFutures THEN "throttle"
                                ELSE "stream"]
  /\ UNCHANGED <<buffer, reported, sendVars>>

Ended(b) == batches[b].state \in {"done", "failed"}
FailedOf(S) == {b \in S : batches[b].state = "failed"}

\* Mutant: batches that have ended stay in the list.
ThrottleForgetsNone ==
  /\ main.pc = "throttle"
  /\ \E b \in main.futures : Ended(b)
  /\ reported' = reported \cup FailedOf(main.futures)
  /\ main' = [main EXCEPT !.pc = "stream"]
  /\ UNCHANGED <<buffer, sendVars>>

\* Wait for a batch; those that have ended are forgotten, failures printed.
Throttle ==
  /\ main.pc = "throttle"
  /\ \E b \in main.futures : Ended(b)
  /\ reported' = reported \cup FailedOf(main.futures)
  /\ main' = [main EXCEPT !.pc = "stream", !.futures = {b \in @ : ~Ended(b)}]
  /\ UNCHANGED <<buffer, sendVars>>

\* The nodes whose buffers flush sends.
Unflushed == {n \in Nodes : buffer[n] # <<>>}

\* flush submits what is left in the buffers, in the order in which they were
\* first used: any, as nodes were leaders at different times.
Flush(n) ==
  /\ main.pc = "flush" /\ n \in Unflushed
  /\ batches' = Append(batches, NewBatch(n, buffer[n]))
  /\ buffer' = [buffer EXCEPT ![n] = <<>>]
  /\ main' = [main EXCEPT !.flushing = @ \cup {Len(batches) + 1}]
  /\ UNCHANGED <<requests, registry, pool, redirects, reported>>

FlushEnds ==
  /\ main.pc = "flush" /\ Unflushed = {}
  /\ \A b \in main.flushing : batches[b].state = "done"
  /\ main' = [main EXCEPT !.pc = "wait"]
  /\ UNCHANGED <<buffer, reported, sendVars>>

\* flush raises when it meets a failed batch; main disconnects and exits.
\* The interpreter still lets the threads work off the queue.
FlushRaises ==
  /\ main.pc = "flush" /\ Unflushed = {}
  /\ \E b \in FailedOf(main.flushing) : reported' = reported \cup {b}
  /\ main' = [main EXCEPT !.pc = "error"]
  /\ pool' = Disconnected
  /\ UNCHANGED <<requests, registry, buffer, batches, redirects>>

\* Mutant: flush is taken to have waited for everything.
FinishAtOnce ==
  /\ main.pc = "wait"
  /\ main' = [main EXCEPT !.pc = "ended", !.futures = {}]
  /\ pool' = Disconnected
  /\ UNCHANGED <<requests, registry, buffer, batches, redirects, reported>>

\* Wait for the remaining batches, then disconnect.
Finish ==
  /\ main.pc = "wait"
  /\ \A b \in main.futures : Ended(b)
  /\ reported' = reported \cup FailedOf(main.futures)
  /\ main' = [main EXCEPT !.pc = "ended", !.futures = {}]
  /\ pool' = Disconnected
  /\ UNCHANGED <<requests, registry, buffer, batches, redirects>>

---------------------------------------------------------------------------
(* The threads of io_pool: _send_batch.                                    *)

Working == {b \in DOMAIN batches : batches[b].state \in {"again", "connect", "sent"}}

\* A thread takes the oldest batch, or makes another attempt with its own.
Turn(b) ==
  \/ batches[b].state = "again"
  \/ /\ batches[b].state = "queued" /\ Cardinality(Working) < Threads
     /\ \A a \in 1..(b - 1) : batches[a].state # "queued"

\* The leader, as far as it is known, or the nodes in turn.
Target(b) ==
  LET nodes == NodesOf[batches[b].cluster] IN
  IF registry[batches[b].cluster] # NoNode THEN registry[batches[b].cluster]
  ELSE nodes[(batches[b].retries % Len(nodes)) + 1]

Attempt(b) ==
  /\ Turn(b)
  /\ batches' = [batches EXCEPT ![b].state = "connect", ![b].node = Target(b)]
  /\ UNCHANGED <<requests, main, registry, buffer, pool, redirects, reported>>

\* The batch is sent over an idle socket or a new one.
Send(b) ==
  /\ batches[b].state = "connect"
  /\ pool' \in AfterGet(batches[b].node)
  /\ batches' = [batches EXCEPT ![b].state = "sent"]
  /\ UNCHANGED <<requests, main, registry, buffer, redirects, reported>>

\* As many bytes as records came back: the socket is kept, its node the leader.
Acknowledged(b) ==
  /\ batches[b].state = "sent"
  /\ batches' = [batches EXCEPT ![b].state = "done", ![b].retries = 0, ![b].node = NoNode]
  /\ pool' = [pool EXCEPT ![batches[b].node] = @ + 1]
  /\ registry' = SetLeader(batches[b].node)
  /\ UNCHANGED <<requests, main, buffer, redirects, reported>>

\* A redirect to a node of the cluster is followed and not counted.
Redirected(b, l) ==
  /\ batches[b].state = "sent"
  /\ redirects < MaxRedirects
  /\ redirects' = redirects + 1
  /\ batches' = [batches EXCEPT ![b].state = "again", ![b].node = NoNode]
  /\ registry' = SetLeader(l)
  /\ UNCHANGED <<requests, main, buffer, pool, reported>>

\* Mutant: an attempt is counted only while a leader is known.
AttemptFailsUncounted(b) ==
  /\ batches[b].state \in {"connect", "sent"}
  /\ batches' = IF batches[b].retries + 1 < MaxRetries
                THEN [batches EXCEPT ![b].state = "again", ![b].node = NoNode,
                        ![b].retries = IF registry[batches[b].cluster] = NoNode THEN @ ELSE @ + 1]
                ELSE [batches EXCEPT ![b].state = "failed", ![b].retries = 0, ![b].node = NoNode]
  /\ registry' = ClearLeader(batches[b].node)
  /\ UNCHANGED <<requests, main, buffer, pool, redirects, reported>>

\* No connection, no answer in time, an election: the socket is closed, the
\* leader forgotten, and the batch given up after enough attempts.
AttemptFails(b) ==
  /\ batches[b].state \in {"connect", "sent"}
  /\ batches' = IF batches[b].retries + 1 < MaxRetries
                THEN [batches EXCEPT ![b].state = "again", ![b].retries = @ + 1, ![b].node = NoNode]
                ELSE [batches EXCEPT ![b].state = "failed", ![b].retries = 0, ![b].node = NoNode]
  /\ registry' = ClearLeader(batches[b].node)
  /\ UNCHANGED <<requests, main, buffer, pool, redirects, reported>>

---------------------------------------------------------------------------

Next ==
  \/ Connect \/ TakeChunk \/ Extend \/ WriteReturns \/ Throttle
  \/ \E c \in Clusters : Route(c)
  \/ \E n \in Nodes : Submit(n) \/ Flush(n)
  \/ FlushEnds \/ FlushRaises \/ Finish
  \/ \E b \in DOMAIN batches :
       \/ Attempt(b) \/ Send(b) \/ Acknowledged(b) \/ AttemptFails(b)
       \/ \E l \in ToSet(NodesOf[batches[b].cluster]) : Redirected(b, l)

Spec == Init /\ [][Next]_vars

\* Every thread runs, and an attempt is answered or times out.
FairSpec == Spec /\ WF_vars(Next)

---------------------------------------------------------------------------
(* Properties.                                                             *)

TypeOK ==
  /\ requests \in RequestCounts /\ main \in Main
  /\ registry \in [Clusters -> Nodes \cup {NoNode}]
  /\ \A c \in Clusters : registry[c] \in ToSet(NodesOf[c]) \cup {NoNode}
  /\ buffer \in [Nodes -> Seq(1..requests)]
  /\ main.pc # "submit" => Full = {}
  /\ batches \in Seq(Batch) /\ Cardinality(Working) <= Threads
  /\ pool \in [Nodes -> Nat] /\ redirects \in 0..MaxRedirects
  /\ main.futures \cup main.flushing \cup reported \subseteq DOMAIN batches

\* The lists a record can be in, by name, and the places in them.
Lists ==
  {<<"chunk", 0>>} \cup {"routed", "buffer"} \X Nodes \cup {"batch"} \X DOMAIN batches

RecordsIn(l) ==
  CASE l[1] = "chunk"  -> main.chunk
    [] l[1] = "routed" -> main.routed[l[2]]
    [] l[1] = "buffer" -> buffer[l[2]]
    [] l[1] = "batch"  -> batches[l[2]].records

Places == UNION {{l} \X DOMAIN RecordsIn(l) : l \in Lists}

RecordAt(p) == RecordsIn(p[1])[p[2]]

\* Between the stream and the batches no record is lost or sent in two batches,
\* although leaders change while it is routed and buffers of former leaders
\* keep their records (write, flush).
RecordsAccounted ==
  /\ {RecordAt(p) : p \in Places} = 1..main.taken
  /\ \A p, q \in Places : RecordAt(p) = RecordAt(q) => p = q

\* The batches in flight are bounded: the throttle waits for one batch only,
\* but a chunk adds at most one more on the average, so what can pile up is
\* what the buffers held back.
InFlightBounded ==
  BatchSize * Cardinality(main.futures)
    <= BatchSize * MaxFutures + Cardinality(Nodes) * (BatchSize - 1) + ChunkSize

\* When the benchmark ends normally every record was in a batch that ended,
\* every failure was printed and no connection is left open.
EndsClean ==
  main.pc = "ended" =>
    /\ \A r \in 1..requests : \E b \in DOMAIN batches : r \in ToSet(batches[b].records)
    /\ \A b \in DOMAIN batches : batches[b].state = "done" \/ b \in reported
    /\ \A n \in Nodes : pool[n] = 0

\* The benchmark ends, normally or with an error, and its threads with it.
BenchEnds == <>(main.pc \in {"ended", "error"} /\ \A b \in DOMAIN batches : Ended(b))
====
