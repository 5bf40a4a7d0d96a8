----------------------------- MODULE BatchRead -----------------------------
(***************************************************************************)
(* Batched reads (client/dbclient.py, read_batch) as read_benchmark.py     *)
(* makes them.  The queries of a batch are spread over the nodes of a       *)
(* cluster, the queries for one node are sent over one socket at once, an   *)
(* aggregator collects the answers and asks for the next page of those      *)
(* that were cut short.  I/O threads share the sockets of a node; a call    *)
(* that fails closes its socket and goes to the next node.                  *)
(*                                                                         *)
(* One cluster is modelled: the clusters of a batch share nothing but its   *)
(* aggregator.  Each query has ids of its own, 1..Width, one record each,   *)
(* that all nodes hold; what a page cut within an id loses is ReadPath's.   *)
(***************************************************************************)
EXTENDS Integers, Sequences, FiniteSets, SequencesExt

CONSTANTS
  NumNodes,     \* nodes of the cluster, in the order of the configuration
  Args,         \* the benchmark's arguments: --requests and --batch-size
  Width,        \* ids of a query
  Threads,      \* config.thread_pool_size
  MaxPending,   \* the benchmark's max_pending_futures
  MaxFaults     \* bound: timeouts, lost connections, requests a server was too busy for

ASSUME BatchConstants ==
  /\ NumNodes \in Nat \ {0} /\ Width \in Nat \ {0}
  /\ Args \subseteq [requests : Nat \ {0}, batch_size : Nat \ {0}]
  /\ Threads \in Nat /\ Threads >= 2   \* half of them aggregate: no pool is empty
  /\ MaxPending \in Nat /\ MaxFaults \in Nat

VARIABLES
  args,       \* the arguments of this run
  registry,   \* the leader the LeaderRegistry names: the one connect found
  index,      \* _query_indices: whose turn the round robin says it is
  main,       \* the thread that runs bench
  calls,      \* the calls submitted to io_pool, in order
  pool,       \* _socket_pools: each node's idle sockets
  agg,        \* each batch's _aggregate
  faults      \* how many faults there were

ioVars == <<calls, pool, faults>>
vars   == <<args, registry, index, main, calls, pool, agg, faults>>

---------------------------------------------------------------------------

Nodes  == 1..NumNodes
NoNode == 0

\* The queries of the stream that make up batch b; the last may be short.
NumBatches == (args.requests + args.batch_size - 1) \div args.batch_size
Batch(b)   == {q \in 1..args.requests : (q - 1) \div args.batch_size = b - 1}

\* A request id is drawn from a counter for each page of each query, and stands
\* for them: no page is asked for twice.
Request  == [query : 1..args.requests, from : 1..Width]
Response == [req : Request, records : SUBSET ((1..args.requests) \X (1..Width)),
             limit : BOOLEAN, max_id : 1..Width]

\* A connection: the requests sent whose answers were not read, and whether
\* the server has closed it.
Socket == [owed : SUBSET Request, eof : BOOLEAN]
Fresh  == [owed |-> {}, eof |-> FALSE]

\* A call of _query_batch_single_node (slot 0), or of _query_single_node for
\* the next page of the answer in that slot; node is the one asked first, at
\* the end the one that answered, nodes are those still to be tried.
Call == [batch : 1..NumBatches, slot : Nat, node : Nodes, requests : Seq(Request),
         state : {"queued", "connect", "recv", "done", "failed", "cancelled"},
         nodes : Seq(Nodes), sock : Socket, got : Seq(Response)]

NewCall(b, slot, n, requests) ==
  [batch |-> b, slot |-> slot, node |-> n, requests |-> requests,
   state |-> "queued", nodes |-> <<>>, sock |-> Fresh, got |-> <<>>]

\* _aggregate: the futures it waits for, those of the last wait it has not
\* looked at, the answers it is going through and those it has by node (none:
\* <<>>).
Aggregator == [pc : {"none", "running", "returned", "raised"},
               active : SUBSET Nat, done : SUBSET Nat, at : Nat, sub : Nat,
               acc : [Nodes -> Seq(Response)]]

NoAggregator ==
  [pc |-> "none", active |-> {}, done |-> {}, at |-> 0, sub |-> 0,
   acc |-> [n \in Nodes |-> <<>>]]

Init ==
  /\ args \in Args
  /\ registry \in Nodes \cup {NoNode}
  /\ index = 0
  /\ main = [pc |-> "read", batch |-> 1, futures |-> {}]
  /\ calls = <<>>
  /\ pool = [n \in Nodes |-> <<>>]
  /\ agg = [b \in 1..NumBatches |-> NoAggregator]
  /\ faults = 0

---------------------------------------------------------------------------
(* The benchmark's main thread: read_batch, backpressure, the end.          *)

\* The elements of a set of numbers in their order.
Ascending(S) ==
  CHOOSE s \in [1..Cardinality(S) -> S] : \A i, j \in DOMAIN s : i < j => s[i] < s[j]

Followers == Ascending(Nodes \ {registry})

\* _select_follower_round_robin.
Selected(turn) == IF Followers = <<>> THEN registry ELSE Followers[(turn % Len(Followers)) + 1]

\* get_node_query for the i-th query of a batch: the turn goes on with each.
Routed(i) == Selected(index + i - 1)

\* The positions in batch b of the queries that go to node n, in order.
PositionsFor(n, b) == Ascending({i \in 1..Cardinality(Batch(b)) : Routed(i) = n})

\* Requests for their first pages.
FirstPages(n, b) ==
  [j \in DOMAIN PositionsFor(n, b) |->
     [query |-> (b - 1) * args.batch_size + PositionsFor(n, b)[j], from |-> 1]]

\* read_batch: one call per node, in the order in which the nodes were first
\* routed to, and the aggregator; then backpressure if there are too many, but
\* not after what the stream left over.
ReadBatch ==
  LET b     == main.batch
      count == Cardinality(Batch(b))
      first == Ascending({i \in 1..count : \A h \in 1..(i - 1) : Routed(h) # Routed(i)})
  IN
  /\ main.pc = "read"
  /\ index' = IF Followers = <<>> THEN index ELSE (index + count) % Len(Followers)
  /\ calls' = calls \o [j \in DOMAIN first |->
                          NewCall(b, 0, Routed(first[j]), FirstPages(Routed(first[j]), b))]
  /\ agg' = [agg EXCEPT ![b].pc = "running",
                        ![b].active = (Len(calls) + 1)..(Len(calls) + Len(first))]
  /\ main' = [pc |-> IF count = args.batch_size /\ Cardinality(main.futures) + 1 > MaxPending
                     THEN "throttle" ELSE IF b < NumBatches THEN "read" ELSE "wait",
              batch |-> b + 1, futures |-> main.futures \cup {b}]
  /\ UNCHANGED <<args, registry, pool, faults>>

Ended(b) == agg[b].pc \in {"returned", "raised"}

\* Too many batches are under way: wait for one, forget those that ended.
Throttle ==
  /\ main.pc = "throttle"
  /\ \E b \in main.futures : Ended(b)
  /\ main' = [main EXCEPT !.futures = {b \in @ : ~Ended(b)},
                          !.pc = IF main.batch <= NumBatches THEN "read" ELSE "wait"]
  /\ UNCHANGED <<args, registry, index, agg, ioVars>>

\* Mutant: the last batches are not waited for.
DisconnectAtOnce ==
  /\ main.pc = "wait"
  /\ main' = [main EXCEPT !.pc = "ended", !.futures = {}]
  /\ pool' = [n \in Nodes |-> <<>>]
  /\ UNCHANGED <<args, registry, index, calls, agg, faults>>

\* Wait for the rest, then disconnect: the idle sockets are closed.
Disconnect ==
  /\ main.pc = "wait"
  /\ \A b \in main.futures : Ended(b)
  /\ main' = [main EXCEPT !.pc = "ended", !.futures = {}]
  /\ pool' = [n \in Nodes |-> <<>>]
  /\ UNCHANGED <<args, registry, index, calls, agg, faults>>

---------------------------------------------------------------------------
(* The I/O threads.                                                        *)

Running == {k \in DOMAIN calls : calls[k].state \in {"connect", "recv"}}

\* PrioritizedItem.__lt__: pages have priority -1, batches 0.
Before(j, k) ==
  \/ calls[j].slot # 0 /\ calls[k].slot = 0
  \/ (calls[j].slot # 0 <=> calls[k].slot # 0) /\ j < k

\* The node asked first, then the others, the leader last.
Preferred(n) ==
  <<n>> \o Ascending(Nodes \ {registry, n})
        \o (IF registry \in Nodes \ {n} THEN <<registry>> ELSE <<>>)

\* Mutant: one pool for both; an aggregator takes a thread once the calls
\* submitted before it have theirs.
BusyWithAggregators ==
  Cardinality(Running) + Cardinality({b \in 1..NumBatches : agg[b].pc = "running" /\
    \A k \in DOMAIN calls : calls[k].batch = b /\ calls[k].slot = 0 => calls[k].state # "queued"})

\* The threads of io_pool that are occupied.
Busy == Cardinality(Running)

Start(k) ==
  /\ calls[k].state = "queued"
  /\ Busy < Threads
  /\ \A j \in DOMAIN calls \ {k} : calls[j].state = "queued" => Before(k, j)
  /\ calls' = [calls EXCEPT ![k].state = "connect", ![k].nodes = Preferred(calls[k].node)]
  /\ UNCHANGED <<args, registry, index, main, agg, pool, faults>>

\* _get_socket and sendall.  The idle sockets that are seen to be readable,
\* at the latest when the byte or the end has arrived, are closed; without a
\* socket left a new connection is opened.
Connect(k) ==
  LET n == Head(calls[k].nodes) IN
  /\ calls[k].state = "connect"
  /\ \E i \in 1..(Len(pool[n]) + 1) :
       /\ \A j \in 1..(i - 1) : pool[n][j] # Fresh
       /\ pool' = [pool EXCEPT ![n] = SubSeq(@, i + 1, Len(@))]
       /\ LET sock == IF i <= Len(pool[n]) THEN pool[n][i] ELSE Fresh
          IN  calls' = [calls EXCEPT ![k].state = "recv",
                          ![k].sock = [sock EXCEPT !.owed = sock.owed \cup ToSet(calls[k].requests)]]
  /\ UNCHANGED <<args, registry, index, main, agg, faults>>

\* background_query_cb: the records up to some last one, all of them or cut
\* short by bytes or time; or none, when the request was too long in the queue.
Pages(r)     == {[req |-> r, records |-> {r.query} \X (r.from..x.last),
                  limit |-> x.limit, max_id |-> x.last] :
                   x \in {y \in [last : r.from..Width, limit : BOOLEAN] : y.limit \/ y.last = Width}}
Saturated(r) == [req |-> r, records |-> {}, limit |-> TRUE, max_id |-> 1]

\* Mutant: the answers stay in the order in which they came.
Unordered(requests, got) == got

\* The answers in the order of the requests.
Ordered(requests, got) ==
  [i \in DOMAIN requests |-> CHOOSE p \in ToSet(got) : p.req = requests[i]]

\* The attempt failed: its socket is closed and the next node is tried.
Failed(call) ==
  [call EXCEPT !.sock = Fresh, !.got = <<>>, !.nodes = Tail(call.nodes),
               !.state = IF Len(call.nodes) > 1 THEN "connect" ELSE "failed"]

\* The next answer arrives, of those the server owes in whatever order.
Receive(k, r, response) ==
  LET call  == calls[k]
      n     == Head(call.nodes)
      got   == Append(call.got, response)
      sock  == [call.sock EXCEPT !.owed = call.sock.owed \ {r}]
  IN
  /\ call.state = "recv" /\ ~call.sock.eof
  /\ response = Saturated(r) => faults < MaxFaults
  /\ faults' = IF response = Saturated(r) THEN faults + 1 ELSE faults
  /\ IF r \notin ToSet(call.requests)
     THEN /\ calls' = [calls EXCEPT ![k] = Failed(call)]
          /\ UNCHANGED pool
     ELSE IF Len(got) < Len(call.requests)
     THEN /\ calls' = [calls EXCEPT ![k].got = got, ![k].sock = sock]
          /\ UNCHANGED pool
     ELSE /\ calls' = [calls EXCEPT ![k].state = "done", ![k].sock = Fresh, ![k].nodes = <<>>,
                         ![k].node = IF call.slot = 0 THEN n ELSE call.node,
                         ![k].got = Ordered(call.requests, got)]
          /\ pool' = [pool EXCEPT ![n] = Append(@, sock)]
  /\ UNCHANGED <<args, registry, index, main, agg>>

\* Mutant: the socket of the failed attempt is kept.
CallFailsKeepsSocket(k) ==
  /\ k \in Running
  /\ calls[k].sock.eof \/ faults < MaxFaults
  /\ faults' = IF calls[k].sock.eof THEN faults ELSE faults + 1
  /\ calls' = [calls EXCEPT ![k] = Failed(calls[k])]
  /\ pool' = [pool EXCEPT ![Head(calls[k].nodes)] = Append(@, calls[k].sock)]
  /\ UNCHANGED <<args, registry, index, main, agg>>

\* No connection, no answer in time, or the server closed the connection.
CallFails(k) ==
  /\ k \in Running
  /\ calls[k].sock.eof \/ faults < MaxFaults
  /\ faults' = IF calls[k].sock.eof THEN faults ELSE faults + 1
  /\ calls' = [calls EXCEPT ![k] = Failed(calls[k])]
  /\ UNCHANGED <<args, registry, index, main, agg, pool>>

\* A server closes an idle connection.
ServerCloses(n, i) ==
  /\ faults < MaxFaults /\ ~pool[n][i].eof
  /\ faults' = faults + 1
  /\ pool' = [pool EXCEPT ![n][i].eof = TRUE]
  /\ UNCHANGED <<args, registry, index, main, agg, calls>>

---------------------------------------------------------------------------
(* The aggregators.                                                        *)

Finished(k) == calls[k].state \in {"done", "failed"}

Idle(b) == agg[b].pc = "running" /\ agg[b].done = {} /\ agg[b].at = 0

\* aggregator_pool has half as many threads as io_pool, taken in turn.
HasThread(b) == Cardinality({c \in 1..(b - 1) : ~Ended(c)}) < Threads \div 2

\* wait(active_futures, return_when=FIRST_COMPLETED).
Wait(b) ==
  LET ended == {k \in agg[b].active : Finished(k)} IN
  /\ Idle(b) /\ HasThread(b) /\ ended # {}
  /\ agg' = [agg EXCEPT ![b].done = ended, ![b].active = @ \ ended]
  /\ UNCHANGED <<args, registry, index, main, ioVars>>

\* An exception: the calls no thread has taken are cancelled, the others go on.
Raise(b) ==
  /\ agg' = [agg EXCEPT ![b].pc = "raised", ![b].active = {}, ![b].done = {}, ![b].at = 0]
  /\ calls' = [k \in DOMAIN calls |->
                 IF k \in agg[b].active /\ calls[k].state = "queued"
                 THEN [calls[k] EXCEPT !.state = "cancelled"] ELSE calls[k]]

\* With a as the aggregator's new state, ask for the page after response, which
\* answers query q for the given node and slot, unless it was the last.
Continue(b, a, response, n, slot, q) ==
  IF response.limit /\ response.max_id < Width
  THEN /\ calls' = Append(calls, NewCall(b, slot, n,
                     <<[query |-> q, from |-> response.max_id + 1]>>))
       /\ agg' = [agg EXCEPT ![b] = [a EXCEPT !.active = a.active \cup {Len(calls) + 1}]]
  ELSE /\ agg' = [agg EXCEPT ![b] = a]
       /\ UNCHANGED calls

\* A call that failed raises its exception in the aggregator.
TakeFailed(b, k) ==
  /\ agg[b].at = 0 /\ k \in agg[b].done /\ calls[k].state = "failed"
  /\ Raise(b)
  /\ UNCHANGED <<args, registry, index, main, pool, faults>>

\* The first pages of a node: they become what it has answered.
TakeFirst(b, k) ==
  /\ agg[b].at = 0 /\ k \in agg[b].done /\ calls[k].state = "done" /\ calls[k].slot = 0
  /\ agg' = [agg EXCEPT ![b].acc[calls[k].node] = calls[k].got,
                        ![b].at = k, ![b].sub = 1, ![b].done = @ \ {k}]
  /\ UNCHANGED <<args, registry, index, main, ioVars>>

\* One of them is looked at.
LookAt(b) ==
  LET a        == agg[b]
      call     == calls[a.at]
      response == call.got[a.sub]
      request  == call.requests[a.sub]
      last     == a.sub = Len(call.got)
  IN
  /\ a.at # 0
  /\ IF response.limit /\ (response.records = {} \/ response.max_id < request.from)
     THEN Raise(b)
     ELSE Continue(b, [a EXCEPT !.at = IF last THEN 0 ELSE a.at,
                                !.sub = IF last THEN 0 ELSE a.sub + 1],
                   response, call.node, a.sub, request.query)
  /\ UNCHANGED <<args, registry, index, main, pool, faults>>

\* An answer with a page that continues it.
Joined(answer, response) ==
  [answer EXCEPT !.records = answer.records \cup response.records,
                 !.limit = response.limit, !.max_id = response.max_id]

\* A further page, added to the answer it continues.
TakePage(b, k) ==
  LET a        == agg[b]
      call     == calls[k]
      response == call.got[1]
      request  == call.requests[1]
      answers  == a.acc[call.node]
  IN
  /\ a.at = 0 /\ k \in a.done /\ call.state = "done" /\ call.slot # 0
  /\ IF \/ response.limit /\ response.records = {}
        \/ call.slot > Len(answers)
        \/ response.limit /\ response.max_id < answers[call.slot].max_id
     THEN Raise(b)
     ELSE Continue(b, [a EXCEPT !.done = a.done \ {k},
                                !.acc[call.node][call.slot] = Joined(answers[call.slot], response)],
                   response, call.node, call.slot, request.query)
  /\ UNCHANGED <<args, registry, index, main, pool, faults>>

\* The result of the batch.
Return(b) ==
  /\ Idle(b) /\ agg[b].active = {}
  /\ agg' = [agg EXCEPT ![b].pc = "returned"]
  /\ UNCHANGED <<args, registry, index, main, ioVars>>

---------------------------------------------------------------------------

ProgramStep ==
  \/ ReadBatch \/ Throttle \/ Disconnect
  \/ \E k \in DOMAIN calls :
       \/ Start(k) \/ Connect(k) \/ CallFails(k)
       \/ \E r \in calls[k].sock.owed :
            \E response \in Pages(r) \cup {Saturated(r)} : Receive(k, r, response)
  \/ \E b \in 1..NumBatches :
       \/ Wait(b) \/ LookAt(b) \/ Return(b)
       \/ \E k \in agg[b].done : TakeFailed(b, k) \/ TakeFirst(b, k) \/ TakePage(b, k)

Next ==
  \/ ProgramStep
  \/ \E n \in Nodes : \E i \in DOMAIN pool[n] : ServerCloses(n, i)

Spec == Init /\ [][Next]_vars

---------------------------------------------------------------------------
(* Properties.                                                             *)

TypeOK ==
  /\ args \in Args /\ registry \in Nodes \cup {NoNode} /\ index \in 0..(NumNodes - 1)
  /\ main \in [pc : {"read", "throttle", "wait", "ended"}, batch : 1..(NumBatches + 1),
               futures : SUBSET (1..NumBatches)]
  /\ calls \in Seq(Call) /\ Busy <= Threads
  /\ pool \in [Nodes -> Seq(Socket)]
  /\ agg \in [1..NumBatches -> Aggregator]
  /\ faults \in 0..MaxFaults

\* A call only ever waits for answers to requests it sent itself, over however
\* many calls a socket was used and whatever failed in between (_get_socket,
\* _return_socket): the check of req_id never fails.
NoDesync ==
  \A k \in Running : calls[k].sock.owed \subseteq ToSet(calls[k].requests)

\* Two of a batch's calls were answered by one node, one of them after a
\* failover: the first answer is overwritten (node_to_accumulated[n]).
Overwritten(b) ==
  \E j, k \in DOMAIN calls :
    /\ j # k /\ calls[j].batch = b /\ calls[k].batch = b
    /\ calls[j].slot = 0 /\ calls[k].slot = 0
    /\ calls[j].state = "done" /\ calls[k].state = "done" /\ calls[j].node = calls[k].node

\* A batch that returns holds every record of every query, in the answer to
\* that query, unless an answer was overwritten.
ReturnsAllUnlessOverwritten ==
  \A b \in 1..NumBatches : agg[b].pc = "returned" =>
    \/ Overwritten(b)
    \/ \A k \in DOMAIN calls : calls[k].batch = b /\ calls[k].slot = 0 =>
         \A i \in DOMAIN calls[k].requests :
           LET r == calls[k].requests[i]
               p == agg[b].acc[calls[k].node][i]
           IN  p.req = r /\ p.records = {r.query} \X (1..Width)

\* The calls that ended in a batch that raised.
Outlived == {k \in DOMAIN calls : calls[k].state = "done" /\ agg[calls[k].batch].pc = "raised"}

\* Whatever is under way after disconnect belongs to a batch that raised, and for
\* each call such a batch left behind at most one socket goes back to a node's pool
\* that nobody will close: batches that returned leave neither calls nor sockets.
ClosedAtEnd ==
  main.pc = "ended" =>
    /\ \A k \in Running : agg[calls[k].batch].pc = "raised"
    /\ \A n \in Nodes : Len(pool[n]) <= Cardinality(Outlived)

\* Until the benchmark has ended some thread can go on: the aggregators wait
\* for calls, the main thread for aggregators, and no call waits for a thread
\* that one of them occupies (the two pools of DbClient.__init__).
NeverStuck == (main.pc = "ended" /\ Running = {}) \/ ENABLED ProgramStep
====
