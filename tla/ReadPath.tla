------------------------------ MODULE ReadPath ------------------------------
(***************************************************************************)
(* A client's read (client/dbclient.py, read) under range routing          *)
(* (client/routing_strats.py): the query goes to every cluster whose part   *)
(* of the key space it overlaps, each answers with a page of records, and   *)
(* as long as a page was cut short the client asks for the next.           *)
(*                                                                         *)
(* A key is an id and a timestamp, ordered by id first.  A server answers   *)
(* with what an iterator finds (background_query_cb); all nodes of a        *)
(* cluster hold the same records, so which node answers is left out.       *)
(* Records go on being inserted during the read.                           *)
(***************************************************************************)
EXTENDS Integers

CONSTANTS
  NumClusters,   \* clusters, numbered from 0 in the order of their names
  MaxKeyspace,   \* RangeRoutingStrategy.max_keyspace
  Ids,           \* the ids of records and queries
  Timestamps     \* their timestamps

ASSUME ReadConstants ==
  /\ NumClusters \in Nat \ {0}
  /\ MaxKeyspace \in Nat \ {0}
  /\ Ids \subseteq Nat
  /\ Timestamps \subseteq Nat

VARIABLES
  stored,    \* the records of the database
  before,    \* history: those it held when the read began
  query,     \* the QueryRequest
  futures,   \* each cluster's query, page after page
  records,   \* the records each cluster has returned
  outcome    \* of the read

vars == <<stored, before, query, futures, records, outcome>>

---------------------------------------------------------------------------
(* Routing.                                                                *)

Clusters == 0..(NumClusters - 1)

Key == [id : Ids, ts : Timestamps]

\* math.ceil(max_keyspace / num_clusters).
ChunkSize == (MaxKeyspace + NumClusters - 1) \div NumClusters

\* The part of the key space an id is in; ids start at 1.
Chunk(id) == (IF id = 0 THEN 0 ELSE id - 1) \div ChunkSize

\* get_node_insert: the cluster a record goes to; the last part has no end.
InsertCluster(id) == IF Chunk(id) < NumClusters THEN Chunk(id) ELSE NumClusters - 1

\* Mutant: the bounds of the parts as if ids started at 0.
OverlapsFromZero(q, idx) ==
  /\ idx = NumClusters - 1 \/ q.min.id <= (idx + 1) * ChunkSize - 1
  /\ idx = 0 \/ q.max.id >= idx * ChunkSize

\* get_node_query, for one cluster; the first and the last are open-ended.
Overlaps(q, idx) ==
  /\ idx = NumClusters - 1 \/ q.min.id <= (idx + 1) * ChunkSize
  /\ idx = 0 \/ q.max.id >= idx * ChunkSize + 1

---------------------------------------------------------------------------
(* Pages.                                                                  *)

\* key_compare: a comes before b, or is b.
Leq(a, b) == a.id < b.id \/ (a.id = b.id /\ a.ts <= b.ts)

InRange(k, from, to) == Leq(from, k) /\ Leq(k, to)

\* What a server of a cluster finds.
Matching(c, from, to) ==
  {k \in stored : InsertCluster(k.id) = c /\ InRange(k, from, to)}

\* background_query_cb: the records up to some last one, when the bytes or the
\* time run out or there are no more; or none, if there are none or the request
\* was too long in the queue.  max_id is the id of the last record, 1 without one.
Responses(c, from, to) ==
  LET found      == Matching(c, from, to)
      UpTo(last) == {k \in found : Leq(k, last)}
  IN  {[records |-> {}, limit_reached |-> l, max_id |-> 1] :
         l \in {b \in BOOLEAN : b \/ found = {}}}
      \cup {[records |-> UpTo(x.last), limit_reached |-> x.limit, max_id |-> x.last.id] :
              x \in {y \in [last : found, limit : BOOLEAN] : y.limit \/ UpTo(y.last) = found}}

NotAsked == [state |-> "none", from |-> [id |-> 0, ts |-> 0], max_id |-> 0]

Future == [state : {"none", "asked", "done"}, from : [id : Nat, ts : Nat], max_id : Nat]

Init ==
  /\ stored = {} /\ before = {}
  /\ query \in [min : Key, max : Key]
  /\ futures = [c \in Clusters |-> NotAsked]
  /\ records = [c \in Clusters |-> {}]
  /\ outcome = "idle"

\* read: a future for every cluster the query is routed to.
Read ==
  /\ outcome = "idle"
  /\ outcome' = "running"
  /\ before' = stored
  /\ futures' = [c \in Clusters |->
                   IF Overlaps(query, c)
                   THEN [state |-> "asked", from |-> query.min, max_id |-> query.min.id]
                   ELSE NotAsked]
  /\ UNCHANGED <<stored, query, records>>

\* Mutant: the next page starts with the last id of this one.
NextPageSameId(max_id) == [state |-> "asked", from |-> [id |-> max_id, ts |-> 0], max_id |-> max_id]

\* Mutant: the next page leaves out one id.
NextPageSkips(max_id) == [state |-> "asked", from |-> [id |-> max_id + 2, ts |-> 0], max_id |-> max_id]

\* The query for the page after one that ended with max_id.
NextPage(max_id) == [state |-> "asked", from |-> [id |-> max_id + 1, ts |-> 0], max_id |-> max_id]

\* No further page is asked for.
LastPage(from, max_id) == [state |-> "done", from |-> from, max_id |-> max_id]

\* A response the client refuses: it was cut short with no record, or before
\* what was read already.
Invalid(c, response) ==
  /\ response.limit_reached
  /\ response.records = {} \/ response.max_id < futures[c].max_id

\* There is more to ask for.
Continues(response) == response.limit_reached /\ response.max_id < query.max.id

\* A page arrives; the next is asked for unless this was the last.
PageArrives(c) ==
  /\ outcome = "running" /\ futures[c].state = "asked"
  /\ \E response \in Responses(c, futures[c].from, query.max) :
       /\ ~Invalid(c, response)
       /\ records' = [records EXCEPT ![c] = @ \cup response.records]
       /\ futures' = [futures EXCEPT ![c] =
                        IF Continues(response) THEN NextPage(response.max_id)
                        ELSE LastPage(futures[c].from, response.max_id)]
  /\ UNCHANGED <<stored, before, query, outcome>>

\* A page is refused, or no node of the cluster answers: the other queries are
\* cancelled and the read fails.
PageFails(c) ==
  /\ outcome = "running" /\ futures[c].state = "asked"
  /\ outcome' = "raised"
  /\ UNCHANGED <<stored, before, query, futures, records>>

\* Mutant: the read waits for the clusters it did not ask, too.
ReturnWhenAllDone ==
  /\ outcome = "running"
  /\ \A c \in Clusters : futures[c].state = "done"
  /\ outcome' = "returned"
  /\ UNCHANGED <<stored, before, query, futures, records>>

\* Nothing is outstanding.
Return ==
  /\ outcome = "running"
  /\ \A c \in Clusters : futures[c].state # "asked"
  /\ outcome' = "returned"
  /\ UNCHANGED <<stored, before, query, futures, records>>

\* A record is inserted; sl_insert refuses the reserved id 0.
Insert(k) ==
  /\ k.id # 0 /\ k \notin stored
  /\ stored' = stored \cup {k}
  /\ UNCHANGED <<before, query, futures, records, outcome>>

\* The read is over.
Over == outcome \in {"returned", "raised"} /\ UNCHANGED vars

Next ==
  \/ Read \/ Return \/ Over
  \/ \E c \in Clusters : PageArrives(c) \/ PageFails(c)
  \/ \E k \in Key : Insert(k)

\* A query ends at the latest with a timeout, and the aggregating thread looks
\* at every future that is done.
Fairness ==
  /\ WF_vars(Return)
  /\ \A c \in Clusters : WF_vars(PageArrives(c) \/ PageFails(c))

Spec == Init /\ [][Next]_vars

FairSpec == Spec /\ Fairness

---------------------------------------------------------------------------
(* Properties.                                                             *)

\* Every variable has its type.
TypeOK ==
  /\ stored \subseteq Key /\ before \subseteq Key
  /\ query \in [min : Key, max : Key]
  /\ futures \in [Clusters -> Future]
  /\ records \in [Clusters -> SUBSET Key]
  /\ outcome \in {"idle", "running", "returned", "raised"}

\* Routing of reads and writes agrees: a record in the range of the query is in
\* a cluster that was asked.
NothingUnasked ==
  outcome # "idle" =>
    \A k \in stored : InRange(k, query.min, query.max) =>
      futures[InsertCluster(k.id)].state # "none"

\* A page starts after everything its cluster has returned: no record is
\* returned twice, although records are inserted between two pages.
PagesDoNotOverlap ==
  \A c \in Clusters : futures[c].state = "asked" =>
    \A k \in records[c] : ~Leq(futures[c].from, k)

Expected == {k \in before : InRange(k, query.min, query.max)}

Returned == UNION {records[c] : c \in Clusters}

\* A read that returns has every record in its range that was there when it
\* began, except later ones of an id whose records a page ended within.
OnlyTiesAreMissed ==
  outcome = "returned" =>
    \A k \in Expected \ Returned : \E j \in Returned : j.id = k.id /\ j.ts < k.ts

\* Every read ends: pages always move on, and none is waited for in vain.
ReadEnds == outcome = "running" ~> outcome \in {"returned", "raised"}

\* server.c:506 "The response returns the fetched records, a flag indicating
\* whether the byte limit has been reached and the last fetched key": continued
\* after the last key fetched, a read returns every record in its range.
ReadComplete == outcome = "returned" => Expected \subseteq Returned
====
