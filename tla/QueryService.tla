--------------------------- MODULE QueryService ---------------------------
(***************************************************************************)
(* The query port of a server (src/server.c): connections that pipeline    *)
(* fixed-size requests, a limit on the queries that run at once, worker     *)
(* threads that search the engine, and the event loop that sends their     *)
(* responses.                                                              *)
(*                                                                         *)
(* A callback of the event loop is one action.  Bytes are counted in       *)
(* fragments: a request arrives in ReqSize of them.  What a search finds   *)
(* is left out; see Lsmt for what an iterator covers.                      *)
(***************************************************************************)
EXTENDS Integers, Sequences, FiniteSets, FiniteSetsExt, SequencesExt

CONSTANTS
  Clients,       \* the connections peers may open
  MaxQueries,    \* GLOBAL_MAX_QUERIES
  ReqSize,       \* QUERY_REQ_SIZE, in fragments
  MaxRequests    \* bound: requests sent over one connection

ASSUME QueryConstants ==
  /\ MaxQueries \in Nat \ {0}
  /\ ReqSize \in Nat \ {0}
  /\ MaxRequests \in Nat

VARIABLES
  client,                \* each connection's client_t
  query_clients,         \* the list at query_clients_head
  active_queries_count,
  tasks,                 \* the query_task_t that exist
  writes,                \* the responses handed to uv_write, not yet completed
  listening,             \* the listening socket is open
  answered,              \* history: the requests whose response was sent
  dropped                \* history: those that ran out of memory

vars == <<client, query_clients, active_queries_count, tasks, writes,
          listening, answered, dropped>>

---------------------------------------------------------------------------

\* A client's handle is open, closing (uv_close was called: client->closing) or
\* closed.  received counts fragments, taken the requests removed from the
\* buffer.
Client == [handle : {"none", "open", "closing", "closed"}, ref_count : Int,
           received : Nat, taken : Nat, is_paused : BOOLEAN]

NoClient == [handle |-> "none", ref_count |-> 0, received |-> 0, taken |-> 0,
             is_paused |-> FALSE]

Request == Clients \X (1..MaxRequests)

Task == [req : Request, state : {"queued", "done", "no_memory"}]

\* The complete requests in a client's buffer.
Waiting(cl, c) == (cl[c].received \div ReqSize) - cl[c].taken

\* The event loop's state a callback works on.
Loop == [client |-> client, list |-> query_clients,
         active |-> active_queries_count, tasks |-> tasks]

Init ==
  /\ client = [c \in Clients |-> NoClient]
  /\ query_clients = <<>>
  /\ active_queries_count = 0
  /\ tasks = {} /\ writes = {}
  /\ listening = TRUE
  /\ answered = {} /\ dropped = {}

\* A callback ends with the event loop in state s.
Commit(s) ==
  /\ client' = s.client /\ query_clients' = s.list
  /\ active_queries_count' = s.active /\ tasks' = s.tasks

\* Mutant: a client that closes stays in the list.
CloseKeepsListed(s, c) ==
  IF s.client[c].handle # "open" THEN s
  ELSE [s EXCEPT !.client[c].handle = "closing"]

\* remove_client: the neighbours of a client in the list are linked.
RemoveClient(list, c) ==
  IF c \in ToSet(list) THEN RemoveAt(list, CHOOSE i \in DOMAIN list : list[i] = c)
  ELSE list

\* close_and_free_client, which does nothing the second time.
Close(s, c) ==
  IF s.client[c].handle # "open" THEN s
  ELSE [s EXCEPT !.client[c].handle = "closing", !.list = RemoveClient(@, c)]

ClientRetain(s, c) == [s EXCEPT !.client[c].ref_count = @ + 1]

ClientRelease(s, c) == [s EXCEPT !.client[c].ref_count = @ - 1]

\* Mutant: the limit is checked with > instead of >=.
RoomForOneMore(active) == IF active <= MaxQueries THEN MaxQueries + 1 - active ELSE 0

\* How many more queries may run.
Room(active) == IF active < MaxQueries THEN MaxQueries - active ELSE 0

\* The next n requests of c, after the first ones, as queued tasks.
Queued(c, first, n) == {[req |-> <<c, first + i>>, state |-> "queued"] : i \in 1..n}

\* dispatch_queries takes complete requests from the buffer until none is left
\* or the limit is reached; then reading is stopped.  (uv_queue_work fails only
\* without a callback.)
DispatchQueries(s, c) ==
  LET n  == Min({Waiting(s.client, c), Room(s.active)})
      cl == s.client[c]
  IN  [s EXCEPT !.client[c] = [cl EXCEPT !.taken = @ + n, !.ref_count = @ + n,
                                         !.is_paused = @ \/ n < Waiting(s.client, c)],
                !.active = @ + n,
                !.tasks = @ \cup Queued(c, cl.taken, n)]

\* Mutant: reading restarts, what is buffered is forgotten.
ResumeWithoutDispatch(s, c) ==
  IF s.client[c].is_paused /\ s.client[c].handle = "open" /\ Room(s.active) > 0
  THEN [s EXCEPT !.client[c].is_paused = FALSE]
  ELSE s

\* Mutant: reading is not restarted.
ResumeStaysPaused(s, c) ==
  IF s.client[c].is_paused /\ s.client[c].handle = "open" /\ Room(s.active) > 0
  THEN [DispatchQueries(s, c) EXCEPT !.client[c].is_paused = TRUE]
  ELSE s

\* One client of the list in after_query_cb, which stops at the limit.
Resume(s, c) ==
  IF s.client[c].is_paused /\ s.client[c].handle = "open" /\ Room(s.active) > 0
  THEN DispatchQueries([s EXCEPT !.client[c].is_paused = FALSE], c)
  ELSE s

\* All of them, from the head of the list.
ResumeAll(s) ==
  LET after[i \in 0..Len(s.list)] == IF i = 0 THEN s ELSE Resume(after[i - 1], s.list[i])
  IN  after[Len(s.list)]

---------------------------------------------------------------------------
(* The callbacks of the event loop and the workers.                        *)

\* on_read_connection: a leader takes no queries, and uv_accept may fail; the
\* new client is closed then, without having been listed.
OnReadConnection(c) ==
  /\ listening
  /\ client[c].handle = "none"
  /\ \/ Commit([Loop EXCEPT !.client[c].handle = "open",
                            !.client[c].ref_count = 1,
                            !.list = <<c>> \o @])
     \/ Commit([Loop EXCEPT !.client[c].handle = "closing",
                            !.client[c].ref_count = 1])
  /\ UNCHANGED <<writes, listening, answered, dropped>>

Reading(c) == client[c].handle = "open" /\ ~client[c].is_paused

\* on_client_query with n fragments.
OnClientQuery(c, n) ==
  /\ Reading(c)
  /\ client[c].received + n <= MaxRequests * ReqSize
  /\ Commit(DispatchQueries([Loop EXCEPT !.client[c].received = @ + n], c))
  /\ UNCHANGED <<writes, listening, answered, dropped>>

\* on_client_query with an error, the end of the stream, or no memory left for
\* the buffer.
OnClientGone(c) ==
  /\ Reading(c)
  /\ Commit(Close(Loop, c))
  /\ UNCHANGED <<writes, listening, answered, dropped>>

\* background_query_cb, on a worker thread: the response is ready, or there was
\* no memory for it.
BackgroundQuery(t) ==
  /\ t.state = "queued"
  /\ \E result \in {"done", "no_memory"} :
       tasks' = (tasks \ {t}) \cup {[t EXCEPT !.state = result]}
  /\ UNCHANGED <<client, query_clients, active_queries_count, writes,
                 listening, answered, dropped>>

\* Mutant: the write does not retain the client.
SendUnretained(s, c, queued) == IF queued THEN s ELSE Close(s, c)

\* send_response: the write holds a reference to the client; when uv_write
\* refuses it, the client is closed.
SendResponse(s, c, queued) ==
  IF queued THEN ClientRetain(s, c)
  ELSE Close(ClientRelease(ClientRetain(s, c), c), c)

\* Mutant: a query whose client is gone keeps its place.
FinishUnlessClosed(s, t) ==
  [s EXCEPT !.active = IF s.client[t.req[1]].handle = "open" THEN @ - 1 ELSE @,
            !.tasks = @ \ {t}]

\* The query no longer counts.
Finish(s, t) == [s EXCEPT !.active = @ - 1, !.tasks = @ \ {t}]

\* after_query_cb: send the response, unless the client is closing; then let
\* the paused clients go on, in the order of the list.
AfterQuery(t) ==
  LET c        == t.req[1]
      sendable == client[c].handle = "open" /\ t.state = "done"
  IN  /\ t.state # "queued"
      /\ \E queued \in IF sendable THEN BOOLEAN ELSE {FALSE} :
           LET s == Finish(IF sendable THEN SendResponse(Loop, c, queued) ELSE Loop, t)
           IN  /\ Commit(ClientRelease(ResumeAll(s), c))
               /\ writes' = IF queued THEN writes \cup {t.req} ELSE writes
               /\ answered' = IF queued THEN answered \cup {t.req} ELSE answered
      /\ dropped' = IF t.state = "no_memory" THEN dropped \cup {t.req} ELSE dropped
      /\ UNCHANGED listening

\* on_query_resp_complete; uv_close makes pending writes fail.
OnQueryRespComplete(w) ==
  /\ \/ client[w[1]].handle = "open" /\ Commit(ClientRelease(Loop, w[1]))
     \/ Commit(ClientRelease(Close(Loop, w[1]), w[1]))
  /\ writes' = writes \ {w}
  /\ UNCHANGED <<listening, answered, dropped>>

\* on_client_close, after the callbacks of the handle's writes.
OnClientClose(c) ==
  /\ client[c].handle = "closing"
  /\ \A w \in writes : w[1] # c
  /\ Commit(ClientRelease([Loop EXCEPT !.client[c].handle = "closed"], c))
  /\ UNCHANGED <<writes, listening, answered, dropped>>

\* ServerClose, as far as the query port goes: the socket is closed, and the
\* head of the list until the list is empty.
ServerClose ==
  /\ listening
  /\ listening' = FALSE
  /\ client' = [c \in Clients |-> IF c \in ToSet(query_clients)
                                  THEN [client[c] EXCEPT !.handle = "closing"]
                                  ELSE client[c]]
  /\ query_clients' = <<>>
  /\ UNCHANGED <<active_queries_count, tasks, writes, answered, dropped>>

\* Every connection is closed and nothing is left to do.
Stopped ==
  /\ tasks = {} /\ writes = {}
  /\ \A c \in Clients : client[c].handle \in {"closed", "none"}
  /\ UNCHANGED vars

Next ==
  \/ \E c \in Clients :
       \/ OnReadConnection(c) \/ OnClientGone(c) \/ OnClientClose(c)
       \/ \E n \in 1..(MaxRequests * ReqSize) : OnClientQuery(c, n)
  \/ \E t \in tasks : BackgroundQuery(t) \/ AfterQuery(t)
  \/ \E w \in writes : OnQueryRespComplete(w)
  \/ ServerClose
  \/ Stopped

\* The workers take every queued query, the event loop runs every callback that
\* is due.  A peer need not read what it is sent: no write need complete.
Fairness ==
  \A r \in Request :
    /\ WF_vars(\E t \in tasks : t.req = r /\ BackgroundQuery(t))
    /\ WF_vars(\E t \in tasks : t.req = r /\ AfterQuery(t))

Spec == Init /\ [][Next]_vars

FairSpec == Spec /\ Fairness

---------------------------------------------------------------------------
(* Properties.                                                             *)

\* Every variable has its type, and no more queries run than GLOBAL_MAX_QUERIES.
TypeOK ==
  /\ client \in [Clients -> Client]
  /\ query_clients \in Seq(Clients)
  /\ active_queries_count \in 0..MaxQueries
  /\ tasks \subseteq Task
  /\ writes \cup answered \cup dropped \subseteq Request
  /\ listening \in BOOLEAN

Of(c, S) == {r \in S : r[1] = c}

\* The references to a client are exactly its open handle, its queries and its
\* pending responses: it is never freed while a worker or a write uses it, and
\* always freed in the end.
RefCountExact ==
  \A c \in Clients :
    client[c].ref_count = (IF client[c].handle \in {"open", "closing"} THEN 1 ELSE 0)
                          + Cardinality({t \in tasks : t.req[1] = c})
                          + Cardinality(Of(c, writes))

\* The count of active queries is the number of queries in progress, whatever
\* happens to their clients: no place under the limit is lost.
ActiveCountExact == active_queries_count = Cardinality(tasks)

\* The list holds exactly the open clients, each once, so that none is missed
\* when clients are resumed or the server closes.
ListExact ==
  /\ IsInjective(query_clients)
  /\ ToSet(query_clients) = {c \in Clients : client[c].handle = "open"}

\* A client is paused only while all places are taken, so a query will end and
\* resume it; a client that is not paused has no complete request waiting.
PausedOnlyWhenFull ==
  \A c \in Clients : client[c].handle = "open" =>
    IF client[c].is_paused THEN active_queries_count = MaxQueries
                           ELSE Waiting(client, c) = 0

\* Every request that arrived is answered, unless its connection is closed or
\* there was no memory for the response: a paused client is always resumed.
EveryQueryAnswered ==
  \A r \in Request :
    (client[r[1]].handle = "open" /\ client[r[1]].received >= r[2] * ReqSize)
    ~> (r \in answered \cup dropped \/ client[r[1]].handle # "open")
====
