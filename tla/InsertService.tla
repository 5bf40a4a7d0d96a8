--------------------------- MODULE InsertService ---------------------------
(***************************************************************************)
(* The insert port of the servers of one Raft cluster (src/server.c): a    *)
(* connection's messages are gathered in batches, a batch is one Raft      *)
(* entry, and when the entry is applied one byte per message is sent back. *)
(* A server that is not the leader redirects the peer and closes.  Reading *)
(* stops while the storage engine has too many immutable memtables.        *)
(*                                                                         *)
(* A callback of an event loop is one action.  The Raft library is         *)
(* external: entries proposed by a leader are applied in their order or    *)
(* lost when another leader is elected; a leader that is deposed reports a *)
(* failure for every entry it has not seen applied, lost or not.           *)
(*                                                                         *)
(* Messages are numbered as the peer sends them and arrive in two          *)
(* fragments, so a read may end in the middle of one.                      *)
(***************************************************************************)
EXTENDS Integers, Sequences, FiniteSets, FiniteSetsExt, SequencesExt

CONSTANTS
  Nodes,         \* the servers of the cluster
  NoNode,        \* no leader
  Conns,         \* the connections peers may open
  BatchSize,     \* BATCH_SIZE
  PauseAt,       \* immutable memtables at which reading stops (24)
  ResumeBelow,   \* and below which it goes on (12)
  MaxImmutables, \* MAX_IMMUTABLES
  Rejected,      \* messages whose length is too small or too large
  MaxMessages,   \* bound: messages sent over one connection
  MaxElections   \* bound: elections after the first

ASSUME InsertConstants ==
  /\ NoNode \notin Nodes
  /\ BatchSize \in Nat \ {0}
  /\ ResumeBelow \in 1..PauseAt /\ PauseAt \in 1..MaxImmutables
  /\ MaxImmutables \in Nat
  /\ MaxMessages \in Nat /\ MaxElections \in Nat

VARIABLES
  conn,            \* each connection's client_t
  server,          \* each server: how far ServerClose has come
  immutable_count, \* of each server's storage engine
  raft_leaders,    \* the servers whose raft.state is RAFT_LEADER
  leader,          \* the leader of the latest term
  log,             \* the entries not yet applied or not yet reported, by index
  elections,       \* history: how many elections there were
  replies,         \* what was sent to each peer
  applied          \* history: the messages of each connection that FsmApply
                   \* handed to lsmt_insert, in that order

connVars == <<conn, server, replies>>
raftVars == <<raft_leaders, leader, elections>>
vars == <<conn, server, immutable_count, raft_leaders, leader, log,
          elections, replies, applied>>

---------------------------------------------------------------------------

Message == 1..MaxMessages

\* received counts fragments; buffer and batch hold the numbers of complete
\* messages; acks counts the pending writes of acknowledgements.
Conn == [handle : {"none", "open", "closing", "closed"}, node : Nodes \cup {NoNode},
         listed : BOOLEAN, ref_count : Int, received : Nat,
         buffer : Seq(Message), batch : Seq(Message), is_paused : BOOLEAN,
         redirecting : BOOLEAN, acks : Int]

NoConn == [handle |-> "none", node |-> NoNode, listed |-> FALSE, ref_count |-> 0,
           received |-> 0, buffer |-> <<>>, batch |-> <<>>, is_paused |-> FALSE,
           redirecting |-> FALSE, acks |-> 0]

\* An entry is pending while it may still be applied, and waited for until the
\* server that proposed it has been told its fate.
Entry == [conn : Conns, msgs : Seq(Message), pending : BOOLEAN, waited : BOOLEAN]

Init ==
  /\ conn = [c \in Conns |-> NoConn]
  /\ server = [n \in Nodes |-> "listening"]
  /\ immutable_count = [n \in Nodes |-> 0]
  /\ leader \in Nodes
  /\ raft_leaders = {leader}
  /\ log = <<>>
  /\ elections = 0
  /\ replies = [c \in Conns |-> <<>>]
  /\ applied = [c \in Conns |-> <<>>]

\* The servers whose event loop runs: lsmt_flush blocks it.
Running == {n \in Nodes : server[n] \in {"listening", "closed"}}

\* What a callback of the event loop works on.
Loop == [conn |-> conn, log |-> log, replies |-> replies]

Commit(s) == conn' = s.conn /\ log' = s.log /\ replies' = s.replies

\* The index of the last entry.
LastIndex(L) == Max({0} \cup DOMAIN L)

\* An entry is forgotten when it is not pending and nobody waits for it.
Unsettled(L) == Restrict(L, {i \in DOMAIN L : L[i].pending \/ L[i].waited})

\* close_and_free_client, which does nothing the second time.
Close(s, c) ==
  IF s.conn[c].handle # "open" THEN s
  ELSE [s EXCEPT !.conn[c].handle = "closing", !.conn[c].listed = FALSE]

ClientRetain(s, c) == [s EXCEPT !.conn[c].ref_count = @ + 1]

ClientRelease(s, c) == [s EXCEPT !.conn[c].ref_count = @ - 1]

\* uv_write may refuse a write, and always does on a handle that is closing.
WriteResults(s, c) == IF s.conn[c].handle = "open" THEN BOOLEAN ELSE {FALSE}

\* redirect_to_leader_and_close: reading stops, and the client is closed when
\* the message has been written or cannot be.
Redirect(s, c) ==
  {IF written
   THEN [ClientRetain(s, c) EXCEPT !.conn[c].redirecting = TRUE,
                                   !.replies[c] = Append(@, "redirect")]
   ELSE Close(s, c) : written \in WriteResults(s, c)}

\* Which of n calls of raft_apply succeed: none on a server that is not the
\* leader; on a leader any may fail (it is handing over, or out of memory).
RaftResults(c, n) ==
  IF conn[c].node \in raft_leaders THEN SUBSET (1..n) ELSE {{}}

\* An entry of c; what a deposed leader proposes can no longer be applied.
Proposal(c, msgs) ==
  [conn |-> c, msgs |-> msgs, pending |-> conn[c].node = leader, waited |-> TRUE]

\* The log with an entry for each accepted one of a sequence of batches of c.
Extend(L, c, batches, accepted) ==
  [i \in DOMAIN L \cup {LastIndex(L) + j : j \in accepted} |->
     IF i > LastIndex(L) THEN Proposal(c, batches[i - LastIndex(L)]) ELSE L[i]]

\* Mutant: the entry does not hold a reference to its client.
ProposeUnretained(s, c, batches, accepted) ==
  LET t == [s EXCEPT !.log = Extend(s.log, c, batches, accepted)]
  IN  IF Cardinality(accepted) = Len(batches) THEN t ELSE Close(t, c)

\* raft_apply on each of a sequence of batches, and what batch_buffer_flush does
\* with the result: an accepted entry holds a reference to its client; a failure
\* closes the client, and the batches after it are still tried.
Propose(s, c, batches, accepted) ==
  LET t == [s EXCEPT !.conn[c].ref_count = @ + Cardinality(accepted),
                     !.log = Extend(s.log, c, batches, accepted)]
  IN  IF Cardinality(accepted) = Len(batches) THEN t ELSE Close(t, c)

\* batch_buffer_flush: the results it may have.
Flush(s, c) ==
  IF s.conn[c].batch = <<>> THEN {s}
  ELSE {[Propose(s, c, <<s.conn[c].batch>>, accepted) EXCEPT !.conn[c].batch = <<>>] :
          accepted \in RaftResults(c, 1)}

\* The bytes of a connection end in the middle of a message.
Partial(s, c) == s.conn[c].received % 2 = 1

\* The messages before the first one that cannot be taken.
Acceptable(buffer) ==
  SubSeq(buffer, 1, Min({Len(buffer)} \cup {i - 1 : i \in {j \in DOMAIN buffer : buffer[j] \in Rejected}}))

\* Mutant: a batch that is not full waits for more.
TakeNoFlush(s, c) ==
  LET good    == Acceptable(s.conn[c].buffer)
      msgs    == s.conn[c].batch \o good
      full    == Len(msgs) \div BatchSize
      batches == [i \in 1..full |-> SubSeq(msgs, (i - 1) * BatchSize + 1, i * BatchSize)]
      rest    == SubSeq(msgs, full * BatchSize + 1, Len(msgs))
  IN  {[Propose(s, c, batches, accepted) EXCEPT !.conn[c].batch = rest, !.conn[c].buffer = <<>>] :
         accepted \in RaftResults(c, full)}

\* Mutant: messages that were batched stay in the buffer.
TakeUnshifted(s, c) ==
  LET msgs    == s.conn[c].batch \o s.conn[c].buffer
      batches == [i \in 1..Len(msgs) |-> <<msgs[i]>>]
  IN  {Propose(s, c, batches, accepted) : accepted \in RaftResults(c, Len(msgs))}

\* The loop of process_insert_buffer on a leader: messages are added to the
\* batch, which is proposed each time it is full; what is left in it is
\* proposed when nothing is left in the buffer.  A rejected message closes the
\* client; the batch is kept then, and so is the buffer.
Take(s, c) ==
  LET good    == Acceptable(s.conn[c].buffer)
      broken  == good # s.conn[c].buffer
      msgs    == s.conn[c].batch \o good
      full    == Len(msgs) \div BatchSize
      rest    == SubSeq(msgs, full * BatchSize + 1, Len(msgs))
      chunks  == [i \in 1..full |-> SubSeq(msgs, (i - 1) * BatchSize + 1, i * BatchSize)]
      flushed == ~broken /\ ~Partial(s, c) /\ rest # <<>>
      batches == IF flushed THEN Append(chunks, rest) ELSE chunks
  IN  {LET t == [Propose(s, c, batches, accepted)
                   EXCEPT !.conn[c].batch = IF flushed THEN <<>> ELSE rest]
       IN  IF broken THEN Close(t, c) ELSE [t EXCEPT !.conn[c].buffer = <<>>] :
       accepted \in RaftResults(c, Len(batches))}

\* process_insert_buffer: the results it may have.  A server that is not the
\* leader redirects at the first complete message; of the rejected ones it closes
\* the client for one that is too short before it looks at its own state, and
\* redirects for one that is too long.
Process(s, c) ==
  LET some == s.conn[c].buffer # <<>>
      bad  == some /\ Head(s.conn[c].buffer) \in Rejected
      follower == conn[c].node \notin raft_leaders
  IN  IF immutable_count[conn[c].node] >= PauseAt
      THEN {[s EXCEPT !.conn[c].is_paused = TRUE]}
      ELSE (IF follower /\ some THEN Redirect(s, c) ELSE {})
           \cup (IF follower /\ some /\ ~bad THEN {} ELSE Take(s, c))

---------------------------------------------------------------------------
(* The insert port.                                                        *)

\* on_insert_connection: a server that is not the leader redirects the peer,
\* without listing it; uv_accept may fail.
OnInsertConnection(c, n) ==
  /\ server[n] = "listening"
  /\ conn[c].handle = "none"
  /\ LET new == [Loop EXCEPT !.conn[c] = [NoConn EXCEPT !.handle = "open", !.node = n,
                                                        !.ref_count = 1]]
     IN  \/ n \in raft_leaders /\ Commit([new EXCEPT !.conn[c].listed = TRUE])
         \/ n \notin raft_leaders /\ \E s \in Redirect(new, c) : Commit(s)
         \/ Commit(Close(new, c))
  /\ UNCHANGED <<server, immutable_count, raftVars, applied>>

Reading(c) ==
  conn[c].handle = "open" /\ conn[c].listed /\ ~conn[c].is_paused /\ ~conn[c].redirecting

\* The messages that are complete after n more fragments.
Completed(c, n) ==
  LET old == conn[c].received \div 2
      new == (conn[c].received + n) \div 2
  IN  [i \in 1..(new - old) |-> old + i]

\* on_client_read with n fragments.
OnClientRead(c, n) ==
  /\ Reading(c)
  /\ conn[c].received + n <= 2 * MaxMessages
  /\ \E s \in Process([Loop EXCEPT !.conn[c].received = @ + n,
                                   !.conn[c].buffer = @ \o Completed(c, n)], c) :
       Commit(s)
  /\ UNCHANGED <<server, immutable_count, raftVars, applied>>

\* on_client_read at the end of the stream, or after an error: what is in the
\* buffer is processed, the batch is proposed and the client closed.
OnClientEnd(c) ==
  /\ Reading(c)
  /\ \E s \in IF conn[c].buffer = <<>> /\ ~Partial(Loop, c) THEN {Loop} ELSE Process(Loop, c) :
       \E t \in Flush(s, c) : Commit(Close(t, c))
  /\ UNCHANGED <<server, immutable_count, raftVars, applied>>

\* on_client_read without memory for the data, or with too much of it.
OnClientDropped(c) ==
  /\ Reading(c)
  /\ Commit(Close(Loop, c))
  /\ UNCHANGED <<server, immutable_count, raftVars, applied>>

\* Mutant: a paused client is not looked at again.
ResumeNever(s, c) == {s}

\* A paused client is resumed, even if it was just closed.
ResumeClient(s, c) ==
  IF immutable_count[conn[c].node] < ResumeBelow /\ s.conn[c].is_paused
  THEN Process([s EXCEPT !.conn[c].is_paused = FALSE], c)
  ELSE {s}

\* statsTimerCb, for one listed client: its batch is proposed, and it goes on
\* reading if the engine has caught up.
StatsTimer(c) ==
  /\ conn[c].listed
  /\ \E s \in Flush(Loop, c) : \E t \in ResumeClient(s, c) : Commit(t)
  /\ UNCHANGED <<server, immutable_count, raftVars, applied>>

\* on_ack_write_complete; uv_close makes pending writes fail.
OnAckWriteComplete(c) ==
  /\ conn[c].acks > 0
  /\ LET s == ClientRelease([Loop EXCEPT !.conn[c].acks = @ - 1], c)
     IN  \/ conn[c].handle = "open" /\ Commit(s)
         \/ Commit(Close(s, c))
  /\ UNCHANGED <<server, immutable_count, raftVars, applied>>

OnRedirectWriteComplete(c) ==
  /\ conn[c].redirecting
  /\ Commit(ClientRelease(Close([Loop EXCEPT !.conn[c].redirecting = FALSE], c), c))
  /\ UNCHANGED <<server, immutable_count, raftVars, applied>>

\* on_client_close, after the callbacks of the handle's writes.
OnClientClose(c) ==
  /\ conn[c].handle = "closing"
  /\ conn[c].acks = 0 /\ ~conn[c].redirecting
  /\ Commit(ClientRelease([Loop EXCEPT !.conn[c].handle = "closed"], c))
  /\ UNCHANGED <<server, immutable_count, raftVars, applied>>

\* ServerClose: the sockets are closed, and the clients in the list, and
\* lsmt_flush registers the memtable in use.  It does not look whether the array
\* has room for it: what happens to a server that stores past its end is undefined.
ServerClose(n) ==
  /\ server[n] = "listening"
  /\ server' = [server EXCEPT ![n] =
                  IF immutable_count[n] < MaxImmutables THEN "flushing" ELSE "undefined"]
  /\ immutable_count' = [immutable_count EXCEPT ![n] = @ + 1]
  /\ conn' = [c \in Conns |->
                IF conn[c].node = n /\ conn[c].listed THEN Close(Loop, c).conn[c]
                                                      ELSE conn[c]]
  /\ UNCHANGED <<raftVars, log, replies, applied>>

\* lsmt_flush waits for the flush daemon; it returns to the event loop, which
\* goes on until Raft is closed too.
LsmtFlushReturns(n) ==
  /\ server[n] = "flushing"
  /\ immutable_count[n] = 0
  /\ server' = [server EXCEPT ![n] = "closed"]
  /\ UNCHANGED <<conn, replies, immutable_count, raftVars, log, applied>>

---------------------------------------------------------------------------
(* Raft (external) and the storage engine.                                 *)

\* Mutant: as many bytes are sent as a full batch has messages.
AckFullBatch(s, c, n) ==
  IF s.conn[c].handle = "open"
  THEN {[s EXCEPT !.conn[c].acks = @ + 1,
                  !.replies[c] = @ \o [i \in 1..BatchSize |-> "ack"]]}
  ELSE {ClientRelease(s, c)}

\* serverApplyCb on an applied entry of n messages: a byte for each is sent back
\* if the client is still there (and there is memory for the request).
ServerApplyCb(s, c, n) ==
  {ClientRelease(s, c)} \cup
  (IF s.conn[c].handle # "open" THEN {}
   ELSE {ClientRelease(Close(s, c), c),
         ClientRelease([ClientRetain(s, c) EXCEPT !.conn[c].acks = @ + 1,
                                                  !.replies[c] = @ \o [i \in 1..n |-> "ack"]], c)})

\* Mutant: nothing stops an insertion when the array of memtables is full.
RotatesFreely(n) == {0, 1}

\* lsmt_insert adds an immutable memtable or none, and waits while there is no
\* room for one it must add.
Rotates(n) == {d \in {0, 1} : immutable_count[n] + d <= MaxImmutables}

\* The oldest entry that is not lost is applied (FsmApply), on the leader too,
\* whose memtable may fill up; the leader reports the entries of its own term.
\* Each message is handed to lsmt_insert.  What it returns is only logged: a record
\* it refuses (id 0, a key the memtable has) counts as applied here as it does there.
FsmApply(i) ==
  /\ leader \in Running
  /\ log[i].pending /\ \A j \in DOMAIN log : log[j].pending => i <= j
  /\ LET e   == log[i]
         own == e.waited /\ conn[e.conn].node = leader
     IN  /\ applied' = [applied EXCEPT ![e.conn] = @ \o e.msgs]
         /\ \E s \in IF own THEN ServerApplyCb(Loop, e.conn, Len(e.msgs)) ELSE {Loop} :
              Commit([s EXCEPT !.log = Unsettled([log EXCEPT ![i].pending = FALSE,
                                                             ![i].waited = @ /\ ~own])])
  /\ \E d \in Rotates(leader) :
       immutable_count' = [immutable_count EXCEPT ![leader] = @ + d]
  /\ UNCHANGED <<server, raftVars>>

\* The flush daemon unregisters a memtable.
MemtableFlushed(n) ==
  /\ server[n] # "undefined"
  /\ immutable_count[n] > 0
  /\ immutable_count' = [immutable_count EXCEPT ![n] = @ - 1]
  /\ UNCHANGED <<connVars, raftVars, log, applied>>

\* A server is elected; the entries after the k-th are lost.
Elect(n, k) ==
  /\ elections < MaxElections
  /\ n \in Running \ raft_leaders
  /\ leader' = n
  /\ raft_leaders' = raft_leaders \cup {n}
  /\ elections' = elections + 1
  /\ log' = Unsettled([i \in DOMAIN log |-> [log[i] EXCEPT !.pending = @ /\ i <= k]])
  /\ UNCHANGED <<connVars, immutable_count, applied>>

\* The entries n proposed and waits for.
WaitedBy(n) == {i \in DOMAIN log : log[i].waited /\ conn[log[i].conn].node = n}

\* serverApplyCb with a failure, for each of them: nothing is sent, the
\* reference is released.
GivenUp(n) ==
  [c \in Conns |-> [conn[c] EXCEPT !.ref_count =
                      @ - Cardinality({i \in WaitedBy(n) : log[i].conn = c})]]

\* A server stops leading: a later leader exists, or it lost its quorum, or it
\* is closing.
StepDown(n) ==
  /\ n \in Running \cap raft_leaders
  /\ raft_leaders' = raft_leaders \ {n}
  /\ leader' = IF leader = n THEN NoNode ELSE leader
  /\ conn' = GivenUp(n)
  /\ log' = Unsettled([i \in DOMAIN log |->
                         [log[i] EXCEPT !.waited = @ /\ i \notin WaitedBy(n)]])
  /\ UNCHANGED <<server, immutable_count, elections, replies, applied>>

\* Every connection is closed, but for those of servers that are undefined.
Stopped ==
  LET gone(c) == conn[c].node \in Nodes /\ server[conn[c].node] = "undefined" IN
  /\ \A c \in Conns : conn[c].handle \in {"closed", "none"} \/ gone(c)
  /\ \A i \in DOMAIN log : ~log[i].waited \/ gone(log[i].conn)
  /\ UNCHANGED vars

---------------------------------------------------------------------------

\* A callback of c's server.
ServerStep(c) ==
  /\ conn[c].node \in Running
  /\ \/ OnClientEnd(c) \/ OnClientDropped(c) \/ StatsTimer(c)
     \/ OnAckWriteComplete(c) \/ OnRedirectWriteComplete(c) \/ OnClientClose(c)
     \/ \E n \in 1..(2 * MaxMessages) : OnClientRead(c, n)

NodeStep(n) ==
  \/ ServerClose(n) \/ LsmtFlushReturns(n) \/ MemtableFlushed(n) \/ StepDown(n)
  \/ \E k \in {0} \cup DOMAIN log : Elect(n, k)

Next ==
  \/ \E c \in Conns : ServerStep(c) \/ \E n \in Nodes : OnInsertConnection(c, n)
  \/ \E n \in Nodes : NodeStep(n)
  \/ \E i \in DOMAIN log : FsmApply(i)
  \/ Stopped

\* The timer fires again and again and the flush daemon makes progress.
Fairness ==
  /\ \A c \in Conns : WF_vars(StatsTimer(c))
  /\ \A n \in Nodes : WF_vars(MemtableFlushed(n))

Spec == Init /\ [][Next]_vars

FairSpec == Spec /\ Fairness

---------------------------------------------------------------------------
(* Properties.                                                             *)

\* Every variable has its type; the array of a server's memtables overflows
\* nowhere but in ServerClose: the lsmt_insert of FsmApply waits for room.
TypeOK ==
  /\ conn \in [Conns -> Conn]
  /\ server \in [Nodes -> {"listening", "flushing", "closed", "undefined"}]
  /\ raft_leaders \subseteq Nodes
  /\ immutable_count \in [Nodes -> Nat]
  /\ \A n \in Nodes : immutable_count[n] > MaxImmutables => server[n] = "undefined"
  /\ leader \in Nodes \cup {NoNode}
  /\ DOMAIN log \subseteq Nat \ {0} /\ \A i \in DOMAIN log : log[i] \in Entry
  /\ elections \in Nat
  /\ replies \in [Conns -> Seq({"ack", "redirect"})]
  /\ applied \in [Conns -> Seq(Message)]

Acks(c) == Cardinality({i \in DOMAIN replies[c] : replies[c][i] = "ack"})

\* An acknowledged message went through FsmApply: however leaders change, a peer is
\* never sent more acknowledgements than messages of its own were handed to
\* lsmt_insert.  That lsmt_insert took them it does not say: FsmApply ignores a refusal.
AckMeansApplied == \A c \in Conns : Acks(c) <= Len(applied[c])

\* The messages of a connection are applied at most once and in the order in
\* which they were sent, whatever batches they were cut into.
AppliedInOrder ==
  \A c \in Conns : \A i, j \in DOMAIN applied[c] : i < j => applied[c][i] < applied[c][j]

\* The references to a client are exactly its open handle, the entries whose
\* fate it waits for and its pending writes: it is neither freed while Raft or
\* a write uses it nor kept for ever.
RefCountExact ==
  \A c \in Conns :
    conn[c].ref_count = (IF conn[c].handle \in {"open", "closing"} THEN 1 ELSE 0)
                        + Cardinality({i \in DOMAIN log : log[i].conn = c /\ log[i].waited})
                        + conn[c].acks
                        + (IF conn[c].redirecting THEN 1 ELSE 0)

\* process_insert_buffer: "we MUST flush now. The client is waiting for these
\* ACKs."  Messages wait in the batch of an open connection only behind an
\* incomplete or held-back message, and complete messages wait in its buffer
\* only while it is paused or being redirected.
NothingLeftBehind ==
  \A c \in Conns : conn[c].handle = "open" =>
    /\ conn[c].batch # <<>> => (conn[c].buffer # <<>> \/ Partial(Loop, c))
    /\ conn[c].buffer # <<>> => (conn[c].is_paused \/ conn[c].redirecting)

Taken(c, m) == m \notin ToSet(conn[c].buffer) \cup ToSet(conn[c].batch)

\* Every complete message is handed to Raft, unless its connection closes or
\* is redirected: a paused connection is resumed, a batch does not wait for
\* ever.
EveryMessageTaken ==
  \A c \in Conns, m \in Message :
    (conn[c].handle = "open" /\ ~Taken(c, m))
    ~> (Taken(c, m) \/ conn[c].handle # "open" \/ conn[c].redirecting)
====
