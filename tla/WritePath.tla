----------------------------- MODULE WritePath -----------------------------
(***************************************************************************)
(* A client's write thread (client/dbclient.py, _flush_batch) composed     *)
(* with the insert ports of a cluster: it sends a batch to the node it     *)
(* takes for the leader, counts one byte per record, follows a redirect    *)
(* and retries on every failure with the whole batch.                      *)
(*                                                                         *)
(* The thread sends its batches one after the other.  The environment of   *)
(* InsertService is replaced by it: a server accepts, reads and sees the   *)
(* end of what this client opened, sent and closed.                        *)
(***************************************************************************)
EXTENDS InsertService

CONSTANTS
  BatchLen,     \* config.batch_size
  MaxRetries,   \* config.max_retries
  MaxBatches,   \* bound: batches written
  RedirectLen   \* the bytes of a REDIRECT message

ASSUME WriteConstants ==
  /\ IsFiniteSet(Nodes) /\ Nodes = 1..Cardinality(Nodes)
  /\ BatchLen \in Nat \ {0} /\ RedirectLen \in Nat \ {0}
  /\ MaxRetries \in Nat \ {0} /\ MaxBatches \in Nat

VARIABLES
  writer,      \* the thread: where it is and what it works on
  registry,    \* the leader the LeaderRegistry names
  socket,      \* each connection, as the client sees it
  written      \* history: the batches reported as written

clientVars == <<writer, registry, socket, written>>
writeVars  == <<vars, clientVars>>

---------------------------------------------------------------------------

\* clean: every byte counted so far was an acknowledgement.
Writer == [pc : {"pick", "first", "rest", "done"}, batch : Nat, retries : Nat,
           conn : Conns \cup {NoNode}, clean : BOOLEAN]

\* carries are the batches sent over the connection, read the bytes read.
Socket == [node : Nodes \cup {NoNode}, state : {"unused", "busy", "pooled", "closed"},
           carries : Seq(Nat), read : Nat]

WriteInit ==
  /\ Init
  /\ writer = [pc |-> "pick", batch |-> 1, retries |-> 0, conn |-> NoNode, clean |-> TRUE]
  /\ registry \in Nodes \cup {NoNode}
  /\ socket = [c \in Conns |-> [node |-> NoNode, state |-> "unused", carries |-> <<>>, read |-> 0]]
  /\ written = {}

\* How many bytes the first n replies take: one for each acknowledgement.
Sent(c, n) ==
  LET count(reply) == Cardinality({i \in 1..n : replies[c][i] = reply})
  IN  count("ack") + RedirectLen * count("redirect")

\* The bytes a server sent over a connection, one reply after the other.
Stream(c) ==
  [p \in 1..Sent(c, Len(replies[c])) |->
     LET i == CHOOSE i \in DOMAIN replies[c] : Sent(c, i - 1) < p /\ p <= Sent(c, i)
     IN  IF replies[c][i] = "ack" THEN "ack"
         ELSE IF p = Sent(c, i - 1) + 1 THEN "R" ELSE "text"]

Unread(c) == Len(Stream(c)) - socket[c].read

NextBatch(w) ==
  [w EXCEPT !.pc = IF w.batch < MaxBatches THEN "pick" ELSE "done",
            !.batch = @ + 1, !.retries = 0, !.conn = NoNode, !.clean = TRUE]

\* An attempt failed: the leader is forgotten and another is made, until there
\* were enough; the batch is given up then.
Failed(w) ==
  IF w.retries + 1 < MaxRetries
  THEN [w EXCEPT !.pc = "pick", !.retries = @ + 1, !.conn = NoNode, !.clean = TRUE]
  ELSE NextBatch(w)

\* The leader, as far as it is known, or the nodes in turn.
CurrentNode ==
  IF registry # NoNode THEN registry
  ELSE (writer.retries % Cardinality(Nodes)) + 1

Pooled(n) == {c \in Conns : socket[c].node = n /\ socket[c].state = "pooled"}

\* Something could be read from a socket, at the latest when it has arrived.
Readable(c) == Unread(c) > 0 \/ conn[c].handle \in {"closing", "closed"}

\* _get_socket and sendall.  A pooled socket is used unless it is seen to be
\* readable; then it is closed and a new connection is opened.
SendBatch(c) ==
  /\ writer.pc = "pick"
  /\ \/ c \in Pooled(CurrentNode)
     \/ /\ socket[c].state = "unused"
        /\ \A d \in Pooled(CurrentNode) : Readable(d)
  /\ socket' = [d \in Conns |->
                  CASE d = c -> [socket[c] EXCEPT !.node = CurrentNode, !.state = "busy",
                                                  !.carries = Append(@, writer.batch)]
                    [] d # c /\ d \in Pooled(CurrentNode) -> [socket[d] EXCEPT !.state = "closed"]
                    [] OTHER -> socket[d]]
  /\ writer' = [writer EXCEPT !.pc = "first", !.conn = c]
  /\ UNCHANGED <<vars, registry, written>>

\* The first byte is a redirect's.  The server names any node, or none during
\* an election; a redirect is not counted as an attempt.
FollowRedirect(l) ==
  LET c == writer.conn IN
  /\ writer.pc = "first"
  /\ Unread(c) > 0 /\ Stream(c)[socket[c].read + 1] = "R"
  /\ socket' = [socket EXCEPT ![c].state = "closed"]
  /\ registry' = l
  /\ writer' = IF l = NoNode THEN Failed(writer)
               ELSE [writer EXCEPT !.pc = "pick", !.conn = NoNode]
  /\ UNCHANGED <<vars, written>>

\* Any other first byte is taken for an acknowledgement.
ReadFirst ==
  LET c == writer.conn IN
  /\ writer.pc = "first"
  /\ Unread(c) > 0 /\ Stream(c)[socket[c].read + 1] # "R"
  /\ socket' = [socket EXCEPT ![c].read = @ + 1]
  /\ writer' = [writer EXCEPT !.pc = "rest",
                              !.clean = Stream(c)[socket[c].read + 1] = "ack"]
  /\ UNCHANGED <<vars, registry, written>>

\* _recv_exact: the bytes that are counted, whatever they are.
Counted(c) ==
  {i \in 1..Len(Stream(c)) : i > socket[c].read /\ i <= socket[c].read + BatchLen - 1}

\* The batch is complete: the socket is kept and its node is the leader.
ReadRest ==
  LET c == writer.conn IN
  /\ writer.pc = "rest"
  /\ Cardinality(Counted(c)) = BatchLen - 1
  /\ socket' = [socket EXCEPT ![c].read = @ + BatchLen - 1, ![c].state = "pooled"]
  /\ registry' = socket[c].node
  /\ written' = written \cup
       {[batch |-> writer.batch,
         clean |-> writer.clean /\ \A i \in Counted(c) : Stream(c)[i] = "ack"]}
  /\ writer' = NextBatch(writer)
  /\ UNCHANGED vars

\* Mutant: a socket is kept after a failure.
FailPooled ==
  /\ writer.pc \in {"first", "rest"}
  /\ socket' = [socket EXCEPT ![writer.conn].state = "pooled"]
  /\ registry' = NoNode
  /\ writer' = Failed(writer)
  /\ UNCHANGED <<vars, written>>

\* A timeout, or a connection that was closed or could not be opened.
Fail ==
  /\ writer.pc \in {"first", "rest"}
  /\ socket' = [socket EXCEPT ![writer.conn].state = "closed"]
  /\ registry' = NoNode
  /\ writer' = Failed(writer)
  /\ UNCHANGED <<vars, written>>

---------------------------------------------------------------------------

\* What the servers do with this client's connections.
ServeClient(c) ==
  \/ socket[c].state # "unused" /\ OnInsertConnection(c, socket[c].node)
  \/ /\ conn[c].node \in Running
     /\ \/ \E n \in 1..(2 * BatchLen * Len(socket[c].carries) - conn[c].received) : OnClientRead(c, n)
        \/ socket[c].state = "closed" /\ OnClientEnd(c)
        \/ StatsTimer(c) \/ OnAckWriteComplete(c) \/ OnRedirectWriteComplete(c)
        \/ OnClientClose(c)

WriteNext ==
  \/ \E c \in Conns : SendBatch(c)
  \/ \E l \in Nodes \cup {NoNode} : FollowRedirect(l)
  \/ ReadFirst \/ ReadRest \/ Fail
  \/ /\ \/ \E c \in Conns : ServeClient(c)
        \/ \E n \in Nodes : MemtableFlushed(n) \/ StepDown(n) \/ \E k \in {0} \cup DOMAIN log : Elect(n, k)
        \/ \E i \in DOMAIN log : FsmApply(i)
     /\ UNCHANGED clientVars

WriteSpec == WriteInit /\ [][WriteNext]_writeVars

---------------------------------------------------------------------------
(* Properties.                                                             *)

\* The records of batch b that were applied, over whatever connection.
AppliedOf(b) ==
  {r \in 1..BatchLen : \E c \in Conns : \E m \in ToSet(applied[c]) :
     /\ socket[c].carries[((m - 1) \div BatchLen) + 1] = b
     /\ ((m - 1) % BatchLen) + 1 = r}

\* A batch whose bytes were all acknowledgements is applied completely, however
\* often it was retried and connections were reused, redirected or dropped.
CleanBatchIsApplied ==
  \A w \in written : w.clean => AppliedOf(w.batch) = 1..BatchLen

\* dbclient.py:216 "If it receives a REDIRECT, it instantly targets the new
\* leader": a batch that is reported as written was applied completely.
WrittenBatchIsApplied ==
  \A w \in written : AppliedOf(w.batch) = 1..BatchLen
====
