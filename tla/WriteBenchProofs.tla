-------------------------- MODULE WriteBenchProofs --------------------------
(***************************************************************************)
(* Proofs about the write benchmark: every record is in one place, what is *)
(* in flight is bounded by a potential that counts the records which are   *)
(* in no batch yet, and a normal end leaves nothing behind.                *)
(***************************************************************************)
EXTENDS WriteBench, FiniteSetTheorems, SequenceTheorems, TLAPS

---------------------------------------------------------------------------
(* The invariant.                                                          *)

Records == 1..requests

Types ==
  /\ requests \in RequestCounts /\ main \in Main
  /\ registry \in [Clusters -> Nodes \cup {NoNode}]
  /\ \A c \in Clusters : registry[c] \in ToSet(NodesOf[c]) \cup {NoNode}
  /\ buffer \in [Nodes -> Seq(Records)]
  /\ batches \in Seq(Batch)
  /\ pool \in [Nodes -> Nat] /\ redirects \in 0..MaxRedirects
  /\ main.futures \cup main.flushing \cup reported \subseteq DOMAIN batches

\* A batch is sent to a node.
SentTo == \A b \in DOMAIN batches : batches[b].state \in {"connect", "sent"} => batches[b].node \in Nodes

\* What a phase of the main thread has left behind.
PhaseInv ==
  /\ main.pc # "route" => main.chunk = <<>> /\ main.routed = NothingRouted
  /\ main.last => main.taken = requests
  /\ main.pc \in {"flush", "wait", "ended"} => main.taken = requests
  /\ main.pc \in {"wait", "ended"} =>
       Unflushed = {} /\ \A b \in main.flushing : batches[b].state = "done"
  /\ main.pc = "ended" => main.futures = {} /\ \A n \in Nodes : pool[n] = 0

\* Every batch is waited for, went well or was printed as failed.
Followed ==
  /\ \A b \in DOMAIN batches :
       b \in main.futures \cup main.flushing \cup reported \/ batches[b].state = "done"
  /\ \A b \in reported : batches[b].state = "failed"

---------------------------------------------------------------------------
(* Types.                                                                  *)

\* The constants, in the form in which the steps need them.
LEMMA Nodal ==
  /\ \A c \in Clusters : /\ NodesOf[c] \in Seq(Nodes) /\ NodesOf[c] # <<>>
                         /\ ToSet(NodesOf[c]) \subseteq Nodes
                         /\ NodesOf[c][1] \in ToSet(NodesOf[c])
                         /\ Len(NodesOf[c]) \in Nat \ {0}
                         /\ \A i \in 1..Len(NodesOf[c]) : NodesOf[c][i] \in ToSet(NodesOf[c])
  /\ \A n \in Nodes : ClusterOf(n) \in Clusters /\ n \in ToSet(NodesOf[ClusterOf(n)])
  /\ \A c \in Clusters : \A n \in ToSet(NodesOf[c]) : ClusterOf(n) = c
<1>1. ASSUME NEW c \in Clusters
      PROVE  /\ NodesOf[c] \in Seq(Nodes) /\ NodesOf[c] # <<>>
             /\ Len(NodesOf[c]) \in Nat \ {0}
             /\ \A i \in 1..Len(NodesOf[c]) : NodesOf[c][i] \in ToSet(NodesOf[c])
             /\ ToSet(NodesOf[c]) \subseteq Nodes
  <2>1. NodesOf[c] \in Seq(Nodes) /\ NodesOf[c] # <<>>
    BY BenchConstants
  <2>2. Len(NodesOf[c]) \in Nat \ {0} /\ DOMAIN NodesOf[c] = 1..Len(NodesOf[c])
    BY <2>1, EmptySeq, LenProperties
  <2>3. ToSet(NodesOf[c]) \subseteq Nodes
    BY DEF Nodes
  <2> QED
    BY <2>1, <2>2, <2>3 DEF ToSet
<1>2. \A n \in Nodes : \E c \in Clusters : n \in ToSet(NodesOf[c])
  BY DEF Nodes
<1>3. \A n \in Nodes : ClusterOf(n) \in Clusters /\ n \in ToSet(NodesOf[ClusterOf(n)])
  BY <1>2, Zenon DEF ClusterOf
<1>4. \A c, d \in Clusters : c # d => ToSet(NodesOf[c]) \cap ToSet(NodesOf[d]) = {}
  BY BenchConstants
<1>5. ASSUME NEW c \in Clusters, NEW n \in ToSet(NodesOf[c])
      PROVE  ClusterOf(n) = c
  <2>1. n \in Nodes
    BY <1>1
  <2> QED
    BY <2>1, <1>3, <1>4
<1> QED
  BY <1>1, <1>3, <1>5

\* The numbers.
LEMMA Numbers ==
  /\ BatchSize \in Nat /\ BatchSize > 0 /\ ChunkSize \in Nat /\ ChunkSize > 0
  /\ ChunkSize <= BatchSize /\ MaxFutures \in Nat
  /\ IsFiniteSet(Nodes) /\ Cardinality(Nodes) \in Nat
BY BenchConstants, FS_CardinalityType

\* What a step needs to know of the types.
LEMMA Typed ==
  ASSUME Types
  PROVE  /\ requests \in Nat /\ main.taken \in 0..requests /\ main.taken \in Nat
         /\ main.chunk \in Seq(Records) /\ main.routed \in [Nodes -> Seq(Records)]
         /\ main.futures \subseteq Nat /\ main.flushing \subseteq Nat
         /\ Len(batches) \in Nat /\ DOMAIN batches = 1..Len(batches)
         /\ \A b \in DOMAIN batches : batches[b] \in Batch
<1>1. requests \in Nat
  BY BenchConstants DEF Types
<1>2. Len(batches) \in Nat /\ DOMAIN batches = 1..Len(batches) /\ \A b \in DOMAIN batches : batches[b] \in Batch
  BY LenProperties, ElementOfSeq DEF Types
<1>3. main \in Main
  BY DEF Types
<1> QED
  BY <1>1, <1>2, <1>3 DEF Main, Records

LEMMA Fresh == \A n, q : NewBatch(n, q).records = q /\ NewBatch(n, q).state = "queued"
BY DEF NewBatch

\* A new batch is put at the end.
LEMMA Appending ==
  ASSUME Types, NEW n \in Nodes, NEW q \in Seq(Records)
  PROVE  LET new == NewBatch(n, q)
             bs == Append(batches, new)
         IN  /\ new \in Batch /\ bs \in Seq(Batch) /\ Len(bs) = Len(batches) + 1
             /\ DOMAIN bs = 1..(Len(batches) + 1)
             /\ DOMAIN batches \subseteq DOMAIN bs
             /\ \A b \in DOMAIN batches : bs[b] = batches[b]
             /\ bs[Len(batches) + 1] = new
<1> DEFINE new == NewBatch(n, q)
           bs == Append(batches, new)
<1>1. new \in Batch
  BY Nodal, BenchConstants DEF NewBatch, Batch, Records
<1>2. batches \in Seq(Batch) /\ Len(batches) \in Nat /\ DOMAIN batches = 1..Len(batches)
  BY Typed DEF Types
<1> HIDE DEF new
<1>3. /\ bs \in Seq(Batch) /\ Len(bs) = Len(batches) + 1
      /\ \A i \in 1..Len(batches) : bs[i] = batches[i]
      /\ bs[Len(batches) + 1] = new
  BY <1>1, <1>2, AppendProperties
<1>4. DOMAIN bs = 1..(Len(batches) + 1)
  BY <1>3, LenProperties
<1> QED
  BY <1>1, <1>2, <1>3, <1>4 DEF new

\* What a thread's step leaves alone: the main thread, the records, and
\* whatever has ended.
ThreadStep(b) ==
  /\ UNCHANGED <<requests, main, buffer, reported>>
  /\ b \in DOMAIN batches /\ ~Ended(b)
  /\ batches' \in Seq(Batch) /\ Len(batches') = Len(batches) /\ DOMAIN batches' = DOMAIN batches
  /\ \A a \in DOMAIN batches : a # b => batches'[a] = batches[a]
  /\ \A a \in DOMAIN batches : batches'[a].records = batches[a].records

\* A thread changes its batch, but not its records.
LEMMA Editing ==
  ASSUME Types, NEW b \in DOMAIN batches, ~Ended(b), NEW v \in Batch, v.records = batches[b].records,
         batches' = [batches EXCEPT ![b] = v], UNCHANGED <<requests, main, buffer, reported>>
  PROVE  ThreadStep(b) /\ batches'[b] = v
<1>1. batches \in Seq(Batch) /\ DOMAIN batches = 1..Len(batches)
  BY Typed DEF Types
<1>2. batches' \in Seq(Batch) /\ Len(batches') = Len(batches)
  BY <1>1, ExceptSeq
<1>3. DOMAIN batches' = DOMAIN batches /\ batches'[b] = v
      /\ \A a \in DOMAIN batches : a # b => batches'[a] = batches[a]
  OBVIOUS
<1> QED
  BY <1>2, <1>3 DEF ThreadStep

\* The leader is set to a node of its cluster, or forgotten.
LEMMA Leaders ==
  ASSUME Types, NEW n \in Nodes, NEW r, r \in {SetLeader(n), ClearLeader(n)}
  PROVE  /\ r \in [Clusters -> Nodes \cup {NoNode}]
         /\ \A c \in Clusters : r[c] \in ToSet(NodesOf[c]) \cup {NoNode}
<1>1. ClusterOf(n) \in Clusters /\ n \in ToSet(NodesOf[ClusterOf(n)])
  BY Nodal
<1>2. registry \in [Clusters -> Nodes \cup {NoNode}]
      /\ \A c \in Clusters : registry[c] \in ToSet(NodesOf[c]) \cup {NoNode}
  BY DEF Types
<1>3. PICK w \in {n, NoNode} : r = [registry EXCEPT ![ClusterOf(n)] = w]
  BY DEF SetLeader, ClearLeader
<1> QED
  BY <1>1, <1>2, <1>3

LEMMA TypedAttempt ==
  ASSUME Types, SentTo, NEW b \in DOMAIN batches, Attempt(b)
  PROVE  Types' /\ SentTo' /\ ThreadStep(b)
<1> DEFINE v == [batches[b] EXCEPT !.state = "connect", !.node = Target(b)]
<1>1. batches[b] \in Batch
  BY Typed
<1>2. Target(b) \in Nodes
  <2> DEFINE nodes == NodesOf[batches[b].cluster]
             k == batches[b].retries % Len(nodes)
  <2>1. batches[b].cluster \in Clusters /\ batches[b].retries \in Nat
    BY <1>1, BenchConstants DEF Batch
  <2>2. registry[batches[b].cluster] \in Nodes \cup {NoNode}
    BY <2>1 DEF Types
  <2>3. Len(nodes) \in Nat \ {0} /\ \A i \in 1..Len(nodes) : nodes[i] \in Nodes
    BY <2>1, Nodal, Zenon
  <2> HIDE DEF nodes
  <2>4. k + 1 \in 1..Len(nodes)
    BY <2>1, <2>3
  <2>5. nodes[k + 1] \in Nodes
    BY <2>3, <2>4
  <2> QED
    BY <2>2, <2>5 DEF Target, nodes
<1>3. v \in Batch /\ v.records = batches[b].records /\ v.node \in Nodes
  BY <1>1, <1>2 DEF Batch
<1>4. batches' = [batches EXCEPT ![b] = v]
  BY DEF Attempt
<1>5. ~Ended(b)
  BY DEF Attempt, Turn, Ended
<1> HIDE DEF v
<1>6. ThreadStep(b) /\ batches'[b] = v
  BY <1>3, <1>4, <1>5, Editing DEF Attempt
<1>7. Types'
  BY <1>6 DEF Types, ThreadStep, Main, Batch, Attempt, Records
<1>8. SentTo'
  BY <1>3, <1>6 DEF SentTo, ThreadStep
<1> QED
  BY <1>6, <1>7, <1>8

LEMMA TypedSend ==
  ASSUME Types, SentTo, NEW b \in DOMAIN batches, Send(b)
  PROVE  Types' /\ SentTo' /\ ThreadStep(b)
<1> DEFINE v == [batches[b] EXCEPT !.state = "sent"]
<1>1. batches[b] \in Batch
  BY Typed
<1>2. batches[b].node \in Nodes
  BY DEF SentTo, Send
<1>3. v \in Batch /\ v.records = batches[b].records /\ v.node \in Nodes
  BY <1>1, <1>2 DEF Batch
<1>4. batches' = [batches EXCEPT ![b] = v]
  BY DEF Send
<1>5. ~Ended(b)
  BY DEF Send, Ended
<1> HIDE DEF v
<1>6. ThreadStep(b) /\ batches'[b] = v
  BY <1>3, <1>4, <1>5, Editing DEF Send
<1>7. pool' \in [Nodes -> Nat]
  <2>1. pool \in [Nodes -> Nat]
    BY DEF Types
  <2>2. PICK left \in 0..(IF pool[batches[b].node] = 0 THEN 0 ELSE pool[batches[b].node] - 1) :
          pool' = [pool EXCEPT ![batches[b].node] = left]
    BY DEF Send, AfterGet
  <2>3. left \in Nat
    BY <2>1, <2>2, <1>2
  <2> QED
    BY <2>1, <2>2, <2>3
<1>8. Types'
  BY <1>6, <1>7 DEF Types, ThreadStep, Main, Batch, Send, Records
<1>9. SentTo'
  BY <1>3, <1>6 DEF SentTo, ThreadStep
<1> QED
  BY <1>6, <1>8, <1>9

LEMMA TypedAcknowledged ==
  ASSUME Types, SentTo, NEW b \in DOMAIN batches, Acknowledged(b)
  PROVE  Types' /\ SentTo' /\ ThreadStep(b)
<1> DEFINE v == [batches[b] EXCEPT !.state = "done", !.retries = 0, !.node = NoNode]
<1>1. batches[b] \in Batch
  BY Typed
<1>2. batches[b].node \in Nodes
  BY DEF SentTo, Acknowledged
<1>3. v \in Batch /\ v.records = batches[b].records /\ v.state = "done"
  <2>1. 0 \in 0..MaxRetries
    BY BenchConstants
  <2> QED
    BY <1>1, <2>1 DEF Batch
<1>4. batches' = [batches EXCEPT ![b] = v]
  BY DEF Acknowledged
<1>5. ~Ended(b)
  BY DEF Acknowledged, Ended
<1> HIDE DEF v
<1>6. ThreadStep(b) /\ batches'[b] = v
  BY <1>3, <1>4, <1>5, Editing DEF Acknowledged
<1>7. pool' \in [Nodes -> Nat]
  BY <1>2 DEF Acknowledged, Types
<1>8. /\ registry' \in [Clusters -> Nodes \cup {NoNode}]
      /\ \A c \in Clusters : registry'[c] \in ToSet(NodesOf[c]) \cup {NoNode}
  BY <1>2, Leaders DEF Acknowledged
<1>9. Types'
  BY <1>6, <1>7, <1>8 DEF Types, ThreadStep, Main, Batch, Acknowledged, Records
<1>10. SentTo'
  BY <1>3, <1>6 DEF SentTo, ThreadStep
<1> QED
  BY <1>6, <1>9, <1>10

LEMMA TypedRedirected ==
  ASSUME Types, SentTo, NEW b \in DOMAIN batches, NEW l \in ToSet(NodesOf[batches[b].cluster]),
         Redirected(b, l)
  PROVE  Types' /\ SentTo' /\ ThreadStep(b)
<1> DEFINE v == [batches[b] EXCEPT !.state = "again", !.node = NoNode]
<1>1. batches[b] \in Batch
  BY Typed
<1>2. l \in Nodes
  BY <1>1, Nodal DEF Batch
<1>3. v \in Batch /\ v.records = batches[b].records /\ v.state = "again"
  BY <1>1, BenchConstants DEF Batch
<1>4. batches' = [batches EXCEPT ![b] = v]
  BY DEF Redirected
<1>5. ~Ended(b)
  BY DEF Redirected, Ended
<1> HIDE DEF v
<1>6. ThreadStep(b) /\ batches'[b] = v
  BY <1>3, <1>4, <1>5, Editing DEF Redirected
<1>7. redirects' \in 0..MaxRedirects
  BY BenchConstants DEF Redirected, Types
<1>8. /\ registry' \in [Clusters -> Nodes \cup {NoNode}]
      /\ \A c \in Clusters : registry'[c] \in ToSet(NodesOf[c]) \cup {NoNode}
  BY <1>2, Leaders DEF Redirected
<1>9. Types'
  BY <1>6, <1>7, <1>8 DEF Types, ThreadStep, Main, Batch, Redirected, Records
<1>10. SentTo'
  BY <1>3, <1>6 DEF SentTo, ThreadStep
<1> QED
  BY <1>6, <1>9, <1>10

LEMMA TypedAttemptFails ==
  ASSUME Types, SentTo, NEW b \in DOMAIN batches, AttemptFails(b)
  PROVE  Types' /\ SentTo' /\ ThreadStep(b)
<1> DEFINE v == IF batches[b].retries + 1 < MaxRetries
                THEN [batches[b] EXCEPT !.state = "again", !.retries = @ + 1, !.node = NoNode]
                ELSE [batches[b] EXCEPT !.state = "failed", !.retries = 0, !.node = NoNode]
<1>1. batches[b] \in Batch
  BY Typed
<1>2. batches[b].node \in Nodes
  BY DEF SentTo, AttemptFails
<1>3. v \in Batch /\ v.records = batches[b].records /\ v.state \in {"again", "failed"}
  <2>1. MaxRetries \in Nat /\ batches[b].retries \in 0..MaxRetries
    BY <1>1, BenchConstants DEF Batch
  <2>2. CASE batches[b].retries + 1 < MaxRetries
    <3>1. batches[b].retries + 1 \in 0..MaxRetries
      BY <2>1, <2>2
    <3>2. v = [batches[b] EXCEPT !.state = "again", !.retries = batches[b].retries + 1, !.node = NoNode]
      BY <2>2
    <3> QED
      BY <1>1, <3>1, <3>2 DEF Batch
  <2>3. CASE ~(batches[b].retries + 1 < MaxRetries)
    <3>1. 0 \in 0..MaxRetries
      BY <2>1
    <3>2. v = [batches[b] EXCEPT !.state = "failed", !.retries = 0, !.node = NoNode]
      BY <2>3
    <3> QED
      BY <1>1, <3>1, <3>2 DEF Batch
  <2> QED
    BY <2>2, <2>3
<1>4. batches' = [batches EXCEPT ![b] = v]
  BY DEF AttemptFails
<1>5. ~Ended(b)
  BY DEF AttemptFails, Ended
<1> HIDE DEF v
<1>6. ThreadStep(b) /\ batches'[b] = v
  BY <1>3, <1>4, <1>5, Editing DEF AttemptFails
<1>8. /\ registry' \in [Clusters -> Nodes \cup {NoNode}]
      /\ \A c \in Clusters : registry'[c] \in ToSet(NodesOf[c]) \cup {NoNode}
  BY <1>2, Leaders DEF AttemptFails
<1>9. Types'
  BY <1>6, <1>8 DEF Types, ThreadStep, Main, Batch, AttemptFails, Records
<1>10. SentTo'
  BY <1>3, <1>6 DEF SentTo, ThreadStep
<1> QED
  BY <1>6, <1>9, <1>10

\* The steps of the main thread.
LEMMA TypedConnect ==
  ASSUME Types, Connect
  PROVE  Types'
<1>1. main' \in Main
  BY DEF Types, Connect, Main
<1>2. pool' \in [Nodes -> Nat]
  BY DEF Connect
<1>3. /\ registry' \in [Clusters -> Nodes \cup {NoNode}]
      /\ \A c \in Clusters : registry'[c] \in ToSet(NodesOf[c]) \cup {NoNode}
  BY DEF Connect
<1>4. main'.futures = main.futures /\ main'.flushing = main.flushing
  BY DEF Types, Connect, Main
<1>5. UNCHANGED <<requests, buffer, batches, redirects, reported>>
  BY DEF Connect
<1> QED
  BY <1>1, <1>2, <1>3, <1>4, <1>5 DEF Types, Main, Batch, Records

\* How far the next chunk goes.
Upto == IF main.taken + ChunkSize <= requests THEN main.taken + ChunkSize ELSE requests

LEMMA Chunking ==
  ASSUME Types, TakeChunk, main.taken # requests
  PROVE  /\ Upto \in Nat /\ Upto \in main.taken..requests /\ Upto - main.taken <= ChunkSize
         /\ Upto - main.taken < ChunkSize => Upto = requests
         /\ main'.taken = Upto /\ main'.pc = "route" /\ main'.chunk \in Seq(Records)
         /\ main'.last = (Upto - main.taken < ChunkSize)
         /\ DOMAIN main'.chunk = 1..(Upto - main.taken)
         /\ \A i \in DOMAIN main'.chunk : main'.chunk[i] = main.taken + i
         /\ main'.routed = main.routed /\ main'.futures = main.futures
         /\ main'.flushing = main.flushing
<1>1. /\ requests \in Nat /\ main.taken \in Nat /\ main.taken <= requests
      /\ ChunkSize \in Nat /\ ChunkSize > 0 /\ main \in Main
  BY Typed, Numbers DEF Types
<1> DEFINE q == [i \in 1..(Upto - main.taken) |-> main.taken + i]
<1>2. /\ Upto \in Nat /\ Upto \in main.taken..requests /\ Upto - main.taken <= ChunkSize
      /\ Upto - main.taken < ChunkSize => Upto = requests
  BY <1>1 DEF Upto
<1>3. q \in Seq(Records)
  <2>1. Upto - main.taken \in Nat /\ \A i \in 1..(Upto - main.taken) : main.taken + i \in Records
    BY <1>1, <1>2 DEF Records
  <2>2. q \in [1..(Upto - main.taken) -> Records]
    BY <2>1
  <2> QED
    BY <2>1, <2>2
<1>4. main' = [main EXCEPT !.pc = "route", !.taken = Upto, !.last = Upto - main.taken < ChunkSize,
                           !.chunk = q]
  BY DEF TakeChunk, Upto
<1> HIDE DEF Upto
<1> QED
  BY <1>1, <1>2, <1>3, <1>4 DEF Main

LEMMA TypedTakeChunk ==
  ASSUME Types, TakeChunk
  PROVE  Types'
<1>1. main' \in Main /\ main'.futures = main.futures /\ main'.flushing = main.flushing
  <2>1. CASE main.taken = requests
    BY <2>1 DEF Types, TakeChunk, Main
  <2>2. CASE main.taken # requests
    <3>1. /\ Upto \in 0..requests /\ main'.chunk \in Seq(Records) /\ main \in Main
          /\ main'.futures = main.futures /\ main'.flushing = main.flushing
      BY <2>2, Chunking, Typed DEF Types
    <3>2. /\ main' = [main EXCEPT !.pc = "route", !.taken = Upto,
                                  !.last = Upto - main.taken < ChunkSize,
                                  !.chunk = [i \in 1..(Upto - main.taken) |-> main.taken + i]]
      BY <2>2 DEF TakeChunk, Upto
    <3> DEFINE q == [i \in 1..(Upto - main.taken) |-> main.taken + i]
               l == Upto - main.taken < ChunkSize
    <3>4. main' = [main EXCEPT !.pc = "route", !.taken = Upto, !.last = l, !.chunk = q] /\ l \in BOOLEAN
      BY <3>2
    <3> HIDE DEF q, l
    <3>3. q \in Seq(Records)
      BY <3>1, <3>4 DEF Main
    <3> HIDE DEF Upto
    <3> QED
      BY <3>1, <3>3, <3>4 DEF Main, Records, TakeChunk, sendVars
  <2> QED
    BY <2>1, <2>2
<1>2. UNCHANGED <<buffer, reported, sendVars>>
  BY DEF TakeChunk
<1> QED
  BY <1>1, <1>2 DEF Types, Main, Batch, Records, sendVars

\* A record goes from the chunk to a node.
LEMMA Routing ==
  ASSUME Types, NEW c \in Clusters, Route(c)
  PROVE  /\ RouteTo(c) \in Nodes /\ main.chunk # <<>>
         /\ main'.routed = [main.routed EXCEPT ![RouteTo(c)] = Append(@, Head(main.chunk))]
         /\ main'.chunk = Tail(main.chunk)
         /\ main'.routed \in [Nodes -> Seq(Records)] /\ main'.chunk \in Seq(Records)
         /\ main' \in Main /\ main'.pc = main.pc /\ main'.taken = main.taken
         /\ main'.last = main.last /\ main'.futures = main.futures /\ main'.flushing = main.flushing
<1>1. RouteTo(c) \in Nodes
  BY Nodal DEF RouteTo, Types
<1>2. main \in Main /\ main.chunk \in Seq(Records) /\ main.chunk # <<>>
      /\ main.routed \in [Nodes -> Seq(Records)]
  BY Typed DEF Types, Route
<1>3. Head(main.chunk) \in Records /\ Tail(main.chunk) \in Seq(Records)
  BY <1>2, HeadTailProperties
<1>4. Append(main.routed[RouteTo(c)], Head(main.chunk)) \in Seq(Records)
  BY <1>1, <1>2, <1>3, AppendProperties
<1> DEFINE r == [main.routed EXCEPT ![RouteTo(c)] = Append(@, Head(main.chunk))]
<1>5. r \in [Nodes -> Seq(Records)]
  BY <1>1, <1>2, <1>4
<1>6. main' = [main EXCEPT !.chunk = Tail(main.chunk), !.routed = r]
  BY <1>2 DEF Route, Main
<1> HIDE DEF r
<1>7. main' \in Main
  BY <1>2, <1>3, <1>5, <1>6 DEF Main, Records, Route, sendVars
<1>8. /\ main'.routed = r /\ main'.chunk = Tail(main.chunk) /\ main'.pc = main.pc
      /\ main'.taken = main.taken /\ main'.last = main.last
      /\ main'.futures = main.futures /\ main'.flushing = main.flushing
  BY <1>2, <1>6 DEF Main
<1> QED
  BY <1>1, <1>2, <1>3, <1>5, <1>7, <1>8 DEF r

LEMMA TypedRoute ==
  ASSUME Types, NEW c \in Clusters, Route(c)
  PROVE  Types'
<1>1. main' \in Main /\ main'.futures = main.futures /\ main'.flushing = main.flushing
  BY Routing
<1>2. UNCHANGED <<buffer, reported, sendVars>>
  BY DEF Route
<1> QED
  BY <1>1, <1>2 DEF Types, Main, Batch, Records, sendVars

\* Two sequences, one after the other.
LEMMA Joining ==
  ASSUME NEW S, NEW q \in Seq(S), NEW t \in Seq(S), NEW j, j = q \o t
  PROVE  /\ j \in Seq(S) /\ Len(j) = Len(q) + Len(t)
         /\ \A i \in 1..Len(q) : j[i] = q[i]
         /\ \A i \in 1..Len(t) : j[Len(q) + i] = t[i]
<1>1. Len(q) \in Nat /\ Len(t) \in Nat
  BY LenProperties
<1>2. /\ q \o t \in Seq(S) /\ Len(q \o t) = Len(q) + Len(t)
      /\ \A i \in 1..(Len(q) + Len(t)) :
           (q \o t)[i] = IF i <= Len(q) THEN q[i] ELSE t[i - Len(q)]
  BY ConcatProperties, ZenonT(30)
<1>3. ASSUME NEW i \in 1..Len(q)
      PROVE  j[i] = q[i]
  BY <1>1, <1>2
<1>4. ASSUME NEW i \in 1..Len(t)
      PROVE  j[Len(q) + i] = t[i]
  <2>1. /\ Len(q) + i \in 1..(Len(q) + Len(t)) /\ ~(Len(q) + i <= Len(q))
        /\ (Len(q) + i) - Len(q) = i
    BY <1>1
  <2> QED
    BY <1>2, <2>1
<1> QED
  BY <1>2, <1>3, <1>4

LEMMA Extending ==
  ASSUME Types, Extend
  PROVE  /\ main.chunk = <<>> /\ main' \in Main
         /\ main'.chunk = main.chunk /\ main'.routed = NothingRouted /\ main'.pc = "submit"
         /\ main'.taken = main.taken /\ main'.last = main.last
         /\ main'.futures = main.futures /\ main'.flushing = main.flushing
         /\ buffer' \in [Nodes -> Seq(Records)]
         /\ \A n \in Nodes :
              /\ DOMAIN buffer'[n] = 1..(Len(buffer[n]) + Len(main.routed[n]))
              /\ Len(buffer[n]) \in Nat /\ Len(main.routed[n]) \in Nat
              /\ DOMAIN buffer[n] = 1..Len(buffer[n])
              /\ DOMAIN main.routed[n] = 1..Len(main.routed[n])
              /\ \A i \in DOMAIN buffer[n] : buffer'[n][i] = buffer[n][i]
              /\ \A i \in DOMAIN main.routed[n] :
                   buffer'[n][Len(buffer[n]) + i] = main.routed[n][i]
<1>1. /\ main \in Main /\ main.routed \in [Nodes -> Seq(Records)]
      /\ buffer \in [Nodes -> Seq(Records)]
  BY Typed DEF Types
<1>2. ASSUME NEW n \in Nodes
      PROVE  /\ buffer'[n] \in Seq(Records)
             /\ DOMAIN buffer'[n] = 1..(Len(buffer[n]) + Len(main.routed[n]))
             /\ Len(buffer[n]) \in Nat /\ Len(main.routed[n]) \in Nat
             /\ DOMAIN buffer[n] = 1..Len(buffer[n])
             /\ DOMAIN main.routed[n] = 1..Len(main.routed[n])
             /\ \A i \in DOMAIN buffer[n] : buffer'[n][i] = buffer[n][i]
             /\ \A i \in DOMAIN main.routed[n] :
                  buffer'[n][Len(buffer[n]) + i] = main.routed[n][i]
  <2>1. buffer[n] \in Seq(Records) /\ main.routed[n] \in Seq(Records)
    BY <1>1
  <2>2. buffer'[n] = buffer[n] \o main.routed[n]
    BY DEF Extend
  <2>3. /\ Len(buffer[n]) \in Nat /\ Len(main.routed[n]) \in Nat
        /\ DOMAIN buffer[n] = 1..Len(buffer[n])
        /\ DOMAIN main.routed[n] = 1..Len(main.routed[n])
    BY <2>1, LenProperties
  <2>4. /\ buffer'[n] \in Seq(Records)
        /\ Len(buffer'[n]) = Len(buffer[n]) + Len(main.routed[n])
        /\ \A i \in 1..Len(buffer[n]) : buffer'[n][i] = buffer[n][i]
        /\ \A i \in 1..Len(main.routed[n]) :
             buffer'[n][Len(buffer[n]) + i] = main.routed[n][i]
    <3> DEFINE Joined(q, t, j) ==
                 /\ j \in Seq(Records) /\ Len(j) = Len(q) + Len(t)
                 /\ \A i \in 1..Len(q) : j[i] = q[i]
                 /\ \A i \in 1..Len(t) : j[Len(q) + i] = t[i]
    <3>1. \A q, t \in Seq(Records) : \A j : j = q \o t => Joined(q, t, j)
      BY Joining
    <3> HIDE DEF Joined
    <3>2. Joined(buffer[n], main.routed[n], buffer'[n])
      BY <2>1, <2>2, <3>1
    <3> QED
      BY <3>2, Zenon DEF Joined
  <2>5. DOMAIN buffer'[n] = 1..Len(buffer'[n])
    BY <2>4, LenProperties
  <2> QED
    BY <2>3, <2>4, <2>5
<1>3. DOMAIN buffer' = Nodes /\ buffer' = [n \in Nodes |-> buffer'[n]]
  BY DEF Extend
<1>4. buffer' \in [Nodes -> Seq(Records)]
  BY <1>2, <1>3
<1>5. NothingRouted \in [Nodes -> Seq(Records)]
  BY EmptySeq DEF NothingRouted
<1>6. main' = [main EXCEPT !.pc = "submit", !.routed = NothingRouted] /\ main.chunk = <<>>
  BY DEF Extend
<1>7. main' \in Main
  BY <1>1, <1>5, <1>6 DEF Main, Records, Extend, sendVars
<1>8. /\ main'.chunk = main.chunk /\ main'.routed = NothingRouted /\ main'.pc = "submit"
      /\ main'.taken = main.taken /\ main'.last = main.last
      /\ main'.futures = main.futures /\ main'.flushing = main.flushing
  BY <1>1, <1>6 DEF Main
<1> QED
  BY <1>2, <1>4, <1>6, <1>7, <1>8

LEMMA TypedExtend ==
  ASSUME Types, Extend
  PROVE  Types'
<1>1. /\ main' \in Main /\ main'.futures = main.futures /\ main'.flushing = main.flushing
      /\ buffer' \in [Nodes -> Seq(Records)]
  BY Extending
<1>2. UNCHANGED <<reported, sendVars>>
  BY DEF Extend
<1> QED
  BY <1>1, <1>2 DEF Types, Main, Batch, Records, sendVars

\* What batches are cut from, and what is left of it.
LEMMA Cutting ==
  ASSUME Types, NEW n \in Nodes, NEW k \in Nat, k <= Len(buffer[n])
  PROVE  LET front == SubSeq(buffer[n], 1, k)
             rest == SubSeq(buffer[n], k + 1, Len(buffer[n]))
         IN  /\ Len(buffer[n]) \in Nat /\ DOMAIN buffer[n] = 1..Len(buffer[n])
             /\ front \in Seq(Records) /\ rest \in Seq(Records)
             /\ Len(front) = k /\ DOMAIN front = 1..k
             /\ DOMAIN rest = 1..(Len(buffer[n]) - k)
             /\ \A i \in DOMAIN front : front[i] = buffer[n][i]
             /\ \A i \in DOMAIN rest : rest[i] = buffer[n][k + i]
<1> DEFINE q == buffer[n]
           m == Len(q)
<1>1. q \in Seq(Records) /\ m \in Nat /\ DOMAIN q = 1..m
  BY LenProperties DEF Types
<1> DEFINE front == SubSeq(q, 1, k)
           rest == SubSeq(q, k + 1, m)
<1>2. \A i \in 1..m : q[i] \in Records
  BY <1>1, ElementOfSeq
<1> HIDE DEF q
<1>3. front \in Seq(Records) /\ Len(front) = k /\ \A i \in 1..k : front[i] = q[i]
  <2>1. k \in Int /\ 1 \in Int /\ \A i \in 1..k : q[i] \in Records
    BY <1>1, <1>2 DEF q
  <2>2. /\ front \in Seq(Records)
        /\ Len(front) = IF 1 <= k THEN k - 1 + 1 ELSE 0
        /\ \A i \in 1..(k - 1 + 1) : front[i] = q[1 + i - 1]
    BY <2>1, SubSeqProperties
  <2> QED
    BY <2>2
<1>4. rest \in Seq(Records) /\ Len(rest) = m - k /\ \A i \in 1..(m - k) : rest[i] = q[k + i]
  <2>1. k + 1 \in Int /\ m \in Int /\ k <= m /\ \A i \in (k + 1)..m : q[i] \in Records
    BY <1>1, <1>2 DEF q
  <2>2. /\ rest \in Seq(Records)
        /\ Len(rest) = IF k + 1 <= m THEN m - (k + 1) + 1 ELSE 0
        /\ \A i \in 1..(m - (k + 1) + 1) : rest[i] = q[(k + 1) + i - 1]
    BY <2>1, SubSeqProperties
  <2>3. Len(rest) = m - k
    <3>1. PICK w \in Nat : w = m
      BY <1>1
    <3>2. (IF k + 1 <= w THEN w - (k + 1) + 1 ELSE 0) = w - k
      BY <2>1, <3>1
    <3> QED
      BY <2>2, <3>1, <3>2
  <2>4. ASSUME NEW i \in 1..(m - k)
        PROVE  rest[i] = q[k + i]
    <3>1. i \in 1..(m - (k + 1) + 1) /\ (k + 1) + i - 1 = k + i
      BY <1>1
    <3> HIDE DEF rest
    <3> QED
      BY <2>2, <3>1
  <2> QED
    BY <2>2, <2>3, <2>4
<1>5. DOMAIN front = 1..k /\ DOMAIN rest = 1..(m - k)
  BY <1>3, <1>4, LenProperties
<1> QED
  BY <1>1, <1>3, <1>4, <1>5 DEF q

\* A batch of k records is cut from the buffer of n and submitted.
Cuts(n, k) ==
  /\ n \in Nodes /\ k \in Nat /\ k <= Len(buffer[n])
  /\ batches' = Append(batches, NewBatch(n, SubSeq(buffer[n], 1, k)))
  /\ buffer' = [buffer EXCEPT ![n] = SubSeq(buffer[n], k + 1, Len(buffer[n]))]
  /\ UNCHANGED <<requests, registry, pool, redirects, reported>>

LEMMA SubmitCuts ==
  ASSUME Types, NEW n \in Nodes, Submit(n)
  PROVE  /\ Cuts(n, BatchSize)
         /\ main' \in Main /\ main'.chunk = main.chunk /\ main'.routed = main.routed
         /\ main'.pc = main.pc /\ main'.taken = main.taken /\ main'.last = main.last
         /\ main'.futures = main.futures \cup {Len(batches) + 1}
         /\ main'.flushing = main.flushing
<1>1. Cuts(n, BatchSize)
  BY Numbers DEF Cuts, Submit, Full, Types
<1>2. main \in Main /\ Len(batches) + 1 \in Nat
  BY Typed DEF Types
<1>3. main' = [main EXCEPT !.futures = main.futures \cup {Len(batches) + 1}]
  BY DEF Submit
<1>4. main.futures \cup {Len(batches) + 1} \in SUBSET Nat
  BY <1>2 DEF Main
<1> QED
  BY <1>1, <1>2, <1>3, <1>4 DEF Main, Submit, Records

LEMMA FlushCuts ==
  ASSUME Types, NEW n \in Nodes, Flush(n)
  PROVE  /\ Cuts(n, Len(buffer[n])) /\ Len(buffer[n]) > 0
         /\ main' \in Main /\ main'.chunk = main.chunk /\ main'.routed = main.routed
         /\ main'.pc = main.pc /\ main'.taken = main.taken /\ main'.last = main.last
         /\ main'.futures = main.futures
         /\ main'.flushing = main.flushing \cup {Len(batches) + 1}
<1>1. buffer[n] \in Seq(Records) /\ buffer[n] # <<>>
  BY DEF Types, Flush, Unflushed
<1>2. Len(buffer[n]) \in Nat /\ Len(buffer[n]) > 0
  BY <1>1, EmptySeq
<1>3. SubSeq(buffer[n], 1, Len(buffer[n])) = buffer[n]
  BY <1>1, SubSeqFull
<1>4. SubSeq(buffer[n], Len(buffer[n]) + 1, Len(buffer[n])) = <<>>
  BY <1>2, SubSeqEmpty
<1>5. Cuts(n, Len(buffer[n]))
  <2>1. /\ batches' = Append(batches, NewBatch(n, SubSeq(buffer[n], 1, Len(buffer[n]))))
        /\ UNCHANGED <<requests, registry, pool, redirects, reported>>
    BY <1>3, Zenon DEF Flush
  <2>2. buffer' = [buffer EXCEPT ![n] = SubSeq(buffer[n], Len(buffer[n]) + 1, Len(buffer[n]))]
    BY <1>4, Zenon DEF Flush
  <2> QED
    BY <1>2, <2>1, <2>2 DEF Cuts
<1>6. main \in Main /\ Len(batches) + 1 \in Nat
  BY Typed DEF Types
<1>7. main' = [main EXCEPT !.flushing = main.flushing \cup {Len(batches) + 1}]
  BY DEF Flush
<1>8. main.flushing \cup {Len(batches) + 1} \in SUBSET Nat
  BY <1>6 DEF Main
<1> QED
  BY <1>2, <1>5, <1>6, <1>7, <1>8 DEF Main, Flush, Records

\* The new batch and what is left of the buffer.
LEMMA CutTypes ==
  ASSUME Types, NEW n, NEW k, Cuts(n, k)
  PROVE  /\ batches' \in Seq(Batch) /\ Len(batches') = Len(batches) + 1
         /\ DOMAIN batches' = 1..(Len(batches) + 1) /\ DOMAIN batches \subseteq DOMAIN batches'
         /\ Len(batches) + 1 \in DOMAIN batches' /\ Len(batches) + 1 \notin DOMAIN batches
         /\ \A b \in DOMAIN batches : batches'[b] = batches[b]
         /\ batches'[Len(batches) + 1] = NewBatch(n, SubSeq(buffer[n], 1, k))
         /\ buffer' \in [Nodes -> Seq(Records)]
         /\ \A m \in Nodes : m # n => buffer'[m] = buffer[m]
         /\ buffer'[n] = SubSeq(buffer[n], k + 1, Len(buffer[n]))
<1>1. /\ n \in Nodes /\ k \in Nat /\ k <= Len(buffer[n])
      /\ batches' = Append(batches, NewBatch(n, SubSeq(buffer[n], 1, k)))
      /\ buffer' = [buffer EXCEPT ![n] = SubSeq(buffer[n], k + 1, Len(buffer[n]))]
  BY DEF Cuts
<1>2. /\ SubSeq(buffer[n], 1, k) \in Seq(Records)
      /\ SubSeq(buffer[n], k + 1, Len(buffer[n])) \in Seq(Records)
  BY <1>1, Cutting
<1>3. Len(batches) \in Nat /\ DOMAIN batches = 1..Len(batches) /\ buffer \in [Nodes -> Seq(Records)]
  BY Typed DEF Types
<1>4. Len(batches) + 1 \in 1..(Len(batches) + 1) /\ Len(batches) + 1 \notin 1..Len(batches)
  BY <1>3
<1>5. /\ batches' \in Seq(Batch) /\ Len(batches') = Len(batches) + 1
      /\ DOMAIN batches' = 1..(Len(batches) + 1) /\ DOMAIN batches \subseteq DOMAIN batches'
      /\ \A b \in DOMAIN batches : batches'[b] = batches[b]
      /\ batches'[Len(batches) + 1] = NewBatch(n, SubSeq(buffer[n], 1, k))
  BY <1>1, <1>2, Appending
<1> QED
  BY <1>1, <1>2, <1>3, <1>4, <1>5

LEMMA TypedCuts ==
  ASSUME Types, SentTo, NEW n, NEW k, Cuts(n, k), main' \in Main,
         main'.futures \cup main'.flushing
           \subseteq main.futures \cup main.flushing \cup {Len(batches) + 1}
  PROVE  Types' /\ SentTo'
<1>1. UNCHANGED <<requests, registry, pool, redirects, reported>>
  BY DEF Cuts
<1>2. /\ batches' \in Seq(Batch) /\ DOMAIN batches \subseteq DOMAIN batches'
      /\ Len(batches) + 1 \in DOMAIN batches' /\ DOMAIN batches = 1..Len(batches)
      /\ DOMAIN batches' = 1..(Len(batches) + 1) /\ Len(batches) \in Nat
      /\ \A b \in DOMAIN batches : batches'[b] = batches[b]
      /\ batches'[Len(batches) + 1] = NewBatch(n, SubSeq(buffer[n], 1, k))
      /\ buffer' \in [Nodes -> Seq(Records)]
  BY CutTypes, Typed
<1>3. (main.futures \cup main.flushing \cup reported)' \subseteq DOMAIN batches'
  BY <1>1, <1>2 DEF Types
<1>4. main' \in Main' /\ batches' \in Seq(Batch)' /\ buffer' \in [Nodes -> Seq(Records)]'
  BY <1>1, <1>2 DEF Main, Batch, Records
<1>5. Types'
  BY <1>1, <1>3, <1>4 DEF Types
<1>6. SentTo'
  <2>1. ASSUME NEW b \in DOMAIN batches', batches'[b].state \in {"connect", "sent"}
        PROVE  batches'[b].node \in Nodes
    <3>1. b # Len(batches) + 1
      BY <1>2, <2>1 DEF NewBatch
    <3>2. b \in DOMAIN batches
      BY <1>2, <3>1
    <3> QED
      BY <1>2, <2>1, <3>2 DEF SentTo
  <2> QED
    BY <2>1 DEF SentTo
<1> QED
  BY <1>5, <1>6

LEMMA Waits ==
  ASSUME Types, Throttle \/ Finish
  PROVE  /\ main' \in Main /\ main'.futures \subseteq main.futures
         /\ main'.chunk = main.chunk /\ main'.routed = main.routed
         /\ main'.taken = main.taken /\ main'.last = main.last /\ main'.flushing = main.flushing
         /\ main'.pc = IF main.pc = "throttle" THEN "stream" ELSE "ended"
         /\ main.pc \in {"throttle", "wait"}
         /\ \A b \in main.futures \ main'.futures : Ended(b)
         /\ reported' = reported \cup FailedOf(main.futures)
         /\ UNCHANGED <<requests, buffer, batches, registry, redirects>>
<1>1. main \in Main /\ main.futures \in SUBSET Nat
  BY DEF Types, Main
<1>2. CASE Throttle
  <2> DEFINE f == {b \in main.futures : ~Ended(b)}
  <2>1. main' = [main EXCEPT !.pc = "stream", !.futures = f]
    BY <1>2 DEF Throttle
  <2>2. f \in SUBSET Nat /\ f \subseteq main.futures /\ \A b \in main.futures \ f : Ended(b)
    BY <1>1
  <2> HIDE DEF f
  <2> QED
    BY <1>1, <1>2, <2>1, <2>2 DEF Main, Throttle, sendVars
<1>3. CASE Finish
  <2>1. \A b \in main.futures : Ended(b)
    BY <1>3 DEF Finish
  <2> QED
    BY <1>1, <1>3, <2>1 DEF Main, Finish
<1> QED
  BY <1>2, <1>3

LEMMA TypedWaits ==
  ASSUME Types, Throttle \/ Finish
  PROVE  Types'
<1>1. /\ main' \in Main /\ main'.futures \subseteq main.futures
      /\ main'.flushing = main.flushing
      /\ reported' = reported \cup FailedOf(main.futures)
      /\ UNCHANGED <<requests, buffer, batches, registry, redirects>>
  BY Waits
<1>2. pool' \in [Nodes -> Nat]
  BY DEF Types, Throttle, Finish, sendVars, Disconnected
<1>3. FailedOf(main.futures) \subseteq main.futures
  BY DEF FailedOf
<1> QED
  BY <1>1, <1>2, <1>3 DEF Types, Main, Batch, Records

LEMMA TypedOthers ==
  ASSUME Types, WriteReturns \/ FlushEnds \/ FlushRaises
  PROVE  /\ Types' /\ UNCHANGED <<requests, buffer, batches>>
         /\ main'.futures = main.futures /\ main'.flushing = main.flushing
         /\ main'.chunk = main.chunk /\ main'.routed = main.routed
         /\ main'.taken = main.taken /\ main'.last = main.last
<1>1. PICK c \in {"flush", "throttle", "stream", "wait", "error"} : main' = [main EXCEPT !.pc = c]
  BY DEF WriteReturns, FlushEnds, FlushRaises
<1>2. UNCHANGED <<requests, buffer, batches, registry, redirects>>
  BY DEF WriteReturns, FlushEnds, FlushRaises, sendVars
<1>3. pool' \in [Nodes -> Nat]
  BY DEF Types, WriteReturns, FlushEnds, FlushRaises, sendVars, Disconnected
<1>4. reported' \subseteq DOMAIN batches
  <2>1. reported' = reported \/ \E b \in FailedOf(main.flushing) : reported' = reported \cup {b}
    BY DEF WriteReturns, FlushEnds, FlushRaises
  <2>2. FailedOf(main.flushing) \subseteq main.flushing
    BY DEF FailedOf
  <2> QED
    BY <2>1, <2>2 DEF Types
<1>5. main \in Main
  BY DEF Types
<1>6. /\ main' \in Main /\ main'.futures = main.futures /\ main'.flushing = main.flushing
      /\ main'.chunk = main.chunk /\ main'.routed = main.routed
      /\ main'.taken = main.taken /\ main'.last = main.last
  BY <1>1, <1>5 DEF Main
<1> QED
  BY <1>2, <1>3, <1>4, <1>6 DEF Types, Main, Batch, Records

\* Every step keeps the types.
LEMMA TypesStep ==
  ASSUME Types, SentTo, [Next]_vars
  PROVE  Types' /\ SentTo'
<1>1. CASE UNCHANGED vars
  BY <1>1 DEF vars, Types, SentTo, Main, Batch, Records
<1>2. CASE Connect
  BY <1>2, TypedConnect DEF Connect, SentTo
<1>3. CASE TakeChunk
  BY <1>3, TypedTakeChunk DEF TakeChunk, sendVars, SentTo
<1>4. CASE Extend
  BY <1>4, TypedExtend DEF Extend, sendVars, SentTo
<1>5. CASE WriteReturns \/ FlushEnds \/ FlushRaises
  BY <1>5, TypedOthers DEF SentTo
<1>6. CASE Throttle \/ Finish
  BY <1>6, TypedWaits, Waits DEF SentTo
<1>7. ASSUME NEW c \in Clusters, Route(c)
      PROVE  Types' /\ SentTo'
  BY <1>7, TypedRoute DEF Route, sendVars, SentTo
<1>8. ASSUME NEW n \in Nodes, Submit(n)
      PROVE  Types' /\ SentTo'
  <2>1. /\ Cuts(n, BatchSize) /\ main' \in Main
        /\ main'.futures = main.futures \cup {Len(batches) + 1} /\ main'.flushing = main.flushing
    BY <1>8, SubmitCuts
  <2> QED
    BY <2>1, TypedCuts
<1>9. ASSUME NEW n \in Nodes, Flush(n)
      PROVE  Types' /\ SentTo'
  <2>1. /\ Cuts(n, Len(buffer[n])) /\ main' \in Main
        /\ main'.futures = main.futures /\ main'.flushing = main.flushing \cup {Len(batches) + 1}
    BY <1>9, FlushCuts
  <2> QED
    BY <2>1, TypedCuts
<1>10. ASSUME NEW b \in DOMAIN batches,
              \/ Attempt(b) \/ Send(b) \/ Acknowledged(b) \/ AttemptFails(b)
              \/ \E l \in ToSet(NodesOf[batches[b].cluster]) : Redirected(b, l)
       PROVE  Types' /\ SentTo'
  BY <1>10, TypedAttempt, TypedSend, TypedAcknowledged, TypedRedirected, TypedAttemptFails
<1> QED
  BY <1>1, <1>2, <1>3, <1>4, <1>5, <1>6, <1>7, <1>8, <1>9, <1>10 DEF Next

---------------------------------------------------------------------------
(* Records in places.                                                      *)

\* The lists as one function.
Held == [l \in Lists |-> RecordsIn(l)]

\* The records 1..t are spread over the lists F, each in one place.
Spread(F, t) ==
  /\ \A l \in DOMAIN F : \A i \in DOMAIN F[l] : F[l][i] \in 1..t
  /\ \A r \in 1..t : \E l \in DOMAIN F : \E i \in DOMAIN F[l] : F[l][i] = r
  /\ \A l, m \in DOMAIN F : \A i \in DOMAIN F[l], j \in DOMAIN F[m] :
       F[l][i] = F[m][j] => l = m /\ i = j

\* The same, said of the lists instead of the places.
LEMMA Spreading == RecordsAccounted <=> Spread(Held, main.taken)
<1>1. DOMAIN Held = Lists /\ \A l \in Lists : Held[l] = RecordsIn(l)
  BY DEF Held
<1>2. \A p : p \in Places <=> \E l \in Lists : \E i \in DOMAIN RecordsIn(l) : p = <<l, i>>
  BY DEF Places
<1>3. \A l \in Lists : \A i \in DOMAIN RecordsIn(l) : RecordAt(<<l, i>>) = RecordsIn(l)[i]
  BY DEF RecordAt
<1>4. ASSUME RecordsAccounted
      PROVE  Spread(Held, main.taken)
  <2>1. \A p \in Places : RecordAt(p) \in 1..main.taken
    BY <1>4 DEF RecordsAccounted
  <2>2. \A r \in 1..main.taken : \E p \in Places : RecordAt(p) = r
    BY <1>4 DEF RecordsAccounted
  <2>3. \A p, q \in Places : RecordAt(p) = RecordAt(q) => p = q
    BY <1>4 DEF RecordsAccounted
  <2>4. \A l \in Lists : \A i \in DOMAIN RecordsIn(l) : RecordsIn(l)[i] \in 1..main.taken
    BY <1>2, <1>3, <2>1
  <2>5. \A r \in 1..main.taken : \E l \in Lists : \E i \in DOMAIN RecordsIn(l) : RecordsIn(l)[i] = r
    BY <1>2, <1>3, <2>2
  <2>6. \A l, m \in Lists : \A i \in DOMAIN RecordsIn(l), j \in DOMAIN RecordsIn(m) :
          RecordsIn(l)[i] = RecordsIn(m)[j] => l = m /\ i = j
    <3>1. ASSUME NEW l \in Lists, NEW m \in Lists, NEW i \in DOMAIN RecordsIn(l),
                 NEW j \in DOMAIN RecordsIn(m), RecordsIn(l)[i] = RecordsIn(m)[j]
          PROVE  l = m /\ i = j
      <4>1. <<l, i>> \in Places /\ <<m, j>> \in Places
        BY <1>2
      <4>2. <<l, i>> = <<m, j>>
        BY <1>3, <2>3, <3>1, <4>1
      <4> QED
        BY <4>2
    <3> QED
      BY <3>1
  <2> QED
    BY <1>1, <2>4, <2>5, <2>6 DEF Spread
<1>5. ASSUME Spread(Held, main.taken)
      PROVE  RecordsAccounted
  <2>1. \A p \in Places : RecordAt(p) \in 1..main.taken
    BY <1>1, <1>2, <1>3, <1>5 DEF Spread
  <2>2. \A r \in 1..main.taken : \E p \in Places : RecordAt(p) = r
    <3>1. ASSUME NEW r \in 1..main.taken
          PROVE  \E p \in Places : RecordAt(p) = r
      <4>1. PICK l \in Lists : \E i \in DOMAIN RecordsIn(l) : RecordsIn(l)[i] = r
        BY <1>1, <1>5 DEF Spread
      <4>2. PICK i \in DOMAIN RecordsIn(l) : RecordsIn(l)[i] = r
        BY <4>1
      <4> QED
        BY <1>2, <1>3, <4>2
    <3> QED
      BY <3>1
  <2>3. \A p, q \in Places : RecordAt(p) = RecordAt(q) => p = q
    <3>1. ASSUME NEW p \in Places, NEW q \in Places, RecordAt(p) = RecordAt(q)
          PROVE  p = q
      <4>1. PICK l \in Lists : \E i \in DOMAIN RecordsIn(l) : p = <<l, i>>
        BY <1>2
      <4>2. PICK i \in DOMAIN RecordsIn(l) : p = <<l, i>>
        BY <4>1
      <4>3. PICK m \in Lists : \E j \in DOMAIN RecordsIn(m) : q = <<m, j>>
        BY <1>2
      <4>4. PICK j \in DOMAIN RecordsIn(m) : q = <<m, j>>
        BY <4>3
      <4>5. RecordsIn(l)[i] = RecordsIn(m)[j]
        BY <1>3, <3>1, <4>2, <4>4
      <4> QED
        BY <1>1, <1>5, <4>2, <4>4, <4>5 DEF Spread
    <3> QED
      BY <3>1
  <2> QED
    BY <2>1, <2>2, <2>3 DEF RecordsAccounted
<1> QED
  BY <1>4, <1>5

\* The same of the next state.
AllSpread == Spread(Held, main.taken)

LEMMA SpreadingToo == [](RecordsAccounted <=> AllSpread)
<1>1. RecordsAccounted <=> AllSpread
  BY Spreading DEF AllSpread
<1> QED
  BY <1>1, PTL

\* The first k records of one list are moved to the end of another, which may
\* be a new one.
Moved(F, G, a, b, k, h, m) ==
  /\ a \in DOMAIN F /\ a # b /\ DOMAIN G = DOMAIN F \cup {b}
  /\ \A l \in DOMAIN F : l # a /\ l # b => G[l] = F[l]
  /\ DOMAIN F[a] = 1..(k + m) /\ DOMAIN G[a] = 1..m /\ \A i \in 1..m : G[a][i] = F[a][k + i]
  /\ DOMAIN G[b] = 1..(h + k) /\ \A i \in 1..k : G[b][h + i] = F[a][i]
  /\ b \in DOMAIN F => DOMAIN F[b] = 1..h /\ \A i \in 1..h : G[b][i] = F[b][i]
  /\ b \notin DOMAIN F => h = 0

LEMMA Moving ==
  ASSUME NEW F, NEW G, NEW t, Spread(F, t), NEW a, NEW b,
         NEW k \in Nat, NEW h \in Nat, NEW m \in Nat, Moved(F, G, a, b, k, h, m)
  PROVE  Spread(G, t)
<1>0. /\ a \in DOMAIN F /\ a # b /\ DOMAIN G = DOMAIN F \cup {b}
      /\ \A l \in DOMAIN F : l # a /\ l # b => G[l] = F[l]
      /\ DOMAIN F[a] = 1..(k + m) /\ DOMAIN G[a] = 1..m /\ \A i \in 1..m : G[a][i] = F[a][k + i]
      /\ DOMAIN G[b] = 1..(h + k) /\ \A i \in 1..k : G[b][h + i] = F[a][i]
      /\ b \in DOMAIN F => DOMAIN F[b] = 1..h /\ \A i \in 1..h : G[b][i] = F[b][i]
      /\ b \notin DOMAIN F => h = 0
  BY Zenon DEF Moved
<1> DEFINE Origin(l, i, x, y) ==
             \/ l # a /\ l # b /\ x = l /\ y = i
             \/ l = a /\ x = a /\ y = k + i /\ i \in 1..m
             \/ l = b /\ x = b /\ y = i /\ i \in 1..h
             \/ l = b /\ x = a /\ i = h + y /\ y \in 1..k
<1>1. ASSUME NEW l \in DOMAIN G, NEW i \in DOMAIN G[l]
      PROVE  \E x \in DOMAIN F : \E y \in DOMAIN F[x] : Origin(l, i, x, y) /\ G[l][i] = F[x][y]
  <2>1. CASE l # a /\ l # b
    BY <1>0, <2>1
  <2>2. CASE l = a
    <3>1. k + i \in 1..(k + m) /\ i \in 1..m
      BY <1>0, <2>2
    <3> QED
      BY <1>0, <2>2, <3>1
  <2>3. CASE l = b /\ i <= h
    <3>1. i \in 1..h /\ b \in DOMAIN F
      BY <1>0, <2>3
    <3> QED
      BY <1>0, <2>3, <3>1
  <2>4. CASE l = b /\ ~(i <= h)
    <3>1. PICK y \in 1..k : i = h + y
      <4>1. i - h \in 1..k /\ i = h + (i - h)
        BY <1>0, <2>4
      <4> QED
        BY <4>1
    <3>2. y \in 1..(k + m)
      OBVIOUS
    <3> QED
      BY <1>0, <2>4, <3>1, <3>2
  <2> QED
    BY <2>1, <2>2, <2>3, <2>4
<1>2. ASSUME NEW x \in DOMAIN F, NEW y \in DOMAIN F[x]
      PROVE  \E l \in DOMAIN G : \E i \in DOMAIN G[l] : G[l][i] = F[x][y]
  <2>1. CASE x # a /\ x # b
    BY <1>0, <2>1
  <2>2. CASE x = a /\ y <= k
    <3>1. y \in 1..k /\ h + y \in 1..(h + k)
      BY <1>0, <2>2
    <3> QED
      BY <1>0, <2>2, <3>1
  <2>3. CASE x = a /\ ~(y <= k)
    <3>1. PICK i \in 1..m : y = k + i
      <4>1. y - k \in 1..m /\ y = k + (y - k)
        BY <1>0, <2>3
      <4> QED
        BY <4>1
    <3> QED
      BY <1>0, <2>3, <3>1
  <2>4. CASE x = b
    <3>1. y \in 1..h /\ y \in 1..(h + k)
      BY <1>0, <2>4
    <3> QED
      BY <1>0, <2>4, <3>1
  <2> QED
    BY <2>1, <2>2, <2>3, <2>4
<1>3. ASSUME NEW l, NEW i, NEW o, NEW j, NEW x, NEW y, Origin(l, i, x, y), Origin(o, j, x, y)
      PROVE  l = o /\ i = j
  BY <1>0, <1>3
<1> HIDE DEF Origin
<1>4. ASSUME NEW l \in DOMAIN G, NEW i \in DOMAIN G[l]
      PROVE  G[l][i] \in 1..t
  BY <1>1 DEF Spread
<1>5. ASSUME NEW r \in 1..t
      PROVE  \E l \in DOMAIN G : \E i \in DOMAIN G[l] : G[l][i] = r
  <2>1. PICK x \in DOMAIN F : \E y \in DOMAIN F[x] : F[x][y] = r
    BY DEF Spread
  <2> QED
    BY <1>2, <2>1
<1>6. ASSUME NEW l \in DOMAIN G, NEW o \in DOMAIN G, NEW i \in DOMAIN G[l], NEW j \in DOMAIN G[o],
             G[l][i] = G[o][j]
      PROVE  l = o /\ i = j
  <2>1. PICK x \in DOMAIN F : \E y \in DOMAIN F[x] : Origin(l, i, x, y) /\ G[l][i] = F[x][y]
    BY <1>1
  <2>2. PICK y \in DOMAIN F[x] : Origin(l, i, x, y) /\ G[l][i] = F[x][y]
    BY <2>1
  <2>3. PICK v \in DOMAIN F : \E w \in DOMAIN F[v] : Origin(o, j, v, w) /\ G[o][j] = F[v][w]
    BY <1>1
  <2>4. PICK w \in DOMAIN F[v] : Origin(o, j, v, w) /\ G[o][j] = F[v][w]
    BY <2>3
  <2>5. x = v /\ y = w
    <3>1. \A e, g \in DOMAIN F : \A c \in DOMAIN F[e], d \in DOMAIN F[g] :
            F[e][c] = F[g][d] => e = g /\ c = d
      BY Zenon DEF Spread
    <3>2. F[x][y] = F[v][w]
      BY <1>6, <2>2, <2>4
    <3> QED
      <4>1. x \in DOMAIN F /\ v \in DOMAIN F
        BY <2>1, <2>3
      <4>2. y \in DOMAIN F[x] /\ w \in DOMAIN F[v]
        BY <2>2, <2>4
      <4> QED
        BY <3>1, <3>2, <4>1, <4>2
  <2> QED
    BY <1>3, <2>2, <2>4, <2>5
<1> QED
  BY <1>4, <1>5, <1>6 DEF Spread

\* The names of the lists.
ChunkList   == <<"chunk", 0>>
RoutedTo(n) == <<"routed", n>>
BufferOf(n) == <<"buffer", n>>
BatchOf(b)  == <<"batch", b>>

LEMMA Names ==
  /\ \A n : ChunkList # RoutedTo(n) /\ ChunkList # BufferOf(n) /\ ChunkList # BatchOf(n)
  /\ \A n, m : RoutedTo(n) # BufferOf(m) /\ RoutedTo(n) # BatchOf(m) /\ BufferOf(n) # BatchOf(m)
  /\ \A n, m : RoutedTo(n) = RoutedTo(m) => n = m
  /\ \A n, m : BufferOf(n) = BufferOf(m) => n = m
  /\ \A n, m : BatchOf(n) = BatchOf(m) => n = m
BY DEF ChunkList, RoutedTo, BufferOf, BatchOf

\* What the lists are.
Listed ==
  /\ DOMAIN Held = Lists
  /\ ChunkList \in Lists /\ Held[ChunkList] = main.chunk
  /\ \A n : RoutedTo(n) \in Lists <=> n \in Nodes
  /\ \A n : BufferOf(n) \in Lists <=> n \in Nodes
  /\ \A b : BatchOf(b) \in Lists <=> b \in DOMAIN batches
  /\ \A n \in Nodes : Held[RoutedTo(n)] = main.routed[n] /\ Held[BufferOf(n)] = buffer[n]
  /\ \A b \in DOMAIN batches : Held[BatchOf(b)] = batches[b].records
  /\ \A l \in Lists : \/ l = ChunkList
                      \/ \E n \in Nodes : l = RoutedTo(n) \/ l = BufferOf(n)
                      \/ \E b \in DOMAIN batches : l = BatchOf(b)

LEMMA Listing == []Listed
<1>1. Listed
  <2>1. DOMAIN Held = Lists /\ \A l \in Lists : Held[l] = RecordsIn(l)
    BY DEF Held
  <2>2. /\ ChunkList \in Lists
        /\ \A n : RoutedTo(n) \in Lists <=> n \in Nodes
        /\ \A n : BufferOf(n) \in Lists <=> n \in Nodes
        /\ \A b : BatchOf(b) \in Lists <=> b \in DOMAIN batches
    BY DEF Lists, ChunkList, RoutedTo, BufferOf, BatchOf
  <2>3. /\ RecordsIn(ChunkList) = main.chunk
        /\ \A n : RecordsIn(RoutedTo(n)) = main.routed[n] /\ RecordsIn(BufferOf(n)) = buffer[n]
        /\ \A b : RecordsIn(BatchOf(b)) = batches[b].records
    BY DEF RecordsIn, ChunkList, RoutedTo, BufferOf, BatchOf
  <2>4. \A l \in Lists : \/ l = ChunkList
                         \/ \E n \in Nodes : l = RoutedTo(n) \/ l = BufferOf(n)
                         \/ \E b \in DOMAIN batches : l = BatchOf(b)
    BY DEF Lists, ChunkList, RoutedTo, BufferOf, BatchOf
  <2> QED
    BY <2>1, <2>2, <2>3, <2>4 DEF Listed
<1> QED
  BY <1>1, PTL

\* A step that moves no record.
LEMMA NothingMoves ==
  ASSUME Types, RecordsAccounted, main'.taken = main.taken, main'.chunk = main.chunk,
         main'.routed = main.routed, buffer' = buffer, DOMAIN batches' = DOMAIN batches,
         \A a \in DOMAIN batches : batches'[a].records = batches[a].records
  PROVE  RecordsAccounted'
<1>1. Listed /\ Listed'
  BY Listing, PTL
<1>2. Lists' = Lists
  BY DEF Lists
<1>3. ASSUME NEW l \in Lists
      PROVE  Held'[l] = Held[l]
  BY <1>1, <1>2 DEF Listed
<1>4. Held' = Held
  <2>1. Held' = [l \in Lists' |-> Held'[l]] /\ Held = [l \in Lists |-> Held[l]]
    BY DEF Held
  <2> QED
    BY <1>2, <1>3, <2>1
<1>5. (RecordsAccounted <=> AllSpread) /\ (RecordsAccounted' <=> AllSpread')
  BY SpreadingToo, PTL
<1> QED
  BY <1>4, <1>5 DEF AllSpread

\* The head of a sequence, what follows it, and an element put at the end.
LEMMA Heads ==
  ASSUME NEW S, NEW q \in Seq(S), q # <<>>
  PROVE  \E m \in Nat : /\ DOMAIN q = 1..(1 + m) /\ DOMAIN Tail(q) = 1..m
                        /\ \A i \in 1..m : Tail(q)[i] = q[1 + i]
                        /\ Head(q) = q[1] /\ Len(q) = 1 + m
<1>1. Len(q) \in Nat \ {0} /\ DOMAIN q = 1..Len(q)
  BY EmptySeq, LenProperties
<1>2. Tail(q) \in Seq(S) /\ Len(Tail(q)) = Len(q) - 1 /\ \A i \in 1..Len(Tail(q)) : Tail(q)[i] = q[i + 1]
  BY HeadTailProperties
<1>3. DOMAIN Tail(q) = 1..Len(Tail(q))
  BY <1>2, LenProperties
<1>4. Head(q) = q[1]
  BY <1>1, SubSeqFull, HeadTailOfSubSeq
<1> DEFINE m == Len(q) - 1
<1>5. m \in Nat /\ Len(q) = 1 + m /\ Len(Tail(q)) = m /\ \A i \in 1..m : i + 1 = 1 + i
  BY <1>1, <1>2
<1> HIDE DEF m
<1>6. /\ DOMAIN q = 1..(1 + m) /\ DOMAIN Tail(q) = 1..m
      /\ \A i \in 1..m : Tail(q)[i] = q[1 + i]
  BY <1>1, <1>2, <1>3, <1>5
<1> QED
  BY <1>4, <1>5, <1>6

LEMMA Ends ==
  ASSUME NEW S, NEW q \in Seq(S), NEW e \in S
  PROVE  /\ Len(q) \in Nat /\ DOMAIN q = 1..Len(q) /\ DOMAIN Append(q, e) = 1..(Len(q) + 1)
         /\ \A i \in 1..Len(q) : Append(q, e)[i] = q[i]
         /\ Append(q, e)[Len(q) + 1] = e
<1>1. Len(q) \in Nat /\ DOMAIN q = 1..Len(q)
  BY LenProperties
<1>2. /\ Append(q, e) \in Seq(S) /\ Len(Append(q, e)) = Len(q) + 1
      /\ \A i \in 1..Len(q) : Append(q, e)[i] = q[i]
      /\ Append(q, e)[Len(q) + 1] = e
  BY AppendProperties
<1>3. DOMAIN Append(q, e) = 1..(Len(q) + 1)
  BY <1>2, LenProperties
<1> QED
  BY <1>1, <1>2, <1>3

\* Routing moves a record from the chunk.
LEMMA RouteMoves ==
  ASSUME Types, RecordsAccounted, NEW c \in Clusters, Route(c)
  PROVE  RecordsAccounted'
<1> DEFINE n == RouteTo(c)
           F == Held
           G == Held'
           a == ChunkList
           b == RoutedTo(n)
<1>1. Listed /\ Listed' /\ AllSpread /\ (RecordsAccounted' <=> AllSpread')
  BY Listing, SpreadingToo, PTL
<1>2. /\ n \in Nodes /\ main.chunk # <<>> /\ main'.chunk = Tail(main.chunk)
      /\ main'.routed = [main.routed EXCEPT ![n] = Append(@, Head(main.chunk))]
      /\ main'.taken = main.taken
  BY Routing
<1>3. /\ main.chunk \in Seq(Records) /\ main.routed \in [Nodes -> Seq(Records)]
      /\ Head(main.chunk) \in Records
  BY <1>2, Typed, HeadTailProperties
<1>4. buffer' = buffer /\ batches' = batches
  BY DEF Route, sendVars
<1> HIDE DEF n
<1>5. Lists' = Lists
  BY <1>4 DEF Lists
<1>6. PICK m \in Nat : /\ DOMAIN main.chunk = 1..(1 + m) /\ DOMAIN Tail(main.chunk) = 1..m
                       /\ \A i \in 1..m : Tail(main.chunk)[i] = main.chunk[1 + i]
                       /\ Head(main.chunk) = main.chunk[1]
  BY <1>2, <1>3, Heads
<1> DEFINE h == Len(main.routed[n])
<1>7. /\ h \in Nat /\ DOMAIN main.routed[n] = 1..h
      /\ DOMAIN Append(main.routed[n], Head(main.chunk)) = 1..(h + 1)
      /\ \A i \in 1..h : Append(main.routed[n], Head(main.chunk))[i] = main.routed[n][i]
      /\ Append(main.routed[n], Head(main.chunk))[h + 1] = Head(main.chunk)
  <2>1. main.routed[n] \in Seq(Records)
    BY <1>2, <1>3
  <2> QED
    BY <1>3, <2>1, Ends
<1> HIDE DEF h
<1>8. /\ a \in DOMAIN F /\ b \in DOMAIN F /\ a # b /\ DOMAIN G = DOMAIN F \cup {b}
      /\ F[a] = main.chunk /\ G[a] = Tail(main.chunk) /\ F[b] = main.routed[n]
      /\ G[b] = Append(main.routed[n], Head(main.chunk))
  <2>1. a \in Lists /\ b \in Lists /\ DOMAIN F = Lists /\ DOMAIN G = Lists /\ a # b
    BY <1>1, <1>2, <1>5, Names DEF Listed
  <2>2. F[a] = main.chunk /\ G[a] = Tail(main.chunk) /\ F[b] = main.routed[n] /\ G[b] = main'.routed[n]
    BY <1>1, <1>2 DEF Listed
  <2>3. main'.routed[n] = Append(main.routed[n], Head(main.chunk))
    BY <1>2, <1>3
  <2> QED
    BY <2>1, <2>2, <2>3
<1>9. ASSUME NEW l \in DOMAIN F, l # a, l # b
      PROVE  G[l] = F[l]
  <2>1. l \in Lists
    BY <1>1 DEF Listed
  <2>2. \A d \in Nodes : d # n => main'.routed[d] = main.routed[d]
    BY <1>2, <1>3
  <2>3. CASE \E d \in Nodes : l = RoutedTo(d) \/ l = BufferOf(d)
    <3>1. PICK d \in Nodes : l = RoutedTo(d) \/ l = BufferOf(d)
      BY <2>3
    <3>2. l = RoutedTo(d) => d # n
      BY <1>9
    <3> QED
      BY <1>1, <1>4, <2>2, <3>1, <3>2 DEF Listed
  <2>4. CASE \E d \in DOMAIN batches : l = BatchOf(d)
    BY <1>1, <1>4, <2>4 DEF Listed
  <2> QED
    BY <1>1, <1>9, <2>1, <2>3, <2>4 DEF Listed
<1>10. \A i \in 1..1 : G[b][h + i] = F[a][i]
  BY <1>6, <1>7, <1>8
<1> HIDE DEF F, G, a, b
<1>11. Spread(F, main.taken)
  BY <1>1 DEF AllSpread, F
<1>12. Spread(G, main.taken)
  <2>1. 1 \in Nat
    OBVIOUS
  <2>2. /\ DOMAIN F[a] = 1..(1 + m) /\ DOMAIN G[a] = 1..m /\ \A i \in 1..m : G[a][i] = F[a][1 + i]
        /\ DOMAIN G[b] = 1..(h + 1) /\ DOMAIN F[b] = 1..h /\ \A i \in 1..h : G[b][i] = F[b][i]
    BY <1>6, <1>7, <1>8
  <2>3. Moved(F, G, a, b, 1, h, m)
    BY <1>8, <1>9, <1>10, <2>2 DEF Moved
  <2> QED
    BY <1>7, <1>11, <2>1, <2>3, Moving
<1> QED
  BY <1>1, <1>2, <1>12 DEF AllSpread, G

\* Cutting a batch moves the first records of a buffer.
LEMMA CutMoves ==
  ASSUME Types, RecordsAccounted, NEW n, NEW k, Cuts(n, k), main'.taken = main.taken,
         main'.chunk = main.chunk, main'.routed = main.routed
  PROVE  RecordsAccounted'
<1> DEFINE F == Held
           G == Held'
           a == BufferOf(n)
           b == BatchOf(Len(batches) + 1)
           m == Len(buffer[n]) - k
<1>1. Listed /\ Listed' /\ AllSpread /\ (RecordsAccounted' <=> AllSpread')
  BY Listing, SpreadingToo, PTL
<1>2. n \in Nodes /\ k \in Nat /\ k <= Len(buffer[n]) /\ Len(buffer[n]) \in Nat
      /\ DOMAIN buffer[n] = 1..Len(buffer[n])
  BY Cutting DEF Cuts
<1>3. /\ DOMAIN batches = 1..Len(batches) /\ DOMAIN batches' = 1..(Len(batches) + 1)
      /\ Len(batches) \in Nat /\ Len(batches) + 1 \notin DOMAIN batches
      /\ Len(batches) + 1 \in DOMAIN batches'
      /\ \A d \in DOMAIN batches : batches'[d] = batches[d]
      /\ batches'[Len(batches) + 1] = NewBatch(n, SubSeq(buffer[n], 1, k))
      /\ \A d \in Nodes : d # n => buffer'[d] = buffer[d]
      /\ buffer'[n] = SubSeq(buffer[n], k + 1, Len(buffer[n]))
  BY CutTypes, Typed
<1>4. /\ DOMAIN SubSeq(buffer[n], 1, k) = 1..k
      /\ DOMAIN SubSeq(buffer[n], k + 1, Len(buffer[n])) = 1..m
      /\ \A i \in 1..k : SubSeq(buffer[n], 1, k)[i] = buffer[n][i]
      /\ \A i \in 1..m : SubSeq(buffer[n], k + 1, Len(buffer[n]))[i] = buffer[n][k + i]
  BY <1>2, Cutting
<1>5. m \in Nat /\ k + m = Len(buffer[n])
  BY <1>2
<1> HIDE DEF m
<1>6. Lists' = Lists \cup {b}
  <2>1. DOMAIN batches' = DOMAIN batches \cup {Len(batches) + 1}
    BY <1>3
  <2> QED
    BY <2>1 DEF Lists, BatchOf
<1>7. /\ a \in DOMAIN F /\ a # b /\ b \notin DOMAIN F /\ DOMAIN G = DOMAIN F \cup {b}
      /\ F[a] = buffer[n] /\ G[a] = SubSeq(buffer[n], k + 1, Len(buffer[n]))
      /\ G[b] = SubSeq(buffer[n], 1, k)
  <2>1. a \in Lists /\ b \notin Lists /\ a # b /\ DOMAIN F = Lists /\ DOMAIN G = Lists'
    BY <1>1, <1>2, <1>3, Names DEF Listed
  <2>2. F[a] = buffer[n] /\ G[a] = buffer'[n] /\ G[b] = batches'[Len(batches) + 1].records
    BY <1>1, <1>2, <1>3 DEF Listed
  <2>3. batches'[Len(batches) + 1].records = SubSeq(buffer[n], 1, k)
    <3>1. batches'[Len(batches) + 1] = NewBatch(n, SubSeq(buffer[n], 1, k))
      BY <1>3
    <3>2. NewBatch(n, SubSeq(buffer[n], 1, k)).records = SubSeq(buffer[n], 1, k)
      BY Fresh, Zenon
    <3> QED
      BY <3>1, <3>2, Zenon
  <2> QED
    BY <1>3, <1>6, <2>1, <2>2, <2>3
<1>8. ASSUME NEW l \in DOMAIN F, l # a, l # b
      PROVE  G[l] = F[l]
  <2>1. l \in Lists
    BY <1>1 DEF Listed
  <2>2. CASE \E d \in Nodes : l = RoutedTo(d) \/ l = BufferOf(d)
    <3>1. PICK d \in Nodes : l = RoutedTo(d) \/ l = BufferOf(d)
      BY <2>2
    <3>2. l = BufferOf(d) => d # n
      BY <1>8
    <3> QED
      BY <1>1, <1>3, <3>1, <3>2 DEF Listed
  <2>3. CASE \E d \in DOMAIN batches : l = BatchOf(d)
    <3>1. PICK d \in DOMAIN batches : l = BatchOf(d)
      BY <2>3
    <3>2. d \in DOMAIN batches' /\ batches'[d] = batches[d]
      BY <1>3
    <3> QED
      BY <1>1, <3>1, <3>2 DEF Listed
  <2> QED
    BY <1>1, <1>8, <2>1, <2>2, <2>3 DEF Listed
<1> HIDE DEF F, G, a, b
<1>9. Spread(F, main.taken)
  BY <1>1 DEF AllSpread, F
<1>10. Spread(G, main.taken)
  <2>1. /\ 0 \in Nat /\ 0 + k = k /\ \A i \in 1..k : 0 + i = i
    BY <1>2
  <2>2. /\ DOMAIN F[a] = 1..(k + m) /\ DOMAIN G[a] = 1..m /\ \A i \in 1..m : G[a][i] = F[a][k + i]
        /\ DOMAIN G[b] = 1..(0 + k) /\ \A i \in 1..k : G[b][0 + i] = F[a][i]
    BY <1>2, <1>4, <1>5, <1>7, <2>1
  <2>3. Moved(F, G, a, b, k, 0, m)
    BY <1>7, <1>8, <2>2 DEF Moved
  <2> QED
    BY <1>2, <1>5, <1>9, <2>1, <2>3, Moving
<1> QED
  BY <1>1, <1>10 DEF AllSpread, G

\* The next k records are put into an empty list.
Added(F, G, a, k, t) ==
  /\ a \in DOMAIN F /\ DOMAIN G = DOMAIN F /\ DOMAIN F[a] = {}
  /\ \A l \in DOMAIN F : l # a => G[l] = F[l]
  /\ DOMAIN G[a] = 1..k /\ \A i \in 1..k : G[a][i] = t + i

LEMMA Adding ==
  ASSUME NEW F, NEW G, NEW t \in Nat, Spread(F, t), NEW a, NEW k \in Nat, Added(F, G, a, k, t)
  PROVE  Spread(G, t + k)
<1>0. /\ a \in DOMAIN F /\ DOMAIN G = DOMAIN F /\ DOMAIN F[a] = {}
      /\ \A l \in DOMAIN F : l # a => G[l] = F[l]
      /\ DOMAIN G[a] = 1..k /\ \A i \in 1..k : G[a][i] = t + i
  BY Zenon DEF Added
<1>1. /\ \A l \in DOMAIN F : \A i \in DOMAIN F[l] : F[l][i] \in 1..t
      /\ \A r \in 1..t : \E l \in DOMAIN F : \E i \in DOMAIN F[l] : F[l][i] = r
      /\ \A l, m \in DOMAIN F : \A i \in DOMAIN F[l], j \in DOMAIN F[m] :
           F[l][i] = F[m][j] => l = m /\ i = j
  BY Zenon DEF Spread
<1>2. ASSUME NEW l \in DOMAIN G, NEW i \in DOMAIN G[l]
      PROVE  G[l][i] \in 1..(t + k) /\ (G[l][i] \in 1..t <=> l # a)
  BY <1>0, <1>1
<1>3. ASSUME NEW r \in 1..(t + k)
      PROVE  \E l \in DOMAIN G : \E i \in DOMAIN G[l] : G[l][i] = r
  <2>1. CASE r <= t
    <3>1. PICK l \in DOMAIN F : \E i \in DOMAIN F[l] : F[l][i] = r
      BY <1>1, <2>1
    <3>2. l # a
      BY <1>0, <3>1
    <3> QED
      BY <1>0, <3>1, <3>2
  <2>2. CASE ~(r <= t)
    <3>1. r - t \in 1..k /\ t + (r - t) = r
      BY <2>2
    <3> QED
      BY <1>0, <3>1
  <2> QED
    BY <2>1, <2>2
<1>4. ASSUME NEW l \in DOMAIN G, NEW m \in DOMAIN G, NEW i \in DOMAIN G[l], NEW j \in DOMAIN G[m],
             G[l][i] = G[m][j]
      PROVE  l = m /\ i = j
  <2>1. l = a <=> m = a
    BY <1>2, <1>4
  <2>2. CASE l = a
    <3>1. i \in 1..k /\ j \in 1..k /\ t + i = t + j
      BY <1>0, <1>4, <2>1, <2>2
    <3> QED
      BY <2>1, <2>2, <3>1
  <2>3. CASE l # a
    BY <1>0, <1>1, <1>4, <2>1, <2>3
  <2> QED
    BY <2>2, <2>3
<1> QED
  BY <1>2, <1>3, <1>4 DEF Spread

\* The next chunk is taken from the stream.
LEMMA TakeChunkMoves ==
  ASSUME Types, PhaseInv, RecordsAccounted, TakeChunk
  PROVE  RecordsAccounted'
<1>1. CASE main.taken = requests
  <2>1. main \in Main /\ main' = [main EXCEPT !.pc = "flush"]
    BY <1>1 DEF TakeChunk, Types
  <2>2. main'.taken = main.taken /\ main'.chunk = main.chunk /\ main'.routed = main.routed
    BY <2>1 DEF Main
  <2>3. buffer' = buffer /\ batches' = batches
    BY DEF TakeChunk, sendVars
  <2> QED
    BY <2>2, <2>3, NothingMoves
<1>2. CASE main.taken # requests
  <2> DEFINE F == Held
             G == Held'
             a == ChunkList
             k == Upto - main.taken
             t == main.taken
  <2>1. Listed /\ Listed' /\ AllSpread /\ (RecordsAccounted' <=> AllSpread')
    BY Listing, SpreadingToo, PTL
  <2>2. /\ Upto \in Nat /\ Upto \in main.taken..requests
        /\ main'.taken = Upto /\ main'.routed = main.routed
        /\ DOMAIN main'.chunk = 1..(Upto - main.taken)
        /\ \A i \in DOMAIN main'.chunk : main'.chunk[i] = main.taken + i
    BY <1>2, Chunking
  <2>3. k \in Nat /\ t \in Nat /\ t + k = main'.taken
    BY <2>2, Typed
  <2>4. main.chunk = <<>> /\ buffer' = buffer /\ batches' = batches
    BY DEF TakeChunk, PhaseInv, sendVars
  <2> HIDE DEF k
  <2>5. Lists' = Lists
    BY <2>4 DEF Lists
  <2>6. ASSUME NEW l \in DOMAIN F, l # a
        PROVE  G[l] = F[l]
    <3>1. l \in Lists
      BY <2>1 DEF Listed
    <3> QED
      BY <2>1, <2>2, <2>4, <2>5, <2>6, <3>1 DEF Listed
  <2>7. /\ a \in DOMAIN F /\ DOMAIN G = DOMAIN F /\ DOMAIN F[a] = {}
        /\ DOMAIN G[a] = 1..k /\ \A i \in 1..k : G[a][i] = t + i
    <3>1. a \in Lists /\ DOMAIN F = Lists /\ DOMAIN G = Lists /\ F[a] = main.chunk /\ G[a] = main'.chunk
      BY <2>1, <2>5 DEF Listed
    <3> HIDE DEF F, G, a
    <3> QED
      BY <2>2, <2>4, <3>1 DEF k
  <2> HIDE DEF F, G, a
  <2>8. Spread(F, t)
    BY <2>1 DEF AllSpread, F
  <2> HIDE DEF t
  <2>9. Spread(G, t + k)
    <3>1. Added(F, G, a, k, t)
      BY <2>6, <2>7 DEF Added
    <3> QED
      BY <2>3, <2>8, <3>1, Adding
  <2> QED
    BY <2>1, <2>3, <2>9 DEF AllSpread, G
<1> QED
  BY <1>1, <1>2

\* What was routed to a node is put at the end of its buffer, of h[n] records.
Poured(F, G, h, m) ==
  /\ DOMAIN G = DOMAIN F
  /\ \A l \in DOMAIN F : (\A n \in Nodes : l # RoutedTo(n) /\ l # BufferOf(n)) => G[l] = F[l]
  /\ \A n \in Nodes :
       /\ RoutedTo(n) \in DOMAIN F /\ BufferOf(n) \in DOMAIN F
       /\ DOMAIN G[RoutedTo(n)] = {} /\ DOMAIN F[RoutedTo(n)] = 1..m[n]
       /\ DOMAIN F[BufferOf(n)] = 1..h[n] /\ DOMAIN G[BufferOf(n)] = 1..(h[n] + m[n])
       /\ \A i \in 1..h[n] : G[BufferOf(n)][i] = F[BufferOf(n)][i]
       /\ \A i \in 1..m[n] : G[BufferOf(n)][h[n] + i] = F[RoutedTo(n)][i]

LEMMA Pouring ==
  ASSUME NEW F, NEW G, NEW t, Spread(F, t), NEW h \in [Nodes -> Nat], NEW m \in [Nodes -> Nat],
         Poured(F, G, h, m)
  PROVE  Spread(G, t)
<1> DEFINE Other(l) == \A n \in Nodes : l # RoutedTo(n) /\ l # BufferOf(n)
<1>0. DOMAIN G = DOMAIN F /\ \A l \in DOMAIN F : Other(l) => G[l] = F[l]
  BY Zenon DEF Poured
<1>1. ASSUME NEW n \in Nodes
      PROVE  /\ RoutedTo(n) \in DOMAIN F /\ BufferOf(n) \in DOMAIN F
             /\ DOMAIN G[RoutedTo(n)] = {} /\ DOMAIN F[RoutedTo(n)] = 1..m[n]
             /\ DOMAIN F[BufferOf(n)] = 1..h[n] /\ DOMAIN G[BufferOf(n)] = 1..(h[n] + m[n])
             /\ \A i \in 1..h[n] : G[BufferOf(n)][i] = F[BufferOf(n)][i]
             /\ \A i \in 1..m[n] : G[BufferOf(n)][h[n] + i] = F[RoutedTo(n)][i]
             /\ h[n] \in Nat /\ m[n] \in Nat
  BY Zenon DEF Poured
<1>2. ASSUME NEW l, ~Other(l)
      PROVE  \E n \in Nodes : l = RoutedTo(n) \/ l = BufferOf(n)
  BY <1>2
<1>3. /\ \A l \in DOMAIN F : \A i \in DOMAIN F[l] : F[l][i] \in 1..t
      /\ \A r \in 1..t : \E l \in DOMAIN F : \E i \in DOMAIN F[l] : F[l][i] = r
      /\ \A l, o \in DOMAIN F : \A i \in DOMAIN F[l], j \in DOMAIN F[o] :
           F[l][i] = F[o][j] => l = o /\ i = j
  BY Zenon DEF Spread
<1> DEFINE Origin(l, i, x, y) ==
             \/ Other(l) /\ x = l /\ y = i
             \/ \E n \in Nodes : l = BufferOf(n) /\ x = l /\ y = i
             \/ \E n \in Nodes : l = BufferOf(n) /\ x = RoutedTo(n) /\ y \in Nat /\ i = h[n] + y
<1>4. ASSUME NEW l \in DOMAIN G, NEW i \in DOMAIN G[l]
      PROVE  \E x \in DOMAIN F : \E y \in DOMAIN F[x] : Origin(l, i, x, y) /\ G[l][i] = F[x][y]
  <2>1. CASE Other(l)
    <3>1. l \in DOMAIN F /\ G[l] = F[l]
      BY <1>0, <2>1
    <3> QED
      BY <2>1, <3>1
  <2>2. CASE ~Other(l)
    <3> HIDE DEF Other
    <3>1. PICK n \in Nodes : l = RoutedTo(n) \/ l = BufferOf(n)
      BY <1>2, <2>2
    <3>2. l = BufferOf(n)
      BY <1>1, <3>1
    <3>3. CASE i \in 1..h[n]
      <4>1. l \in DOMAIN F /\ i \in DOMAIN F[l] /\ G[l][i] = F[l][i]
        BY <1>1, <3>2, <3>3
      <4> QED
        BY <3>2, <4>1
    <3>4. CASE i \notin 1..h[n]
      <4>1. PICK y \in 1..m[n] : i = h[n] + y
        <5>1. h[n] \in Nat /\ m[n] \in Nat /\ i \in 1..(h[n] + m[n])
          BY <1>1, <3>2
        <5>2. i - h[n] \in 1..m[n] /\ i = h[n] + (i - h[n])
          BY <3>4, <5>1
        <5> QED
          BY <5>2
      <4>2. RoutedTo(n) \in DOMAIN F /\ y \in DOMAIN F[RoutedTo(n)] /\ G[l][i] = F[RoutedTo(n)][y]
        BY <1>1, <3>2, <4>1
      <4> QED
        BY <3>2, <4>1, <4>2
    <3> QED
      BY <3>3, <3>4
  <2> QED
    BY <2>1, <2>2
<1>5. ASSUME NEW x \in DOMAIN F, NEW y \in DOMAIN F[x]
      PROVE  \E l \in DOMAIN G : \E i \in DOMAIN G[l] : G[l][i] = F[x][y]
  <2>1. CASE Other(x)
    BY <1>0, <2>1
  <2>2. CASE ~Other(x)
    <3> HIDE DEF Other
    <3>1. PICK n \in Nodes : x = RoutedTo(n) \/ x = BufferOf(n)
      BY <1>2, <2>2
    <3>2. CASE x = BufferOf(n)
      <4>1. y \in 1..h[n] /\ y \in 1..(h[n] + m[n])
        BY <1>1, <3>2
      <4> QED
        BY <1>0, <1>1, <3>2, <4>1
    <3>3. CASE x = RoutedTo(n)
      <4>1. y \in 1..m[n] /\ h[n] + y \in 1..(h[n] + m[n])
        BY <1>1, <3>3
      <4> QED
        BY <1>0, <1>1, <3>3, <4>1
    <3> QED
      BY <3>1, <3>2, <3>3
  <2> QED
    BY <2>1, <2>2
<1>6. ASSUME NEW l, NEW i, NEW o, NEW j, NEW x, NEW y, Origin(l, i, x, y), Origin(o, j, x, y)
      PROVE  l = o /\ i = j
  BY <1>6, Names
<1> HIDE DEF Origin
<1>7. ASSUME NEW l \in DOMAIN G, NEW i \in DOMAIN G[l]
      PROVE  G[l][i] \in 1..t
  BY <1>3, <1>4
<1>8. ASSUME NEW r \in 1..t
      PROVE  \E l \in DOMAIN G : \E i \in DOMAIN G[l] : G[l][i] = r
  <2>1. PICK x \in DOMAIN F : \E y \in DOMAIN F[x] : F[x][y] = r
    BY <1>3
  <2> QED
    BY <1>5, <2>1
<1>9. ASSUME NEW l \in DOMAIN G, NEW o \in DOMAIN G, NEW i \in DOMAIN G[l], NEW j \in DOMAIN G[o],
             G[l][i] = G[o][j]
      PROVE  l = o /\ i = j
  <2>1. PICK x \in DOMAIN F : \E y \in DOMAIN F[x] : Origin(l, i, x, y) /\ G[l][i] = F[x][y]
    BY <1>4
  <2>2. PICK y \in DOMAIN F[x] : Origin(l, i, x, y) /\ G[l][i] = F[x][y]
    BY <2>1
  <2>3. PICK v \in DOMAIN F : \E w \in DOMAIN F[v] : Origin(o, j, v, w) /\ G[o][j] = F[v][w]
    BY <1>4
  <2>4. PICK w \in DOMAIN F[v] : Origin(o, j, v, w) /\ G[o][j] = F[v][w]
    BY <2>3
  <2>5. x = v /\ y = w
    <3>1. F[x][y] = F[v][w]
      BY <1>9, <2>2, <2>4
    <3>2. x \in DOMAIN F /\ v \in DOMAIN F
      BY <2>1, <2>3
    <3>3. y \in DOMAIN F[x] /\ w \in DOMAIN F[v]
      BY <2>2, <2>4
    <3> QED
      BY <1>3, <3>1, <3>2, <3>3
  <2> QED
    BY <1>6, <2>2, <2>4, <2>5
<1> QED
  BY <1>7, <1>8, <1>9 DEF Spread

\* What was routed is added to the buffers.
LEMMA ExtendMoves ==
  ASSUME Types, RecordsAccounted, Extend
  PROVE  RecordsAccounted'
<1> DEFINE F == Held
           G == Held'
           h == [n \in Nodes |-> Len(buffer[n])]
           m == [n \in Nodes |-> Len(main.routed[n])]
<1>1. Listed /\ Listed' /\ AllSpread /\ (RecordsAccounted' <=> AllSpread')
  BY Listing, SpreadingToo, PTL
<1>2. main'.chunk = main.chunk /\ main'.taken = main.taken /\ main'.routed = NothingRouted
  BY Extending
<1>3. batches' = batches
  BY DEF Extend, sendVars
<1>4. Lists' = Lists
  BY <1>3 DEF Lists
<1>5. DOMAIN F = Lists /\ DOMAIN G = Lists
  BY <1>1, <1>4 DEF Listed
<1>6. ASSUME NEW l \in Lists, \A n \in Nodes : l # RoutedTo(n) /\ l # BufferOf(n)
      PROVE  G[l] = F[l]
  BY <1>1, <1>2, <1>3, <1>6 DEF Listed
<1>7. ASSUME NEW n \in Nodes
      PROVE  /\ RoutedTo(n) \in DOMAIN F /\ BufferOf(n) \in DOMAIN F
             /\ DOMAIN G[RoutedTo(n)] = {} /\ DOMAIN F[RoutedTo(n)] = 1..m[n]
             /\ DOMAIN F[BufferOf(n)] = 1..h[n] /\ DOMAIN G[BufferOf(n)] = 1..(h[n] + m[n])
             /\ \A i \in 1..h[n] : G[BufferOf(n)][i] = F[BufferOf(n)][i]
             /\ \A i \in 1..m[n] : G[BufferOf(n)][h[n] + i] = F[RoutedTo(n)][i]
             /\ h[n] \in Nat /\ m[n] \in Nat
  <2>1. /\ DOMAIN buffer'[n] = 1..(Len(buffer[n]) + Len(main.routed[n]))
        /\ Len(buffer[n]) \in Nat /\ Len(main.routed[n]) \in Nat
        /\ DOMAIN buffer[n] = 1..Len(buffer[n])
        /\ DOMAIN main.routed[n] = 1..Len(main.routed[n])
        /\ \A i \in DOMAIN buffer[n] : buffer'[n][i] = buffer[n][i]
        /\ \A i \in DOMAIN main.routed[n] : buffer'[n][Len(buffer[n]) + i] = main.routed[n][i]
    BY Extending
  <2>2. /\ RoutedTo(n) \in Lists /\ BufferOf(n) \in Lists
        /\ F[RoutedTo(n)] = main.routed[n] /\ F[BufferOf(n)] = buffer[n]
        /\ G[RoutedTo(n)] = <<>> /\ G[BufferOf(n)] = buffer'[n]
    <3>1. main'.routed[n] = <<>>
      BY <1>2 DEF NothingRouted
    <3> QED
      BY <1>1, <3>1 DEF Listed
  <2>3. h[n] = Len(buffer[n]) /\ m[n] = Len(main.routed[n])
    OBVIOUS
  <2> HIDE DEF F, G, h, m
  <2>4. RoutedTo(n) \in DOMAIN F /\ BufferOf(n) \in DOMAIN F /\ DOMAIN G[RoutedTo(n)] = {}
    BY <1>5, <2>2
  <2>5. /\ h[n] \in Nat /\ m[n] \in Nat
        /\ DOMAIN F[RoutedTo(n)] = 1..m[n] /\ DOMAIN F[BufferOf(n)] = 1..h[n]
        /\ DOMAIN G[BufferOf(n)] = 1..(h[n] + m[n])
    BY <2>1, <2>2, <2>3
  <2>6. \A i \in 1..h[n] : G[BufferOf(n)][i] = F[BufferOf(n)][i]
    BY <2>1, <2>2, <2>3
  <2>7. \A i \in 1..m[n] : G[BufferOf(n)][h[n] + i] = F[RoutedTo(n)][i]
    BY <2>1, <2>2, <2>3
  <2> QED
    BY <2>4, <2>5, <2>6, <2>7
<1>8. h \in [Nodes -> Nat] /\ m \in [Nodes -> Nat]
  BY <1>7
<1> HIDE DEF F, G, h, m
<1>9. Spread(F, main.taken)
  BY <1>1 DEF AllSpread, F
<1>10. Poured(F, G, h, m)
  BY <1>5, <1>6, <1>7, Zenon DEF Poured
<1>11. Spread(G, main.taken)
  BY <1>8, <1>9, <1>10, Pouring
<1> QED
  BY <1>1, <1>2, <1>11 DEF AllSpread, G

\* Every step keeps the records where they can be counted.
LEMMA AccountedStep ==
  ASSUME Types, SentTo, PhaseInv, RecordsAccounted, [Next]_vars
  PROVE  RecordsAccounted'
<1>1. CASE UNCHANGED vars
  BY <1>1, NothingMoves DEF vars
<1>2. CASE Connect
  <2>1. main \in Main /\ main' = [main EXCEPT !.pc = "stream"] /\ buffer' = buffer /\ batches' = batches
    BY <1>2 DEF Connect, Types
  <2>2. main'.taken = main.taken /\ main'.chunk = main.chunk /\ main'.routed = main.routed
    BY <2>1 DEF Main
  <2> QED
    BY <2>1, <2>2, NothingMoves
<1>3. CASE TakeChunk
  BY <1>3, TakeChunkMoves
<1>4. CASE Extend
  BY <1>4, ExtendMoves
<1>5. CASE WriteReturns \/ FlushEnds \/ FlushRaises
  BY <1>5, TypedOthers, NothingMoves
<1>6. CASE Throttle \/ Finish
  BY <1>6, Waits, NothingMoves
<1>7. ASSUME NEW c \in Clusters, Route(c)
      PROVE  RecordsAccounted'
  BY <1>7, RouteMoves
<1>8. ASSUME NEW n \in Nodes, Submit(n)
      PROVE  RecordsAccounted'
  BY <1>8, SubmitCuts, CutMoves
<1>9. ASSUME NEW n \in Nodes, Flush(n)
      PROVE  RecordsAccounted'
  BY <1>9, FlushCuts, CutMoves
<1>10. ASSUME NEW b \in DOMAIN batches, ThreadStep(b)
       PROVE  RecordsAccounted'
  BY <1>10, NothingMoves DEF ThreadStep
<1>11. ASSUME NEW b \in DOMAIN batches,
              \/ Attempt(b) \/ Send(b) \/ Acknowledged(b) \/ AttemptFails(b)
              \/ \E l \in ToSet(NodesOf[batches[b].cluster]) : Redirected(b, l)
       PROVE  RecordsAccounted'
  BY <1>10, <1>11, TypedAttempt, TypedSend, TypedAcknowledged, TypedRedirected, TypedAttemptFails
<1> QED
  BY <1>1, <1>2, <1>3, <1>4, <1>5, <1>6, <1>7, <1>8, <1>9, <1>11 DEF Next

---------------------------------------------------------------------------
(* Phases and the fate of the batches.                                     *)

\* Every step leaves each batch waited for, done or reported.
LEMMA FollowedStep ==
  ASSUME Types, SentTo, Followed, [Next]_vars
  PROVE  Followed'
<1>1. ASSUME UNCHANGED <<batches, reported>>, main'.futures = main.futures,
             main'.flushing = main.flushing
      PROVE  Followed'
  BY <1>1 DEF Followed
<1>2. CASE UNCHANGED vars
  BY <1>1, <1>2 DEF vars
<1>3. CASE Connect
  <2>1. main \in Main /\ main' = [main EXCEPT !.pc = "stream"]
    BY <1>3 DEF Connect, Types
  <2>2. main'.futures = main.futures /\ main'.flushing = main.flushing
    BY <2>1 DEF Main
  <2> QED
    BY <1>1, <1>3, <2>2 DEF Connect
<1>4. CASE TakeChunk
  <2>1. CASE main.taken = requests
    <3>1. main \in Main /\ main' = [main EXCEPT !.pc = "flush"]
      BY <1>4, <2>1 DEF TakeChunk, Types
    <3>2. main'.futures = main.futures /\ main'.flushing = main.flushing
      BY <3>1 DEF Main
    <3> QED
      BY <1>1, <1>4, <3>2 DEF TakeChunk, sendVars
  <2>2. CASE main.taken # requests
    BY <1>1, <1>4, <2>2, Chunking DEF TakeChunk, sendVars
  <2> QED
    BY <2>1, <2>2
<1>5. CASE Extend
  BY <1>1, <1>5, Extending DEF Extend, sendVars
<1>6. CASE WriteReturns \/ FlushEnds
  BY <1>1, <1>6, TypedOthers DEF WriteReturns, FlushEnds, sendVars
<1>7. CASE FlushRaises
  <2>1. PICK b \in FailedOf(main.flushing) : reported' = reported \cup {b}
    BY <1>7 DEF FlushRaises
  <2>2. batches[b].state = "failed" /\ batches' = batches
    BY <1>7, <2>1 DEF FlushRaises, FailedOf
  <2>3. main'.futures = main.futures /\ main'.flushing = main.flushing
    BY <1>7, TypedOthers
  <2> QED
    BY <2>1, <2>2, <2>3 DEF Followed
<1>8. CASE Throttle \/ Finish
  <2>1. /\ main'.futures \subseteq main.futures /\ main'.flushing = main.flushing
        /\ \A b \in main.futures \ main'.futures : Ended(b)
        /\ reported' = reported \cup FailedOf(main.futures) /\ batches' = batches
    BY <1>8, Waits
  <2>2. \A b \in main.futures \ main'.futures : batches[b].state = "done" \/ b \in reported'
    BY <2>1 DEF Ended, FailedOf
  <2>3. \A b \in reported' : batches[b].state = "failed"
    BY <2>1 DEF FailedOf, Followed
  <2> QED
    BY <2>1, <2>2, <2>3 DEF Followed
<1>9. ASSUME NEW c \in Clusters, Route(c)
      PROVE  Followed'
  BY <1>1, <1>9, Routing DEF Route, sendVars
<1>10. ASSUME NEW n, NEW k, Cuts(n, k),
              main.futures \cup main.flushing \cup {Len(batches) + 1}
                \subseteq main'.futures \cup main'.flushing
       PROVE  Followed'
  <2>1. /\ \A b \in DOMAIN batches : batches'[b] = batches[b]
        /\ DOMAIN batches = 1..Len(batches) /\ DOMAIN batches' = 1..(Len(batches) + 1)
        /\ Len(batches) \in Nat /\ reported' = reported /\ reported \subseteq DOMAIN batches
    BY <1>10, CutTypes, Typed DEF Cuts, Types
  <2>2. \A b \in DOMAIN batches' : b \in DOMAIN batches \/ b = Len(batches) + 1
    BY <2>1
  <2> QED
    BY <1>10, <2>1, <2>2 DEF Followed
<1>11. ASSUME NEW n \in Nodes, Submit(n) \/ Flush(n)
       PROVE  Followed'
  <2>1. CASE Submit(n)
    <3>1. Cuts(n, BatchSize) /\ main'.futures = main.futures \cup {Len(batches) + 1}
          /\ main'.flushing = main.flushing
      BY <2>1, SubmitCuts
    <3> QED
      BY <1>10, <3>1
  <2>2. CASE Flush(n)
    <3>1. Cuts(n, Len(buffer[n])) /\ main'.futures = main.futures
          /\ main'.flushing = main.flushing \cup {Len(batches) + 1}
      BY <2>2, FlushCuts
    <3> QED
      BY <1>10, <3>1
  <2> QED
    BY <1>11, <2>1, <2>2
<1>12. ASSUME NEW b \in DOMAIN batches, ThreadStep(b)
       PROVE  Followed'
  <2>1. /\ UNCHANGED <<main, reported>> /\ DOMAIN batches' = DOMAIN batches /\ ~Ended(b)
        /\ \A a \in DOMAIN batches : a # b => batches'[a] = batches[a]
    BY <1>12 DEF ThreadStep
  <2>2. b \notin reported /\ b \in main.futures \cup main.flushing
    BY <2>1 DEF Followed, Ended
  <2>3. reported \subseteq DOMAIN batches
    BY DEF Types
  <2> QED
    BY <2>1, <2>2, <2>3 DEF Followed
<1>13. ASSUME NEW b \in DOMAIN batches,
              \/ Attempt(b) \/ Send(b) \/ Acknowledged(b) \/ AttemptFails(b)
              \/ \E l \in ToSet(NodesOf[batches[b].cluster]) : Redirected(b, l)
       PROVE  Followed'
  BY <1>12, <1>13, TypedAttempt, TypedSend, TypedAcknowledged, TypedRedirected, TypedAttemptFails
<1> QED
  BY <1>2, <1>3, <1>4, <1>5, <1>6, <1>7, <1>8, <1>9, <1>11, <1>13 DEF Next

\* At the end no thread has work left.
LEMMA AllEnded ==
  ASSUME Types, PhaseInv, Followed, main.pc = "ended"
  PROVE  \A b \in DOMAIN batches : Ended(b)
BY DEF PhaseInv, Followed, Ended

\* Every step keeps what the phases leave behind.
LEMMA PhaseStep ==
  ASSUME Types, SentTo, PhaseInv, Followed, [Next]_vars
  PROVE  PhaseInv'
<1>1. CASE UNCHANGED vars
  BY <1>1 DEF vars, PhaseInv, Unflushed
<1>2. CASE Connect
  <2>1. main \in Main /\ main' = [main EXCEPT !.pc = "stream"]
    BY <1>2 DEF Connect, Types
  <2>2. /\ main'.pc = "stream" /\ main'.chunk = main.chunk /\ main'.routed = main.routed
        /\ main'.last = main.last /\ main'.taken = main.taken
    BY <2>1 DEF Main
  <2> QED
    BY <1>2, <2>2 DEF Connect, PhaseInv
<1>3. CASE TakeChunk
  <2>1. requests' = requests /\ main.pc = "stream"
    BY <1>3 DEF TakeChunk, sendVars
  <2>2. CASE main.taken = requests
    <3>1. main \in Main /\ main' = [main EXCEPT !.pc = "flush"]
      BY <1>3, <2>2 DEF TakeChunk, Types
    <3>2. /\ main'.pc = "flush" /\ main'.chunk = main.chunk /\ main'.routed = main.routed
          /\ main'.last = main.last /\ main'.taken = main.taken
      BY <3>1 DEF Main
    <3> QED
      BY <2>1, <2>2, <3>2 DEF PhaseInv
  <2>3. CASE main.taken # requests
    <3>1. main'.pc = "route" /\ main'.taken = Upto /\ (main'.last => Upto = requests)
      BY <1>3, <2>3, Chunking
    <3> QED
      BY <2>1, <3>1 DEF PhaseInv
  <2> QED
    BY <2>2, <2>3
<1>4. CASE Extend
  <2>1. /\ main.chunk = <<>> /\ main'.chunk = main.chunk /\ main'.routed = NothingRouted
        /\ main'.pc = "submit" /\ main'.taken = main.taken /\ main'.last = main.last
    BY <1>4, Extending
  <2>2. requests' = requests
    BY <1>4 DEF Extend, sendVars
  <2> QED
    BY <2>1, <2>2 DEF PhaseInv
<1>5. CASE WriteReturns \/ FlushEnds \/ FlushRaises
  <2>1. /\ UNCHANGED <<requests, buffer, batches>>
        /\ main'.flushing = main.flushing /\ main'.chunk = main.chunk
        /\ main'.routed = main.routed /\ main'.taken = main.taken /\ main'.last = main.last
    BY <1>5, TypedOthers
  <2>2. main \in Main
    BY DEF Types
  <2>3. CASE WriteReturns
    <3>1. main.pc = "submit" /\ main'.pc \in {"flush", "throttle", "stream"}
          /\ (main'.pc = "flush" => main.last)
      BY <2>2, <2>3 DEF WriteReturns, Main
    <3> QED
      BY <2>1, <3>1 DEF PhaseInv
  <2>4. CASE FlushEnds
    <3>1. main.pc = "flush" /\ main'.pc = "wait" /\ Unflushed = {}
          /\ \A b \in main.flushing : batches[b].state = "done"
      BY <2>2, <2>4 DEF FlushEnds, Main
    <3> QED
      BY <2>1, <3>1 DEF PhaseInv, Unflushed
  <2>5. CASE FlushRaises
    <3>1. main.pc = "flush" /\ main'.pc = "error"
      BY <2>2, <2>5 DEF FlushRaises, Main
    <3> QED
      BY <2>1, <3>1 DEF PhaseInv
  <2> QED
    BY <1>5, <2>3, <2>4, <2>5
<1>6. CASE Throttle \/ Finish
  <2>1. /\ main'.chunk = main.chunk /\ main'.routed = main.routed
        /\ main'.taken = main.taken /\ main'.last = main.last /\ main'.flushing = main.flushing
        /\ main'.pc = IF main.pc = "throttle" THEN "stream" ELSE "ended"
        /\ main.pc \in {"throttle", "wait"}
        /\ UNCHANGED <<requests, buffer, batches>>
    BY <1>6, Waits
  <2>2. main.pc = "wait" => main'.futures = {} /\ \A n \in Nodes : pool'[n] = 0
    <3>1. main \in Main
      BY DEF Types
    <3> QED
      BY <1>6, <3>1 DEF Throttle, Finish, Main, Disconnected
  <2>3. CASE main.pc = "throttle"
    BY <2>1, <2>3 DEF PhaseInv
  <2>4. CASE main.pc = "wait"
    BY <2>1, <2>2, <2>4 DEF PhaseInv, Unflushed
  <2> QED
    BY <2>1, <2>3, <2>4
<1>7. ASSUME NEW c \in Clusters, Route(c)
      PROVE  PhaseInv'
  <2>1. main'.pc = main.pc /\ main'.taken = main.taken /\ main'.last = main.last
    BY <1>7, Routing
  <2> QED
    BY <1>7, <2>1 DEF Route, sendVars, PhaseInv
<1>8. ASSUME NEW n \in Nodes, Submit(n) \/ Flush(n)
      PROVE  PhaseInv'
  <2>1. /\ main'.chunk = main.chunk /\ main'.routed = main.routed /\ main'.pc = main.pc
        /\ main'.taken = main.taken /\ main'.last = main.last
    BY <1>8, SubmitCuts, FlushCuts
  <2>2. requests' = requests /\ main.pc \in {"submit", "flush"}
    BY <1>8 DEF Submit, Flush
  <2> QED
    BY <2>1, <2>2 DEF PhaseInv
<1>9. ASSUME NEW b \in DOMAIN batches, ThreadStep(b)
      PROVE  PhaseInv'
  <2>1. /\ UNCHANGED <<requests, main, buffer>> /\ ~Ended(b)
        /\ \A a \in DOMAIN batches : a # b => batches'[a] = batches[a]
    BY <1>9 DEF ThreadStep
  <2>2. main.pc # "ended"
    BY <2>1, AllEnded
  <2>3. main.flushing \subseteq DOMAIN batches
    BY DEF Types
  <2>4. ASSUME NEW a \in main.flushing, batches[a].state = "done"
        PROVE  batches'[a].state = "done"
    BY <2>1, <2>3, <2>4 DEF Ended
  <2> QED
    BY <2>1, <2>2, <2>4 DEF PhaseInv, Unflushed
<1>10. ASSUME NEW b \in DOMAIN batches,
              \/ Attempt(b) \/ Send(b) \/ Acknowledged(b) \/ AttemptFails(b)
              \/ \E l \in ToSet(NodesOf[batches[b].cluster]) : Redirected(b, l)
       PROVE  PhaseInv'
  BY <1>9, <1>10, TypedAttempt, TypedSend, TypedAcknowledged, TypedRedirected, TypedAttemptFails
<1> QED
  BY <1>1, <1>2, <1>3, <1>4, <1>5, <1>6, <1>7, <1>8, <1>10 DEF Next

\* The initial state.
LEMMA Initially ==
  ASSUME Init
  PROVE  Types /\ SentTo /\ PhaseInv /\ Followed /\ RecordsAccounted
<1>1. /\ requests \in RequestCounts /\ requests \in Nat /\ batches = <<>> /\ reported = {}
      /\ buffer = [n \in Nodes |-> <<>>] /\ pool = [n \in Nodes |-> 0] /\ redirects = 0
      /\ registry = [c \in Clusters |-> NoNode]
      /\ main = [pc |-> "connect", taken |-> 0, chunk |-> <<>>, last |-> FALSE,
                 routed |-> NothingRouted, futures |-> {}, flushing |-> {}]
  BY BenchConstants DEF Init
<1>2. NothingRouted \in [Nodes -> Seq(Records)] /\ buffer \in [Nodes -> Seq(Records)]
      /\ <<>> \in Seq(Records) /\ <<>> \in Seq(Batch)
  BY <1>1, EmptySeq DEF NothingRouted
<1>3. main \in Main
  BY <1>1, <1>2 DEF Main, Records
<1>4. redirects \in 0..MaxRedirects
  BY <1>1, BenchConstants
<1>5. Types
  BY <1>1, <1>2, <1>3, <1>4 DEF Types
<1>6. DOMAIN batches = {} /\ main.chunk = <<>> /\ main.routed = NothingRouted
      /\ main.last = FALSE /\ main.pc = "connect" /\ main.taken = 0
  BY <1>1
<1>7. SentTo /\ PhaseInv /\ Followed
  BY <1>1, <1>6 DEF SentTo, PhaseInv, Followed
<1>8. RecordsAccounted
  <2>1. Listed
    BY Listing, PTL
  <2>2. ASSUME NEW l \in Lists
        PROVE  Held[l] = <<>>
    BY <1>1, <1>6, <2>1, <2>2 DEF Listed, NothingRouted
  <2>3. DOMAIN Held = Lists
    BY <2>1 DEF Listed
  <2>4. \A r \in 1..main.taken : FALSE
    BY <1>6
  <2>5. Spread(Held, main.taken)
    BY <2>2, <2>3, <2>4 DEF Spread
  <2> QED
    BY <2>5, Spreading
<1> QED
  BY <1>5, <1>7, <1>8

Inv == Types /\ SentTo /\ PhaseInv /\ Followed /\ RecordsAccounted

LEMMA Invariant == Spec => []Inv
<1>1. Init => Inv
  BY Initially DEF Inv
<1>2. Inv /\ [Next]_vars => Inv'
  BY TypesStep, PhaseStep, FollowedStep, AccountedStep DEF Inv
<1> QED
  BY <1>1, <1>2, PTL DEF Spec

\* Between the stream and the batches no record is lost or sent in two batches
\* (write, flush), for every configuration, batch size and number of records.
THEOREM NoRecordIsLostOrDoubled == Spec => []RecordsAccounted
<1>1. Inv => RecordsAccounted
  BY DEF Inv
<1> QED
  BY <1>1, Invariant, PTL

\* A normal end leaves no record unsent, no failure unreported and no socket
\* open: Finish is reached only through flush, and every batch of the run is
\* one that flush or the benchmark has waited for.
THEOREM ANormalEndIsClean == Spec => []EndsClean
<1>1. Inv => EndsClean
  <2> SUFFICES ASSUME Inv, main.pc = "ended"
               PROVE  /\ \A r \in 1..requests : \E b \in DOMAIN batches : r \in ToSet(batches[b].records)
                      /\ \A b \in DOMAIN batches : batches[b].state = "done" \/ b \in reported
                      /\ \A n \in Nodes : pool[n] = 0
    BY DEF EndsClean
  <2>1. /\ main.taken = requests /\ main.chunk = <<>> /\ main.routed = NothingRouted
        /\ \A n \in Nodes : buffer[n] = <<>> /\ pool[n] = 0
    BY DEF Inv, PhaseInv, Unflushed
  <2>2. \A b \in DOMAIN batches : batches[b].state = "done" \/ b \in reported
    BY DEF Inv, Followed, PhaseInv
  <2>3. Listed /\ Spread(Held, main.taken)
    <3>1. Listed
      BY Listing, PTL
    <3> QED
      BY <3>1, Spreading DEF Inv
  <2>4. ASSUME NEW r \in 1..requests
        PROVE  \E b \in DOMAIN batches : r \in ToSet(batches[b].records)
    <3>1. PICK l \in Lists : \E i \in DOMAIN Held[l] : Held[l][i] = r
      BY <2>1, <2>3 DEF Spread, Listed
    <3>2. Held[l] # <<>>
      BY <3>1
    <3>3. PICK b \in DOMAIN batches : l = BatchOf(b)
      BY <2>1, <2>3, <3>2 DEF Listed, NothingRouted
    <3>4. Held[l] = batches[b].records
      BY <2>3, <3>3 DEF Listed
    <3>5. \E i \in DOMAIN batches[b].records : batches[b].records[i] = r
      BY <3>1, <3>4
    <3> QED
      BY <3>5 DEF ToSet
  <2> QED
    BY <2>1, <2>2, <2>4
<1> QED
  BY <1>1, Invariant, PTL

---------------------------------------------------------------------------
(* What is in flight.                                                      *)

\* The records that are in no batch yet.
Pending == {r \in 1..main.taken : \A b \in DOMAIN batches : r \notin ToSet(batches[b].records)}

\* Batches in flight and records on the way to one: submitting a batch moves
\* BatchSize from the second to the first, and only a new chunk adds to both.
Load == BatchSize * Cardinality(main.futures) + Cardinality(Pending)

\* What bench lets pile up before it reads another chunk.
Allowed == BatchSize * MaxFutures + Cardinality(Nodes) * (BatchSize - 1)

LoadInv ==
  /\ main.pc \in {"connect", "stream"} => Load <= Allowed
  /\ Load <= Allowed + ChunkSize

LEMMA Multiples ==
  ASSUME NEW x \in Nat, NEW y \in Nat, NEW k \in Nat
  PROVE  /\ k * x \in Nat /\ k * (x + 1) = k * x + k
         /\ x <= y => k * x <= k * y
<1>1. k * x \in Nat /\ k * (x + 1) = k * x + k
  OBVIOUS
<1>2. ASSUME x <= y
      PROVE  k * x <= k * y
  <2>1. PICK d \in Nat : y = x + d
    <3>1. y - x \in Nat /\ y = x + (y - x)
      BY <1>2
    <3> QED
      BY <3>1
  <2>2. k * (x + d) = k * x + k * d /\ k * d \in Nat /\ k * x \in Nat
    OBVIOUS
  <2> QED
    BY <2>1, <2>2
<1> QED
  BY <1>1, <1>2

\* Both terms are natural numbers, and so is the bound.
LEMMA Amounts ==
  ASSUME Types
  PROVE  /\ IsFiniteSet(Pending) /\ Cardinality(Pending) \in Nat
         /\ IsFiniteSet(main.futures) /\ Cardinality(main.futures) \in Nat
         /\ Load \in Nat /\ Allowed \in Nat
<1>1. main.taken \in Nat /\ main.futures \subseteq DOMAIN batches
      /\ DOMAIN batches = 1..Len(batches) /\ Len(batches) \in Nat
  BY Typed DEF Types
<1>2. IsFiniteSet(1..main.taken) /\ IsFiniteSet(DOMAIN batches)
  BY <1>1, FS_Interval
<1>3. IsFiniteSet(Pending) /\ IsFiniteSet(main.futures)
  <2>1. Pending \in SUBSET (1..main.taken) /\ main.futures \in SUBSET DOMAIN batches
    BY <1>1 DEF Pending
  <2> QED
    BY <1>2, <2>1, FS_Subset
<1>4. Cardinality(Pending) \in Nat /\ Cardinality(main.futures) \in Nat
  BY <1>3, FS_CardinalityType
<1>5. BatchSize * Cardinality(main.futures) \in Nat
  BY <1>4, Multiples, Numbers
<1>6. BatchSize * MaxFutures \in Nat /\ Cardinality(Nodes) * (BatchSize - 1) \in Nat
  <2>1. BatchSize - 1 \in Nat
    BY Numbers
  <2> QED
    BY <2>1, Multiples, Numbers
<1> QED
  BY <1>3, <1>4, <1>5, <1>6 DEF Load, Allowed

Counted ==
  /\ IsFiniteSet(Pending) /\ Cardinality(Pending) \in Nat
  /\ IsFiniteSet(main.futures) /\ Cardinality(main.futures) \in Nat

LEMMA Counting == [](Types => Counted)
<1>1. Types => Counted
  BY Amounts DEF Counted
<1> QED
  BY <1>1, PTL

\* A step after which neither is more.
LEMMA Lighter ==
  ASSUME Types, Types', LoadInv, Cardinality(main'.futures) <= Cardinality(main.futures),
         Cardinality(Pending') <= Cardinality(Pending),
         main'.pc \in {"connect", "stream"} => main.pc \in {"connect", "stream"}
  PROVE  LoadInv'
<1> DEFINE f == Cardinality(main.futures)
           g == Cardinality(main'.futures)
           p == Cardinality(Pending)
           q == Cardinality(Pending')
<1>1. f \in Nat /\ p \in Nat /\ Allowed \in Nat /\ BatchSize \in Nat /\ ChunkSize \in Nat
  BY Amounts, Numbers
<1>2. g \in Nat /\ q \in Nat
  <2>1. Counted'
    BY Counting, PTL
  <2> QED
    BY <2>1 DEF Counted
<1>3. Load = BatchSize * f + p /\ Load' = BatchSize * g + q /\ Allowed' = Allowed
  BY DEF Load, Allowed
<1> HIDE DEF f, g, p, q
<1>4. Load' <= Load
  <2>1. BatchSize * g <= BatchSize * f /\ BatchSize * g \in Nat /\ BatchSize * f \in Nat
    BY <1>1, <1>2, Multiples DEF f, g
  <2> QED
    BY <1>1, <1>2, <1>3, <2>1 DEF p, q
<1>5. Load \in Nat /\ Load' \in Nat
  BY <1>1, <1>2, <1>3, Multiples
<1> QED
  BY <1>1, <1>3, <1>4, <1>5 DEF LoadInv

\* A chunk adds at most ChunkSize records.
LEMMA TakeChunkLoads ==
  ASSUME Types, Types', LoadInv, TakeChunk
  PROVE  LoadInv'
<1>1. batches' = batches /\ main.pc = "stream"
  BY DEF TakeChunk, sendVars
<1>2. CASE main.taken = requests
  <2>1. main \in Main /\ main' = [main EXCEPT !.pc = "flush"]
    BY <1>2 DEF TakeChunk, Types
  <2>2. main'.taken = main.taken /\ main'.futures = main.futures /\ main'.pc = "flush"
    BY <2>1 DEF Main
  <2>3. Pending' = Pending
    BY <1>1, <2>2 DEF Pending
  <2> QED
    BY <2>2, <2>3, Amounts, Lighter
<1>3. CASE main.taken # requests
  <2>1. /\ Upto \in Nat /\ Upto \in main.taken..requests /\ Upto - main.taken <= ChunkSize
        /\ main'.taken = Upto /\ main'.pc = "route" /\ main'.futures = main.futures
    BY <1>3, Chunking
  <2>2. main.taken \in Nat /\ ChunkSize \in Nat
    BY Typed, Numbers
  <2> DEFINE new == (main.taken + 1)..Upto
  <2>3. Pending' \subseteq Pending \cup new
    BY <1>1, <2>1, <2>2 DEF Pending
  <2>4. IsFiniteSet(new) /\ Cardinality(new) <= ChunkSize /\ Cardinality(new) \in Nat
    <3>1. PICK x \in Int : x = main.taken + 1
      BY <2>2
    <3>2. /\ IsFiniteSet(x..Upto)
          /\ Cardinality(x..Upto) = IF x > Upto THEN 0 ELSE Upto - x + 1
      BY <2>1, <3>1, FS_Interval
    <3>3. Cardinality(x..Upto) <= ChunkSize /\ Cardinality(x..Upto) \in Nat
      BY <2>1, <2>2, <3>1, <3>2
    <3> QED
      BY <3>1, <3>2, <3>3
  <2> HIDE DEF new
  <2>5. /\ IsFiniteSet(Pending) /\ Cardinality(Pending) \in Nat
        /\ Cardinality(main.futures) \in Nat /\ Load \in Nat /\ Allowed \in Nat
    BY Amounts
  <2>6. Cardinality(Pending \cup new) <= Cardinality(Pending) + ChunkSize
        /\ IsFiniteSet(Pending \cup new) /\ Cardinality(Pending \cup new) \in Nat
    <3>1. /\ IsFiniteSet(Pending \cup new)
          /\ Cardinality(Pending \cup new)
               = Cardinality(Pending) + Cardinality(new) - Cardinality(Pending \cap new)
      BY <2>4, <2>5, FS_Union
    <3>2. IsFiniteSet(Pending \cap new)
      BY <2>5, FS_Intersection
    <3>3. Cardinality(Pending \cap new) \in Nat /\ Cardinality(Pending \cup new) \in Nat
      BY <3>1, <3>2, FS_CardinalityType
    <3> QED
      BY <2>2, <2>4, <2>5, <3>1, <3>3
  <2>7. Cardinality(Pending') <= Cardinality(Pending \cup new) /\ Cardinality(Pending') \in Nat
    <3>1. Pending' \in SUBSET (Pending \cup new)
      BY <2>3
    <3>2. IsFiniteSet(Pending') /\ Cardinality(Pending') <= Cardinality(Pending \cup new)
      BY <2>6, <3>1, FS_Subset
    <3> QED
      BY <3>2, FS_CardinalityType
  <2>8. Load <= Allowed
    BY <1>1 DEF LoadInv
  <2> DEFINE w == BatchSize * Cardinality(main.futures)
  <2>9. Load = w + Cardinality(Pending) /\ Load' = w + Cardinality(Pending') /\ Allowed' = Allowed
        /\ w \in Nat
    <3>1. w \in Nat
      BY <2>5, Multiples, Numbers
    <3> QED
      BY <2>1, <3>1 DEF Load, Allowed
  <2> HIDE DEF w
  <2>10. Load' <= Allowed + ChunkSize
    BY <2>2, <2>5, <2>6, <2>7, <2>8, <2>9
  <2> QED
    BY <2>1, <2>9, <2>10 DEF LoadInv
<1> QED
  BY <1>2, <1>3

\* A record in a batch stays in it.
LEMMA StillBatched ==
  ASSUME Types, NEW n, NEW k, Cuts(n, k), main'.taken = main.taken
  PROVE  /\ Pending' = Pending \ ToSet(SubSeq(buffer[n], 1, k))
<1>1. /\ DOMAIN batches = 1..Len(batches) /\ DOMAIN batches' = 1..(Len(batches) + 1)
      /\ Len(batches) \in Nat
      /\ \A b \in DOMAIN batches : batches'[b] = batches[b]
      /\ batches'[Len(batches) + 1] = NewBatch(n, SubSeq(buffer[n], 1, k))
  BY CutTypes, Typed
<1>2. batches'[Len(batches) + 1].records = SubSeq(buffer[n], 1, k)
  <2>1. NewBatch(n, SubSeq(buffer[n], 1, k)).records = SubSeq(buffer[n], 1, k)
    BY Fresh, Zenon
  <2> QED
    BY <1>1, <2>1, Zenon
<1> DEFINE x == Len(batches) + 1
           q == SubSeq(buffer[n], 1, k)
<1>3. \A b : b \in DOMAIN batches' <=> b \in DOMAIN batches \/ b = x
  BY <1>1
<1> HIDE DEF x, q
<1>4. batches'[x].records = q /\ \A b \in DOMAIN batches : batches'[b] = batches[b]
  BY <1>1, <1>2 DEF x, q
<1>5. \A r \in 1..main.taken :
        (\A b \in DOMAIN batches' : r \notin ToSet(batches'[b].records))
          <=> (\A b \in DOMAIN batches : r \notin ToSet(batches[b].records)) /\ r \notin ToSet(q)
  BY <1>3, <1>4
<1>6. Pending' = Pending \ ToSet(q)
  BY <1>5 DEF Pending
<1> QED
  BY <1>6 DEF q

\* The records of a buffer are in no batch, and no two are the same.
LEMMA Buffered ==
  ASSUME Types, RecordsAccounted, NEW n \in Nodes
  PROVE  /\ \A i \in DOMAIN buffer[n] : buffer[n][i] \in Pending
         /\ \A i, j \in DOMAIN buffer[n] : buffer[n][i] = buffer[n][j] => i = j
<1>1. Listed
  BY Listing, PTL
<1>2. Spread(Held, main.taken)
  BY Spreading
<1>3. BufferOf(n) \in DOMAIN Held /\ Held[BufferOf(n)] = buffer[n]
  BY <1>1 DEF Listed
<1>4. \A i, j \in DOMAIN buffer[n] : buffer[n][i] = buffer[n][j] => i = j
  BY <1>2, <1>3 DEF Spread
<1>5. ASSUME NEW i \in DOMAIN buffer[n]
      PROVE  buffer[n][i] \in Pending
  <2>1. buffer[n][i] \in 1..main.taken
    BY <1>2, <1>3 DEF Spread
  <2>2. ASSUME NEW b \in DOMAIN batches, buffer[n][i] \in ToSet(batches[b].records)
        PROVE  FALSE
    <3>1. PICK j \in DOMAIN batches[b].records : batches[b].records[j] = buffer[n][i]
      BY <2>2 DEF ToSet
    <3>2. BatchOf(b) \in DOMAIN Held /\ Held[BatchOf(b)] = batches[b].records
      BY <1>1 DEF Listed
    <3>3. BatchOf(b) = BufferOf(n)
      BY <1>2, <1>3, <3>1, <3>2 DEF Spread
    <3> QED
      BY <3>3, Names
  <2> QED
    BY <2>1, <2>2 DEF Pending
<1> QED
  BY <1>4, <1>5

\* Submitting a batch moves BatchSize records, and adds one batch.
LEMMA SubmitLoads ==
  ASSUME Types, Types', RecordsAccounted, LoadInv, NEW n \in Nodes, Submit(n)
  PROVE  LoadInv'
<1>1. /\ Cuts(n, BatchSize) /\ main'.taken = main.taken /\ main'.pc = main.pc
      /\ main'.futures = main.futures \cup {Len(batches) + 1} /\ main.pc = "submit"
  BY SubmitCuts DEF Submit
<1>2. BatchSize \in Nat /\ BatchSize <= Len(buffer[n])
  BY <1>1 DEF Cuts
<1> DEFINE q == SubSeq(buffer[n], 1, BatchSize)
           R == ToSet(q)
<1>3. /\ DOMAIN q = 1..BatchSize /\ DOMAIN buffer[n] = 1..Len(buffer[n]) /\ Len(buffer[n]) \in Nat
      /\ \A i \in 1..BatchSize : q[i] = buffer[n][i]
  BY <1>2, Cutting
<1>4. Pending' = Pending \ R
  BY <1>1, StillBatched
<1> HIDE DEF q
<1>5. /\ \A i \in 1..BatchSize : q[i] \in Pending
      /\ \A i, j \in 1..BatchSize : q[i] = q[j] => i = j
  <2>1. 1..BatchSize \subseteq DOMAIN buffer[n]
    BY <1>2, <1>3
  <2> QED
    BY <1>3, <2>1, Buffered
<1>6. R \subseteq Pending /\ \A r \in R : \E i \in 1..BatchSize : q[i] = r
  BY <1>3, <1>5 DEF ToSet
<1>7. \A i \in 1..BatchSize : q[i] \in R
  BY <1>3 DEF ToSet
<1> HIDE DEF R
<1>8. IsFiniteSet(R) /\ Cardinality(R) = BatchSize
  <2> DEFINE f == [i \in 1..BatchSize |-> q[i]]
  <2>1. f \in Surjection(1..BatchSize, R)
    <3>1. f \in [1..BatchSize -> R]
      BY <1>7
    <3> QED
      BY <1>6, <3>1 DEF Surjection
  <2>2. f \in Injection(1..BatchSize, R)
    <3>1. f \in [1..BatchSize -> R]
      BY <1>7
    <3> QED
      BY <1>5, <3>1 DEF Injection, IsInjective
  <2> HIDE DEF f
  <2>3. ExistsBijection(1..BatchSize, R)
    BY <2>1, <2>2 DEF ExistsBijection, Bijection
  <2>4. IsFiniteSet(1..BatchSize) /\ Cardinality(1..BatchSize) = BatchSize
    BY <1>2, FS_Interval
  <2> QED
    BY <2>3, <2>4, FS_Bijection
<1>9. /\ IsFiniteSet(Pending) /\ Cardinality(Pending) \in Nat
      /\ IsFiniteSet(main.futures) /\ Cardinality(main.futures) \in Nat
  BY Amounts
<1>10. Cardinality(Pending') = Cardinality(Pending) - BatchSize
  <2>1. Pending \cap R = R
    BY <1>6
  <2> QED
    BY <1>4, <1>8, <1>9, <2>1, FS_Difference
<1>11. Cardinality(main'.futures) = Cardinality(main.futures) + 1
  <2>1. Len(batches) + 1 \notin main.futures
    BY Typed DEF Types
  <2> QED
    BY <1>1, <1>9, <2>1, FS_AddElement
<1>12. Load' = Load /\ Allowed' = Allowed
  <2> DEFINE c == Cardinality(main.futures)
             p == Cardinality(Pending)
  <2>1. c \in Nat /\ p \in Nat
    BY <1>9
  <2>2. Load = BatchSize * c + p /\ Load' = BatchSize * (c + 1) + (p - BatchSize)
    BY <1>10, <1>11 DEF Load
  <2> HIDE DEF c, p
  <2>3. BatchSize * (c + 1) = BatchSize * c + BatchSize /\ BatchSize * c \in Nat
    BY <1>2, <2>1, Multiples
  <2>4. Load' = Load
    BY <1>2, <2>1, <2>2, <2>3
  <2> QED
    BY <2>4 DEF Allowed
<1> QED
  BY <1>1, <1>12 DEF LoadInv

\* When write returns to a bench that reads on, few batches are in flight and
\* what is in none is in buffers that are not full.
LEMMA ReturnsLoads ==
  ASSUME Types, PhaseInv, RecordsAccounted, WriteReturns, main'.pc = "stream"
  PROVE  Load <= Allowed
<1>1. Full = {} /\ main.pc = "submit"
  BY DEF WriteReturns
<1>2. /\ IsFiniteSet(Pending) /\ Cardinality(Pending) \in Nat
      /\ Cardinality(main.futures) \in Nat
  BY Amounts
<1>3. Cardinality(main.futures) <= MaxFutures
  <2>1. main \in Main
    BY DEF Types
  <2>2. main'.pc = IF main.last THEN "flush"
                   ELSE IF Cardinality(main.futures) > MaxFutures THEN "throttle" ELSE "stream"
    BY <2>1 DEF WriteReturns, Main
  <2> QED
    BY <1>2, <2>2, Numbers
<1>4. main.chunk = <<>> /\ \A n \in Nodes : main.routed[n] = <<>>
  BY <1>1 DEF PhaseInv, NothingRouted
<1>5. ASSUME NEW r \in Pending
      PROVE  \E n \in Nodes : \E i \in DOMAIN buffer[n] : buffer[n][i] = r
  <2>1. Listed
    BY Listing, PTL
  <2>2. Spread(Held, main.taken)
    BY Spreading
  <2>3. r \in 1..main.taken /\ \A b \in DOMAIN batches : r \notin ToSet(batches[b].records)
    BY DEF Pending
  <2>4. PICK l \in Lists : \E i \in DOMAIN Held[l] : Held[l][i] = r
    BY <2>1, <2>2, <2>3 DEF Spread, Listed
  <2>5. Held[l] # <<>>
    BY <2>4
  <2>6. ASSUME NEW b \in DOMAIN batches, l = BatchOf(b)
        PROVE  FALSE
    <3>1. Held[l] = batches[b].records
      BY <2>1, <2>6 DEF Listed
    <3>2. \E i \in DOMAIN batches[b].records : batches[b].records[i] = r
      BY <2>4, <3>1
    <3> QED
      BY <2>3, <3>2 DEF ToSet
  <2>7. PICK n \in Nodes : l = BufferOf(n)
    BY <1>4, <2>1, <2>5, <2>6 DEF Listed
  <2> QED
    BY <2>1, <2>4, <2>7 DEF Listed
<1>6. ASSUME NEW n \in Nodes
      PROVE  DOMAIN buffer[n] \subseteq 1..(BatchSize - 1)
  <2>1. buffer[n] \in Seq(Records) /\ ~(Len(buffer[n]) >= BatchSize)
    BY <1>1 DEF Types, Full
  <2>2. Len(buffer[n]) \in Nat /\ DOMAIN buffer[n] = 1..Len(buffer[n])
    BY <2>1, LenProperties
  <2> QED
    BY <2>1, <2>2, Numbers
<1> DEFINE W == Nodes \X (1..(BatchSize - 1))
           S == {p \in W : p[2] \in DOMAIN buffer[p[1]] /\ buffer[p[1]][p[2]] \in Pending}
           f == [p \in S |-> buffer[p[1]][p[2]]]
<1>7. PICK w \in Nat : w = BatchSize - 1
  BY Numbers
<1>8. IsFiniteSet(W) /\ Cardinality(W) = Cardinality(Nodes) * (BatchSize - 1)
  <2>1. IsFiniteSet(1..w) /\ Cardinality(1..w) = w
    BY <1>7, FS_Interval
  <2>2. IsFiniteSet(Nodes \X (1..w)) /\ Cardinality(Nodes \X (1..w)) = Cardinality(Nodes) * w
    BY <2>1, Numbers, FS_Product
  <2> QED
    BY <1>7, <2>2
<1>9. f \in Surjection(S, Pending)
  <2>1. f \in [S -> Pending]
    OBVIOUS
  <2>2. ASSUME NEW r \in Pending
        PROVE  \E p \in S : f[p] = r
    <3>1. PICK n \in Nodes : \E i \in DOMAIN buffer[n] : buffer[n][i] = r
      BY <1>5
    <3>2. PICK i \in DOMAIN buffer[n] : buffer[n][i] = r
      BY <3>1
    <3>3. i \in 1..(BatchSize - 1)
      BY <1>6, <3>2
    <3>4. <<n, i>> \in S /\ f[<<n, i>>] = r
      BY <3>2, <3>3
    <3> QED
      BY <3>4
  <2> HIDE DEF f, S
  <2> QED
    BY <2>1, <2>2 DEF Surjection
<1>10. S \in SUBSET W
  OBVIOUS
<1> HIDE DEF W, S, f
<1>11. IsFiniteSet(S) /\ Cardinality(S) <= Cardinality(W)
  BY <1>8, <1>10, FS_Subset
<1>12. Cardinality(Pending) <= Cardinality(S)
  BY <1>9, <1>11, FS_Surjection
<1>13. Cardinality(Pending) <= Cardinality(Nodes) * (BatchSize - 1)
  <2>1. Cardinality(S) \in Nat /\ Cardinality(W) \in Nat
    BY <1>8, <1>11, FS_CardinalityType
  <2> QED
    BY <1>2, <1>8, <1>11, <1>12, <2>1
<1>14. BatchSize * Cardinality(main.futures) <= BatchSize * MaxFutures
       /\ BatchSize * Cardinality(main.futures) \in Nat /\ BatchSize * MaxFutures \in Nat
  BY <1>2, <1>3, Multiples, Numbers
<1> DEFINE x == BatchSize * Cardinality(main.futures)
           y == BatchSize * MaxFutures
           z == Cardinality(Nodes) * (BatchSize - 1)
           c == Cardinality(Pending)
<1>15. z \in Nat
  BY <1>8, FS_CardinalityType
<1>16. x \in Nat /\ y \in Nat /\ c \in Nat /\ x <= y /\ c <= z
  BY <1>2, <1>13, <1>14
<1>17. Load = x + c /\ Allowed = y + z
  BY DEF Load, Allowed
<1> HIDE DEF x, y, z, c
<1> QED
  BY <1>15, <1>16, <1>17

\* The throttle takes at least one batch off.
LEMMA ThrottleLoads ==
  ASSUME Types, Types', LoadInv, Throttle
  PROVE  LoadInv'
<1>1. /\ main'.futures = {b \in main.futures : ~Ended(b)} /\ main'.taken = main.taken
      /\ batches' = batches
  <2>1. main \in Main
    BY DEF Types
  <2> QED
    BY <2>1 DEF Throttle, Main, sendVars
<1>2. PICK e \in main.futures : Ended(e)
  BY DEF Throttle
<1>3. /\ IsFiniteSet(main.futures) /\ Cardinality(main.futures) \in Nat
      /\ Cardinality(Pending) \in Nat /\ Load \in Nat /\ Allowed \in Nat
  BY Amounts
<1>4. Pending' = Pending
  BY <1>1 DEF Pending
<1>5. Cardinality(main'.futures) \in Nat
      /\ Cardinality(main'.futures) + 1 <= Cardinality(main.futures)
  <2>1. IsFiniteSet(main.futures \ {e})
        /\ Cardinality(main.futures \ {e}) = Cardinality(main.futures) - 1
    BY <1>2, <1>3, FS_RemoveElement
  <2>2. main'.futures \in SUBSET (main.futures \ {e})
    BY <1>1, <1>2
  <2>3. IsFiniteSet(main'.futures)
        /\ Cardinality(main'.futures) <= Cardinality(main.futures \ {e})
    BY <2>1, <2>2, FS_Subset
  <2>4. Cardinality(main'.futures) \in Nat
    BY <2>3, FS_CardinalityType
  <2> QED
    BY <1>3, <2>1, <2>3, <2>4
<1> DEFINE f == Cardinality(main.futures)
           g == Cardinality(main'.futures)
           p == Cardinality(Pending)
<1>6. Load = BatchSize * f + p /\ Load' = BatchSize * g + p /\ Allowed' = Allowed
  BY <1>4 DEF Load, Allowed
<1>7. f \in Nat /\ g \in Nat /\ p \in Nat /\ g + 1 <= f
  BY <1>3, <1>5
<1>8. BatchSize \in Nat /\ ChunkSize \in Nat /\ ChunkSize <= BatchSize /\ Load <= Allowed + ChunkSize
  BY Numbers DEF LoadInv
<1> HIDE DEF f, g, p
<1>9. /\ BatchSize * (g + 1) = BatchSize * g + BatchSize /\ BatchSize * g \in Nat
      /\ BatchSize * (g + 1) <= BatchSize * f /\ BatchSize * f \in Nat
  <2>1. g + 1 \in Nat
    BY <1>7
  <2> QED
    BY <1>7, <1>8, <2>1, Multiples
<1> DEFINE u == BatchSize * f
           v == BatchSize * g
<1>10. u \in Nat /\ v \in Nat /\ v + BatchSize <= u /\ Load = u + p /\ Load' = v + p
  BY <1>6, <1>9
<1> HIDE DEF u, v
<1>11. Load' <= Allowed
  BY <1>3, <1>7, <1>8, <1>10
<1> QED
  BY <1>3, <1>6, <1>7, <1>8, <1>10, <1>11 DEF LoadInv

\* A step that leaves the stream, the batches in flight and what the batches
\* hold alone leaves the load alone.
LEMMA SameLoad ==
  ASSUME Types, Types', LoadInv, main'.taken = main.taken, main'.futures = main.futures,
         DOMAIN batches' = DOMAIN batches,
         \A a \in DOMAIN batches : batches'[a].records = batches[a].records,
         main'.pc \in {"connect", "stream"} => main.pc \in {"connect", "stream"}
  PROVE  LoadInv'
<1>1. Pending' = Pending
  BY DEF Pending
<1> QED
  BY <1>1, Amounts, Lighter

LEMMA LoadStep ==
  ASSUME Inv, Inv', LoadInv, [Next]_vars
  PROVE  LoadInv'
<1>0. Types /\ Types' /\ SentTo /\ PhaseInv /\ RecordsAccounted
  BY DEF Inv
<1>1. CASE UNCHANGED vars
  BY <1>0, <1>1, SameLoad DEF vars
<1>2. CASE Connect
  <2>1. main \in Main /\ main' = [main EXCEPT !.pc = "stream"] /\ batches' = batches
        /\ main.pc = "connect"
    BY <1>0, <1>2 DEF Connect, Types
  <2>2. main'.taken = main.taken /\ main'.futures = main.futures
    BY <2>1 DEF Main
  <2> QED
    BY <1>0, <2>1, <2>2, SameLoad
<1>3. CASE TakeChunk
  BY <1>0, <1>3, TakeChunkLoads
<1>4. CASE Extend
  <2>1. main'.taken = main.taken /\ main'.futures = main.futures /\ main'.pc = "submit"
    BY <1>0, <1>4, Extending
  <2>2. batches' = batches
    BY <1>4 DEF Extend, sendVars
  <2> QED
    BY <1>0, <2>1, <2>2, SameLoad
<1>5. CASE WriteReturns \/ FlushEnds \/ FlushRaises
  <2>1. main'.taken = main.taken /\ main'.futures = main.futures /\ batches' = batches
    BY <1>0, <1>5, TypedOthers
  <2>2. main'.pc # "connect"
    <3>1. main \in Main
      BY <1>0 DEF Types
    <3> QED
      BY <1>5, <3>1 DEF WriteReturns, FlushEnds, FlushRaises, Main
  <2>3. CASE main'.pc = "stream"
    <3>1. WriteReturns
      <4>1. main \in Main
        BY <1>0 DEF Types
      <4> QED
        BY <1>5, <2>3, <4>1 DEF FlushEnds, FlushRaises, Main
    <3>2. Load <= Allowed
      BY <1>0, <2>3, <3>1, ReturnsLoads
    <3>3. Pending' = Pending
      BY <2>1 DEF Pending
    <3>4. Load' = Load /\ Allowed' = Allowed
      BY <2>1, <3>3 DEF Load, Allowed
    <3> QED
      BY <3>2, <3>4 DEF LoadInv
  <2>4. CASE main'.pc # "stream"
    BY <1>0, <2>1, <2>2, <2>4, SameLoad
  <2> QED
    BY <2>3, <2>4
<1>6. CASE Throttle
  BY <1>0, <1>6, ThrottleLoads
<1>7. CASE Finish
  <2>1. /\ main'.taken = main.taken /\ batches' = batches /\ main'.futures \subseteq main.futures
        /\ main'.pc = "ended"
    BY <1>0, <1>7, Waits DEF Finish
  <2>2. Pending' = Pending
    BY <2>1 DEF Pending
  <2>3. Cardinality(main'.futures) <= Cardinality(main.futures)
    BY <1>0, <2>1, Amounts, FS_Subset
  <2> QED
    BY <1>0, <2>1, <2>2, <2>3, Amounts, Lighter
<1>8. ASSUME NEW c \in Clusters, Route(c)
      PROVE  LoadInv'
  <2>1. main'.taken = main.taken /\ main'.futures = main.futures /\ main'.pc = main.pc
    BY <1>0, <1>8, Routing
  <2>2. batches' = batches
    BY <1>8 DEF Route, sendVars
  <2> QED
    BY <1>0, <2>1, <2>2, SameLoad
<1>9. ASSUME NEW n \in Nodes, Submit(n)
      PROVE  LoadInv'
  BY <1>0, <1>9, SubmitLoads
<1>10. ASSUME NEW n \in Nodes, Flush(n)
       PROVE  LoadInv'
  <2>1. /\ Cuts(n, Len(buffer[n])) /\ main'.taken = main.taken /\ main'.futures = main.futures
        /\ main'.pc = main.pc
    BY <1>0, <1>10, FlushCuts
  <2>2. Pending' \in SUBSET Pending
    BY <1>0, <2>1, StillBatched
  <2>3. Cardinality(Pending') <= Cardinality(Pending)
    BY <1>0, <2>2, Amounts, FS_Subset
  <2> QED
    BY <1>0, <2>1, <2>3, Amounts, Lighter
<1>11. ASSUME NEW b \in DOMAIN batches, ThreadStep(b)
       PROVE  LoadInv'
  BY <1>0, <1>11, SameLoad DEF ThreadStep
<1>12. ASSUME NEW b \in DOMAIN batches,
              \/ Attempt(b) \/ Send(b) \/ Acknowledged(b) \/ AttemptFails(b)
              \/ \E l \in ToSet(NodesOf[batches[b].cluster]) : Redirected(b, l)
       PROVE  LoadInv'
  BY <1>0, <1>11, <1>12, TypedAttempt, TypedSend, TypedAcknowledged, TypedRedirected,
     TypedAttemptFails
<1> QED
  BY <1>1, <1>2, <1>3, <1>4, <1>5, <1>6, <1>7, <1>8, <1>9, <1>10, <1>12 DEF Next

LEMMA LoadInitially ==
  ASSUME Init
  PROVE  LoadInv
<1>1. main.futures = {} /\ main.taken = 0
  BY DEF Init
<1>2. Pending = {}
  BY <1>1 DEF Pending
<1>3. Types
  BY Initially
<1>4. Cardinality(main.futures) = 0 /\ Cardinality(Pending) = 0
  BY <1>1, <1>2, FS_EmptySet
<1>5. Load = 0 /\ Allowed \in Nat /\ ChunkSize \in Nat
  BY <1>3, <1>4, Amounts, Numbers DEF Load
<1> QED
  BY <1>5 DEF LoadInv

\* The batches in flight are bounded although the throttle (bench) waits for
\* one batch only and the buffers of former leaders keep records: before each
\* chunk, what is in flight and what is held back are within Allowed together.
THEOREM WhatIsInFlightIsBounded == Spec => []InFlightBounded
<1>1. Init => Inv /\ LoadInv
  BY Initially, LoadInitially DEF Inv
<1>2. Inv /\ LoadInv /\ [Next]_vars => Inv' /\ LoadInv'
  <2>1. Inv /\ [Next]_vars => Inv'
    BY TypesStep, PhaseStep, FollowedStep, AccountedStep DEF Inv
  <2> QED
    BY <2>1, LoadStep
<1>3. Inv /\ LoadInv => InFlightBounded
  <2> SUFFICES ASSUME Inv, LoadInv
               PROVE  InFlightBounded
    OBVIOUS
  <2>1. /\ Cardinality(main.futures) \in Nat /\ Cardinality(Pending) \in Nat
        /\ Load \in Nat /\ Allowed \in Nat /\ ChunkSize \in Nat
    BY Amounts, Numbers DEF Inv
  <2> DEFINE x == BatchSize * Cardinality(main.futures)
             c == Cardinality(Pending)
  <2>2. x \in Nat /\ Load = x + c
    BY <2>1, Multiples, Numbers DEF Load
  <2>3. Load <= Allowed + ChunkSize
    BY DEF LoadInv
  <2> HIDE DEF c
  <2>4. x <= Allowed + ChunkSize
    <3> HIDE DEF x
    <3> QED
      BY <2>1, <2>2, <2>3 DEF c
  <2> QED
    BY <2>4 DEF InFlightBounded, Allowed
<1> QED
  BY <1>1, <1>2, <1>3, PTL DEF Spec

=============================================================================
