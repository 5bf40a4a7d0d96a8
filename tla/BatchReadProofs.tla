-------------------------- MODULE BatchReadProofs --------------------------
(***************************************************************************)
(* Proofs about batched reads: what a call, an idle socket and an           *)
(* aggregator hold in every reachable state, and from it that a call reads  *)
(* its own answers only, that a batch which returns is complete, and that   *)
(* nothing outlives a run but what batches that raised have left.           *)
(***************************************************************************)
EXTENDS BatchRead, FiniteSetTheorems, SequenceTheorems, WellFoundedInduction, TLAPS

---------------------------------------------------------------------------
(* The invariant.                                                          *)

Req  == [query : Int, from : 1..Width]
Resp == [req : Req, records : SUBSET (Int \X (1..Width)), limit : BOOLEAN, max_id : 1..Width]
Sock == [owed : SUBSET Req, eof : BOOLEAN]

States == {"queued", "connect", "recv", "done", "failed", "cancelled"}

CallRecord ==
  [batch : 1..NumBatches, slot : Nat, node : Nodes, requests : Seq(Req), state : States,
   nodes : Seq(Nodes), sock : Sock, got : Seq(Resp)]

AggRecord ==
  [pc : {"none", "running", "returned", "raised"}, active : SUBSET Nat, done : SUBSET Nat,
   at : Nat, sub : Nat, acc : [Nodes -> Seq(Resp)]]

TypeInv ==
  /\ args \in Args /\ registry \in Nodes \cup {NoNode} /\ index \in Int
  /\ main \in [pc : {"read", "throttle", "wait", "ended"}, batch : Nat \ {0}, futures : SUBSET Nat]
  /\ calls \in Seq(CallRecord)
  /\ pool \in [Nodes -> Seq(Sock)]
  /\ agg \in [1..NumBatches -> AggRecord]
  /\ faults \in Nat

\* p answers r.
Answers(p, r) == p \in Pages(r) \cup {Saturated(r)}

\* A call asks for different pages; while it receives, every request is owed or
\* answered, and what is left in the socket is what it still waits for.
Sound(c) ==
  /\ c.requests # <<>> /\ \A i, j \in DOMAIN c.requests : c.requests[i] = c.requests[j] => i = j
  /\ c.slot = 0 => \A i \in DOMAIN c.requests : c.requests[i].from = 1
  /\ c.slot # 0 => Len(c.requests) = 1
  /\ c.state \in {"queued", "connect"} => c.got = <<>> /\ c.sock = Fresh
  /\ c.state \in {"connect", "recv"} => c.nodes # <<>>
  /\ c.state = "recv" =>
       /\ c.sock.owed \subseteq ToSet(c.requests)
       /\ IsFiniteSet(c.sock.owed)
       /\ Cardinality(c.sock.owed) + Len(c.got) = Len(c.requests)
       /\ \A p \in ToSet(c.got) : Answers(p, p.req)
       /\ \A r \in ToSet(c.requests) \ c.sock.owed : \E p \in ToSet(c.got) : p.req = r
  /\ c.state = "done" =>
       /\ Len(c.got) = Len(c.requests)
       /\ \A i \in DOMAIN c.requests : Answers(c.got[i], c.requests[i])

CallsSound == \A k \in DOMAIN calls : Sound(calls[k])

\* Nothing is left to read in an idle socket.
PoolClean == \A n \in Nodes : \A i \in DOMAIN pool[n] : pool[n][i].owed = {}

\* The main thread waits for every batch that has not ended.
MainInv ==
  /\ \A b \in 1..NumBatches : agg[b].pc = "none" <=> b >= main.batch
  /\ \A b \in 1..NumBatches : agg[b].pc = "running" => b \in main.futures
  /\ main.pc = "read" => main.batch <= NumBatches
  /\ main.pc \in {"wait", "ended"} => main.batch > NumBatches
  /\ main.pc = "ended" => main.futures = {}

\* What a batch's aggregator waits for, and that it accounts for its calls.
Waiting(b) == agg[b].active \cup agg[b].done

AggInv(b) ==
  /\ agg[b].active \cap agg[b].done = {}
  /\ \A k \in Waiting(b) : k \in DOMAIN calls /\ calls[k].batch = b
  /\ \A k \in agg[b].done : Finished(k)
  /\ agg[b].pc # "running" => Waiting(b) = {} /\ agg[b].at = 0
  /\ agg[b].pc = "none" => \A k \in DOMAIN calls : calls[k].batch # b
  /\ agg[b].pc \in {"running", "returned"} =>
       \A k \in DOMAIN calls : calls[k].batch = b => k \in Waiting(b) \/ calls[k].state = "done"
  /\ agg[b].at # 0 =>
       /\ agg[b].at \in DOMAIN calls \ Waiting(b)
       /\ calls[agg[b].at].batch = b /\ calls[agg[b].at].slot = 0
       /\ agg[b].sub \in DOMAIN calls[agg[b].at].requests

\* The first pages of call k, batch b, that the aggregator has, as far as it
\* has looked at them.
Taken(b, k) ==
  /\ k \in DOMAIN calls \ Waiting(b)
  /\ calls[k].batch = b /\ calls[k].slot = 0

LookedAt(b, k, i) ==
  Taken(b, k) /\ i \in DOMAIN calls[k].requests /\ (agg[b].at = k => i < agg[b].sub)

\* j asks for the page after what the i-th answer of node n holds.
Follows(b, j, n, i) ==
  j \in Waiting(b) /\ calls[j].node = n /\ calls[j].slot = i

\* The i-th answer taken from k holds the records up to its max_id, and if this
\* is not the last one, a page is asked for.
Complete(b, k, i) ==
  LET p == agg[b].acc[calls[k].node][i]
      r == calls[k].requests[i]
  IN  /\ p.req = r /\ p.records = {r.query} \X (1..p.max_id)
      /\ p.max_id = Width \/ \E j \in Waiting(b) : Follows(b, j, calls[k].node, i)

ContentInv(b) ==
  /\ \A k \in DOMAIN calls : Taken(b, k) =>
       /\ DOMAIN agg[b].acc[calls[k].node] = DOMAIN calls[k].requests
       /\ \A i \in DOMAIN calls[k].requests :
            IF LookedAt(b, k, i) THEN Complete(b, k, i)
            ELSE agg[b].acc[calls[k].node][i] = calls[k].got[i]
  /\ \A j \in Waiting(b) : calls[j].slot # 0 =>
       /\ \E k \in DOMAIN calls :
            /\ calls[k].node = calls[j].node /\ LookedAt(b, k, calls[j].slot)
            /\ calls[j].requests = <<[query |-> calls[k].requests[calls[j].slot].query,
                                      from |-> agg[b].acc[calls[j].node][calls[j].slot].max_id + 1]>>
       /\ \A h \in Waiting(b) : Follows(b, h, calls[j].node, calls[j].slot) => h = j

IInv ==
  /\ TypeInv /\ CallsSound /\ PoolClean /\ MainInv /\ ClosedAtEnd
  /\ \A b \in 1..NumBatches :
       /\ AggInv(b)
       /\ agg[b].pc \in {"running", "returned"} /\ ~Overwritten(b) => ContentInv(b)

---------------------------------------------------------------------------
(* Operators.                                                              *)

Increasing(s) == \A i, j \in DOMAIN s : i < j => s[i] < s[j]

\* A set of numbers has a first element.
LEMMA FirstOf ==
  ASSUME NEW S \in SUBSET Nat, S # {}
  PROVE  \E x \in S : \A y \in S : x <= y
<1> DEFINE R == OpToRel(<, Nat)
<1>1. \E x \in S : \A y \in S : ~(<<y, x>> \in R)
  <2> HIDE DEF R
  <2> QED
    BY NatLessThanWellFounded, WFMin DEF R
<1>2. PICK x \in S : \A y \in S : ~(<<y, x>> \in R)
  BY <1>1
<1>3. ASSUME NEW y \in S PROVE x <= y
  <2>1. x \in Nat /\ y \in Nat
    OBVIOUS
  <2>2. ~(y < x)
    BY <1>2, <2>1, Zenon DEF OpToRel
  <2> QED
    BY <2>1, <2>2
<1> QED
  BY <1>3

\* A finite set of numbers can be enumerated in its order.
LEMMA Enumeration ==
  ASSUME NEW S \in SUBSET Nat, IsFiniteSet(S)
  PROVE  Ascending(S) \in [1..Cardinality(S) -> S] /\ Increasing(Ascending(S))
<1> DEFINE Has(T) == \E s \in [1..Cardinality(T) -> T] : Increasing(s)
           Bad == {n \in Nat : \E T \in SUBSET Nat : IsFiniteSet(T) /\ Cardinality(T) = n /\ ~Has(T)}
<1>1. Bad = {}
  <2>1. SUFFICES ASSUME Bad # {} PROVE FALSE
    OBVIOUS
  <2>2. PICK n \in Bad : \A m \in Bad : n <= m
    <3>1. Bad \in SUBSET Nat
      OBVIOUS
    <3> HIDE DEF Bad
    <3> QED
      BY <2>1, <3>1, FirstOf
  <2>3. PICK T \in SUBSET Nat : IsFiniteSet(T) /\ Cardinality(T) = n /\ ~Has(T)
    BY <2>2
  <2>4. T # {}
    <3>1. SUFFICES ASSUME T = {} PROVE FALSE
      OBVIOUS
    <3>2. Cardinality(T) = 0
      BY <3>1, FS_EmptySet
    <3>3. <<>> \in [1..0 -> T] /\ Increasing(<<>>)
      BY DEF Increasing
    <3> QED
      BY <2>3, <3>2, <3>3
  <2>5. PICK x \in T : \A y \in T : x <= y
    BY <2>4, FirstOf
  <2> DEFINE U == T \ {x}
  <2>6. IsFiniteSet(U) /\ Cardinality(U) = n - 1 /\ n \in Nat /\ n - 1 \in Nat
    <3>1. n \in Nat
      BY <2>2
    <3>2. IsFiniteSet(U) /\ Cardinality(U) = n - 1
      BY <2>3, <2>5, FS_RemoveElement
    <3>3. Cardinality(U) \in Nat
      BY <3>2, FS_CardinalityType
    <3> QED
      BY <3>1, <3>2, <3>3
  <2>7. Has(U)
    <3>1. n - 1 \notin Bad
      BY <2>2, <2>6
    <3>2. U \in SUBSET Nat
      OBVIOUS
    <3> QED
      BY <2>6, <3>1, <3>2
  <2>8. PICK u \in [1..(n - 1) -> U] : Increasing(u)
    BY <2>6, <2>7
  <2> DEFINE s == [i \in 1..n |-> IF i = 1 THEN x ELSE u[i - 1]]
  <2>9. \A i \in 1..n : s[i] \in T /\ (i # 1 => s[i] \in U /\ s[i] = u[i - 1] /\ i - 1 \in 1..(n - 1))
    BY <2>5, <2>6, <2>8
  <2>10. s \in [1..n -> T]
    BY <2>9
  <2>11. ASSUME NEW i \in 1..n, NEW j \in 1..n, i < j
         PROVE  s[i] < s[j]
    <3> HIDE DEF s, U
    <3>0. j # 1 /\ U \subseteq Nat
      BY <2>6, <2>11 DEF U
    <3>1. s[j] \in U /\ s[j] = u[j - 1] /\ j - 1 \in 1..(n - 1) /\ s[j] \in Nat
      BY <2>9, <3>0
    <3>2. CASE i = 1
      <4>1. s[i] = x /\ x <= s[j] /\ x # s[j] /\ x \in Nat
        BY <2>5, <3>1, <3>2 DEF s, U
      <4> QED
        BY <3>1, <4>1
    <3>3. CASE i # 1
      <4>1. s[i] = u[i - 1] /\ i - 1 \in 1..(n - 1) /\ i - 1 < j - 1
        BY <2>6, <2>9, <2>11, <3>3
      <4> QED
        BY <2>8, <3>1, <4>1 DEF Increasing
    <3> QED
      BY <3>2, <3>3
  <2>12. Increasing(s)
    <3>1. DOMAIN s = 1..n
      OBVIOUS
    <3> HIDE DEF s
    <3> QED
      BY <2>11, <3>1 DEF Increasing
  <2> QED
    BY <2>3, <2>10, <2>12
<1>2. Cardinality(S) \in Nat
  BY FS_CardinalityType
<1>3. Has(S)
  BY <1>1, <1>2
<1> QED
  BY <1>3 DEF Ascending, Increasing

\* An enumeration is a sequence without repetition.
LEMMA AscendingSeq ==
  ASSUME NEW S \in SUBSET Nat, IsFiniteSet(S)
  PROVE  /\ Ascending(S) \in Seq(S) /\ Len(Ascending(S)) = Cardinality(S)
         /\ Cardinality(S) \in Nat /\ DOMAIN Ascending(S) = 1..Cardinality(S)
         /\ \A i \in 1..Cardinality(S) : Ascending(S)[i] \in S
         /\ \A i, j \in 1..Cardinality(S) : Ascending(S)[i] = Ascending(S)[j] => i = j
<1> DEFINE s == Ascending(S)
           n == Cardinality(S)
<1>1. s \in [1..n -> S] /\ Increasing(s) /\ n \in Nat
  BY Enumeration, FS_CardinalityType
<1> HIDE DEF s, n
<1>2. s \in Seq(S) /\ DOMAIN s = 1..n
  BY <1>1, SeqDef
<1>3. Len(s) = n
  BY <1>1, <1>2, LenProperties
<1>4. ASSUME NEW i \in 1..n, NEW j \in 1..n, s[i] = s[j]
      PROVE  i = j
  <2>1. s[i] \in Nat /\ s[j] \in Nat /\ (i < j => s[i] < s[j]) /\ (j < i => s[j] < s[i])
    BY <1>1, <1>2 DEF Increasing
  <2> QED
    BY <1>1, <1>4, <2>1
<1>5. \A i \in 1..n : s[i] \in S
  BY <1>1
<1> QED
  BY <1>1, <1>2, <1>3, <1>4, <1>5 DEF s, n

\* A remainder.
LEMMA Remainders ==
  ASSUME NEW t \in Int, NEW n \in Nat \ {0}
  PROVE  (t % n) + 1 \in 1..n
OBVIOUS

\* The nodes a batch's queries and a failing call may go to.
LEMMA NodesInOrder ==
  ASSUME NEW S \in SUBSET Nodes
  PROVE  /\ Ascending(S) \in Seq(Nodes) /\ IsFiniteSet(S) /\ S \in SUBSET Nat
         /\ Len(Ascending(S)) = Cardinality(S)
<1>1. Nodes \in SUBSET Nat /\ IsFiniteSet(Nodes)
  BY BatchConstants, FS_Interval DEF Nodes
<1>2. IsFiniteSet(S) /\ S \in SUBSET Nat
  BY <1>1, FS_Subset
<1>3. Ascending(S) \in Seq(S) /\ Len(Ascending(S)) = Cardinality(S)
  BY <1>2, AscendingSeq
<1> QED
  BY <1>2, <1>3, SeqMonotonic

\* A query is routed to a node.
LEMMA RoutedToNode ==
  ASSUME TypeInv, NEW i \in Int
  PROVE  Routed(i) \in Nodes
<1>1. Followers \in Seq(Nodes) /\ Len(Followers) = Cardinality(Nodes \ {registry})
      /\ IsFiniteSet(Nodes \ {registry})
  BY NodesInOrder DEF Followers
<1>2. CASE Followers = <<>>
  <2>1. Nodes \ {registry} = {}
    BY <1>1, <1>2, FS_EmptySet
  <2>2. registry \in Nodes
    BY <2>1, BatchConstants DEF Nodes
  <2> QED
    BY <1>2, <2>2 DEF Routed, Selected
<1>3. CASE Followers # <<>>
  <2>1. Len(Followers) \in Nat \ {0}
    BY <1>1, <1>3, EmptySeq
  <2>2. index + i - 1 \in Int
    BY DEF TypeInv
  <2> DEFINE t == index + i - 1
  <2> HIDE DEF t
  <2>3. (t % Len(Followers)) + 1 \in 1..Len(Followers)
    BY <2>1, <2>2, Remainders DEF t
  <2>4. Followers[(t % Len(Followers)) + 1] \in Nodes
    BY <1>1, <2>3, ElementOfSeq
  <2> QED
    BY <1>3, <2>4 DEF Routed, Selected, t
<1> QED
  BY <1>2, <1>3

\* There is always a node to try.
LEMMA PreferredNodes ==
  ASSUME TypeInv, NEW n \in Nodes
  PROVE  Preferred(n) \in Seq(Nodes) /\ Preferred(n) # <<>>
<1> DEFINE p == <<n>>
           q == Ascending(Nodes \ {registry, n})
           r == IF registry \in Nodes \ {n} THEN <<registry>> ELSE <<>>
<1>1. p \in Seq(Nodes) /\ q \in Seq(Nodes) /\ r \in Seq(Nodes) /\ Len(p) = 1
  BY NodesInOrder
<1> HIDE DEF p, q, r
<1>2. p \o q \in Seq(Nodes) /\ Len(p \o q) = 1 + Len(q)
  BY <1>1, ConcatProperties, ZenonT(30)
<1> DEFINE pq == p \o q
<1>3. pq \in Seq(Nodes) /\ Len(pq) = 1 + Len(q)
  BY <1>2
<1> HIDE DEF pq
<1>4. pq \o r \in Seq(Nodes) /\ Len(pq \o r) = 1 + Len(q) + Len(r)
  <2>1. pq \o r \in Seq(Nodes) /\ Len(pq \o r) = Len(pq) + Len(r)
    BY <1>1, <1>3, ConcatProperties
  <2> QED
    BY <1>3, <2>1
<1>5. Len(pq \o r) # 0
  BY <1>1, <1>4, LenProperties
<1>6. Preferred(n) = pq \o r
  BY DEF Preferred, p, q, r, pq
<1> QED
  BY <1>4, <1>5, <1>6, EmptySeq

\* The requests for first pages are different.
LEMMA FirstPagesSound ==
  ASSUME TypeInv, NEW n \in Nodes, NEW b \in Nat
  PROVE  /\ FirstPages(n, b) \in Seq(Req)
         /\ \A i, j \in DOMAIN FirstPages(n, b) :
              FirstPages(n, b)[i] = FirstPages(n, b)[j] => i = j
         /\ \A i \in DOMAIN FirstPages(n, b) : FirstPages(n, b)[i].from = 1
         /\ \A i \in 1..Cardinality(Batch(b)) : Routed(i) = n => FirstPages(n, b) # <<>>
<1> DEFINE S == {i \in 1..Cardinality(Batch(b)) : Routed(i) = n}
           P == PositionsFor(n, b)
           F == FirstPages(n, b)
           base == (b - 1) * args.batch_size
<1>1. /\ S \in SUBSET Nat /\ IsFiniteSet(S) /\ base \in Int
  <2>1. args.requests \in Nat /\ args.batch_size \in Nat
    <3>1. args \in Args /\ Args \subseteq [requests : Nat \ {0}, batch_size : Nat \ {0}]
      BY BatchConstants DEF TypeInv
    <3> HIDE DEF base
    <3> QED
      BY <3>1
  <2>2. IsFiniteSet(1..args.requests) /\ Batch(b) \subseteq 1..args.requests
    <3>1. IsFiniteSet(1..args.requests)
      BY <2>1, FS_Interval, SMTT(30)
    <3>2. Batch(b) \subseteq 1..args.requests
      BY Zenon DEF Batch
    <3> QED
      BY <3>1, <3>2
  <2>3. IsFiniteSet(Batch(b))
    BY <2>2, FS_Subset
  <2>4. Cardinality(Batch(b)) \in Nat
    BY <2>3, FS_CardinalityType
  <2>5. IsFiniteSet(1..Cardinality(Batch(b))) /\ S \subseteq 1..Cardinality(Batch(b))
    BY <2>4, FS_Interval
  <2>6. IsFiniteSet(S)
    BY <2>5, FS_Subset
  <2> QED
    BY <2>1, <2>5, <2>6
<1>2. P = Ascending(S)
  BY DEF PositionsFor
<1> HIDE DEF P, S
<1>3. /\ P \in Seq(S) /\ DOMAIN P = 1..Cardinality(S) /\ Cardinality(S) \in Nat
      /\ \A i \in 1..Cardinality(S) : P[i] \in S
      /\ \A i, j \in 1..Cardinality(S) : P[i] = P[j] => i = j
  BY <1>1, <1>2, AscendingSeq
<1>4. F = [j \in 1..Cardinality(S) |-> [query |-> base + P[j], from |-> 1]]
  <2>1. F = [j \in DOMAIN P |-> [query |-> base + P[j], from |-> 1]]
    BY Zenon DEF FirstPages, P
  <2> HIDE DEF F, base
  <2> QED
    BY <1>3, <2>1
<1> HIDE DEF F, base
<1>5. \A j \in 1..Cardinality(S) : P[j] \in Int
  <2>1. S \subseteq Int
    BY <1>1
  <2> QED
    BY <1>3, <2>1
<1>6. \A j \in 1..Cardinality(S) : [query |-> base + P[j], from |-> 1] \in Req
  BY <1>1, <1>5, BatchConstants DEF Req
<1>7. F \in Seq(Req) /\ DOMAIN F = 1..Cardinality(S)
  BY <1>3, <1>4, <1>6, IsASeq
<1>8. ASSUME NEW i \in DOMAIN F, NEW j \in DOMAIN F, F[i] = F[j]
      PROVE  i = j
  <2>1. F[i].query = base + P[i] /\ F[j].query = base + P[j]
    BY <1>4, <1>7
  <2>2. P[i] = P[j]
    BY <2>1, <1>1, <1>5, <1>7, <1>8
  <2> QED
    BY <1>3, <1>7, <2>2
<1>9. \A i \in DOMAIN F : F[i].from = 1
  BY <1>4, <1>7
<1>10. ASSUME NEW i \in 1..Cardinality(Batch(b)), Routed(i) = n
       PROVE  F # <<>>
  <2>1. S # {}
    BY <1>10 DEF S
  <2>2. Cardinality(S) # 0
    BY <2>1, <1>1, FS_EmptySet
  <2> QED
    BY <1>3, <1>7, <2>2
<1> QED
  BY <1>7, <1>8, <1>9, <1>10 DEF F

---------------------------------------------------------------------------
(* A call.                                                                 *)

\* c becomes v while it is under way.
Moves(c, v) ==
  /\ v \in CallRecord /\ Sound(v) /\ c.state \in {"queued", "connect", "recv"}
  /\ v.batch = c.batch /\ v.slot = c.slot /\ v.requests = c.requests
  /\ c.slot # 0 => v.node = c.node
  /\ v.state # "cancelled"

\* The fields of a call.
LEMMA CallFields ==
  ASSUME NEW c \in CallRecord
  PROVE  /\ c.batch \in 1..NumBatches /\ c.slot \in Nat /\ c.node \in Nodes
         /\ c.requests \in Seq(Req) /\ c.state \in States /\ c.nodes \in Seq(Nodes)
         /\ c.sock \in Sock /\ c.got \in Seq(Resp)
BY DEF CallRecord

\* The set of the elements of a sequence without repetition.
LEMMA Elements ==
  ASSUME NEW S, NEW q \in Seq(S), \A i, j \in DOMAIN q : q[i] = q[j] => i = j
  PROVE  /\ ToSet(q) \in SUBSET S /\ IsFiniteSet(ToSet(q)) /\ Cardinality(ToSet(q)) = Len(q)
         /\ \A i \in DOMAIN q : q[i] \in ToSet(q)
<1>1. DOMAIN q = 1..Len(q) /\ Len(q) \in Nat /\ \A i \in DOMAIN q : q[i] \in S
  BY LenProperties, ElementOfSeq
<1>2. ToSet(q) = {q[i] : i \in 1..Len(q)}
  BY <1>1 DEF ToSet
<1>3. q \in Bijection(1..Len(q), ToSet(q))
  <2> DEFINE n == Len(q)
             T == ToSet(q)
  <2>1. q = [i \in 1..n |-> q[i]]
    BY LenProperties
  <2>2. (\A i \in 1..n : q[i] \in T) /\ (\A x \in T : \E i \in 1..n : q[i] = x)
    BY <1>2
  <2>3. \A i, j \in 1..n : q[i] = q[j] => i = j
    BY <1>1
  <2> HIDE DEF n, T
  <2>4. q \in [1..n -> T]
    <3>1. [i \in 1..n |-> q[i]] \in [1..n -> T]
      BY <2>2
    <3> QED
      BY <2>1, <3>1, Zenon
  <2>5. q \in Injection(1..n, T)
    BY <2>3, <2>4 DEF Injection, IsInjective
  <2>6. q \in Surjection(1..n, T)
    BY <2>2, <2>4 DEF Surjection
  <2>7. q \in Bijection(1..n, T)
    BY <2>5, <2>6, Zenon DEF Bijection
  <2> QED
    BY <2>7 DEF n, T
<1>4. IsFiniteSet(1..Len(q)) /\ Cardinality(1..Len(q)) = Len(q)
  <2>1. Len(q) \in Nat
    BY <1>1
  <2> QED
    BY <2>1, FS_Interval, SMTT(30)
<1>5. ExistsBijection(1..Len(q), ToSet(q))
  BY <1>3 DEF ExistsBijection
<1>6. IsFiniteSet(ToSet(q)) /\ Cardinality(ToSet(q)) = Cardinality(1..Len(q))
  BY <1>4, <1>5, FS_Bijection
<1> QED
  BY <1>1, <1>2, <1>4, <1>6

\* A page holds the records from the one asked for to its max_id, and is the
\* last one unless the limit was reached.
Page(p, r) ==
  /\ p.max_id \in r.from..Width /\ p.records = {r.query} \X (r.from..p.max_id)
  /\ p.limit \/ p.max_id = Width

\* What an answer holds: a page, or nothing from a server that was too busy.
LEMMA AnswerFields ==
  ASSUME NEW r \in Req, NEW p, Answers(p, r)
  PROVE  /\ p \in Resp /\ p.req = r
         /\ \/ p.records = {} /\ p.limit
            \/ Page(p, r)
<1>1. r.query \in Int /\ r.from \in 1..Width /\ Width \in Nat \ {0}
  BY BatchConstants DEF Req
<1>2. CASE p = Saturated(r)
  BY <1>1, <1>2 DEF Saturated, Resp
<1>3. CASE p \in Pages(r)
  <2>1. PICK x \in [last : r.from..Width, limit : BOOLEAN] :
          /\ x.limit \/ x.last = Width
          /\ p = [req |-> r, records |-> {r.query} \X (r.from..x.last),
                  limit |-> x.limit, max_id |-> x.last]
    BY <1>3 DEF Pages
  <2>2. p.req = r /\ p.records = {r.query} \X (r.from..p.max_id) /\ p.limit = x.limit
        /\ p.max_id = x.last
    BY <2>1
  <2>3. p.max_id \in r.from..Width /\ p.max_id \in 1..Width /\ p.limit \in BOOLEAN
    BY <1>1, <2>1, <2>2
  <2>4. p.records \in SUBSET (Int \X (1..Width))
    <3>1. r.from..p.max_id \subseteq 1..Width
      BY <1>1, <2>3
    <3> QED
      BY <1>1, <2>2, <3>1
  <2>5. p \in Resp
    BY <2>1, <2>3, <2>4, <2>2 DEF Resp
  <2> QED
    BY <2>1, <2>2, <2>3, <2>5 DEF Page
<1> QED
  BY <1>2, <1>3 DEF Answers

\* Start.
LEMMA StartedSound ==
  ASSUME NEW c \in CallRecord, Sound(c), c.state = "queued",
         NEW q \in Seq(Nodes), q # <<>>
  PROVE  Moves(c, [c EXCEPT !.state = "connect", !.nodes = q])
<1> DEFINE v == [c EXCEPT !.state = "connect", !.nodes = q]
<1>1. /\ v \in CallRecord /\ v.state = "connect" /\ v.nodes = q
      /\ v.batch = c.batch /\ v.slot = c.slot /\ v.node = c.node
      /\ v.requests = c.requests /\ v.sock = c.sock /\ v.got = c.got
  BY DEF CallRecord, States
<1> HIDE DEF v
<1>2. Sound(v)
  BY <1>1 DEF Sound
<1> QED
  BY <1>1, <1>2 DEF Moves, v

\* Connect.
LEMMA ConnectedSound ==
  ASSUME NEW c \in CallRecord, Sound(c), c.state = "connect",
         NEW s \in Sock, s.owed = ToSet(c.requests)
  PROVE  Moves(c, [c EXCEPT !.state = "recv", !.sock = s])
<1> DEFINE v == [c EXCEPT !.state = "recv", !.sock = s]
<1>1. /\ v \in CallRecord /\ v.state = "recv" /\ v.sock = s
      /\ v.batch = c.batch /\ v.slot = c.slot /\ v.node = c.node
      /\ v.requests = c.requests /\ v.nodes = c.nodes /\ v.got = c.got
  BY DEF CallRecord, States
<1> HIDE DEF v
<1>2. IsFiniteSet(s.owed) /\ Cardinality(s.owed) = Len(c.requests) /\ Len(c.requests) \in Nat
  BY CallFields, Elements, LenProperties DEF Sound
<1>3. c.got = <<>> /\ Len(c.got) = 0 /\ ToSet(c.got) = {}
  BY CallFields, EmptySeq DEF Sound, ToSet
<1>4. Cardinality(s.owed) + Len(c.got) = Len(c.requests)
  BY <1>2, <1>3
<1>5. Sound(v)
  BY <1>1, <1>2, <1>3, <1>4 DEF Sound
<1> QED
  BY <1>1, <1>5 DEF Moves, v

\* The exception path.
LEMMA FailedSound ==
  ASSUME NEW c \in CallRecord, Sound(c), c.state \in {"connect", "recv"}
  PROVE  Moves(c, Failed(c)) /\ Failed(c).state \in {"connect", "failed"}
<1> DEFINE st == IF Len(c.nodes) > 1 THEN "connect" ELSE "failed"
           u == [c EXCEPT !.state = st, !.nodes = Tail(c.nodes)]
           v == [u EXCEPT !.got = <<>>, !.sock = Fresh]
<1>1. c.nodes \in Seq(Nodes) /\ c.nodes # <<>>
  BY CallFields DEF Sound
<1>2. Tail(c.nodes) \in Seq(Nodes) /\ (st = "connect" => Tail(c.nodes) # <<>>)
  <2>1. Tail(c.nodes) \in Seq(Nodes) /\ Len(Tail(c.nodes)) = Len(c.nodes) - 1 /\ Len(c.nodes) \in Nat
    BY <1>1, HeadTailProperties, LenProperties
  <2>2. st = "connect" => Len(Tail(c.nodes)) > 0
    BY <2>1
  <2>3. Len(Tail(c.nodes)) > 0 => Tail(c.nodes) # <<>>
    BY EmptySeq
  <2> QED
    BY <2>1, <2>2, <2>3
<1>3. st \in {"connect", "failed"} /\ st \in States /\ <<>> \in Seq(Resp) /\ Fresh \in Sock
  BY EmptySeq DEF States, Fresh, Sock
<1> HIDE DEF st
<1>4. /\ u \in CallRecord /\ u.state = st /\ u.nodes = Tail(c.nodes)
      /\ u.batch = c.batch /\ u.slot = c.slot /\ u.node = c.node
      /\ u.requests = c.requests
  BY <1>2, <1>3 DEF CallRecord
<1>5. Failed(c) = v
  BY DEF Failed, st, CallRecord
<1> HIDE DEF u
<1>6. /\ v \in CallRecord /\ v.got = <<>> /\ v.sock = Fresh
      /\ v.batch = u.batch /\ v.slot = u.slot /\ v.node = u.node
      /\ v.requests = u.requests /\ v.nodes = u.nodes /\ v.state = u.state
  BY <1>3, <1>4 DEF CallRecord
<1> HIDE DEF v
<1>7. Sound(v)
  BY <1>2, <1>3, <1>4, <1>6 DEF Sound
<1> QED
  BY <1>3, <1>4, <1>5, <1>6, <1>7 DEF Moves

\* Every request is owed or answered.
Answered(c, g, owed) == \A q \in ToSet(c.requests) \ owed : \E x \in ToSet(g) : x.req = q

\* An answer is added to those a call has.
LEMMA AnswerAdded ==
  ASSUME NEW c \in CallRecord, Sound(c), c.state = "recv",
         NEW r \in c.sock.owed, NEW p, Answers(p, r)
  PROVE  LET g == Append(c.got, p)
             o == c.sock.owed \ {r}
         IN  /\ g \in Seq(Resp) /\ Len(g) = Len(c.got) + 1
             /\ o \in SUBSET Req /\ o \subseteq ToSet(c.requests) /\ IsFiniteSet(o)
             /\ Cardinality(o) + Len(g) = Len(c.requests)
             /\ Len(g) \in Nat /\ Len(c.requests) \in Nat /\ Cardinality(o) \in Nat
             /\ \A x \in ToSet(g) : Answers(x, x.req)
             /\ Answered(c, g, o)
             /\ r \in ToSet(c.requests)
<1> DEFINE g == Append(c.got, p)
           o == c.sock.owed \ {r}
<1>1. /\ c.sock.owed \subseteq ToSet(c.requests) /\ IsFiniteSet(c.sock.owed)
      /\ Cardinality(c.sock.owed) + Len(c.got) = Len(c.requests)
      /\ \A x \in ToSet(c.got) : Answers(x, x.req)
      /\ \A q \in ToSet(c.requests) \ c.sock.owed : \E x \in ToSet(c.got) : x.req = q
  BY DEF Sound
<1>2. c.got \in Seq(Resp) /\ c.requests \in Seq(Req) /\ c.sock.owed \in SUBSET Req
  BY CallFields DEF Sock
<1>3. p \in Resp /\ p.req = r
  BY <1>2, AnswerFields
<1>4. /\ g \in Seq(Resp) /\ Len(g) = Len(c.got) + 1 /\ Len(c.got) \in Nat
      /\ g[Len(c.got) + 1] = p /\ \A i \in 1..Len(c.got) : g[i] = c.got[i]
  BY <1>2, <1>3, AppendProperties, LenProperties
<1> HIDE DEF g
<1>5. DOMAIN g = 1..(Len(c.got) + 1) /\ DOMAIN c.got = 1..Len(c.got)
  BY <1>2, <1>4, LenProperties
<1>6. ToSet(g) = ToSet(c.got) \cup {p}
  <2>1. \A x \in ToSet(g) : x \in ToSet(c.got) \cup {p}
    BY <1>4, <1>5 DEF ToSet
  <2>2. \A x \in ToSet(c.got) \cup {p} : x \in ToSet(g)
    BY <1>4, <1>5 DEF ToSet
  <2> QED
    BY <2>1, <2>2
<1>7. IsFiniteSet(o) /\ Cardinality(o) = Cardinality(c.sock.owed) - 1
  BY <1>1, FS_RemoveElement
<1>8. Cardinality(o) \in Nat /\ Cardinality(c.sock.owed) \in Nat /\ Len(c.requests) \in Nat
  BY <1>1, <1>2, <1>7, FS_CardinalityType, LenProperties
<1>9. Cardinality(o) + Len(g) = Len(c.requests) /\ Len(g) \in Nat
  BY <1>1, <1>4, <1>7, <1>8
<1>10. \A x \in ToSet(g) : Answers(x, x.req)
  BY <1>1, <1>3, <1>6
<1>11. Answered(c, g, o)
  BY <1>1, <1>3, <1>6 DEF Answered
<1> QED
  BY <1>1, <1>2, <1>4, <1>7, <1>8, <1>9, <1>10, <1>11 DEF g

\* Receive, with answers outstanding.
LEMMA ReceivedSound ==
  ASSUME NEW c \in CallRecord, Sound(c), c.state = "recv",
         NEW r \in c.sock.owed, NEW p, Answers(p, r),
         NEW s \in Sock, s.owed = c.sock.owed \ {r}
  PROVE  Moves(c, [c EXCEPT !.got = Append(c.got, p), !.sock = s])
<1> DEFINE g == Append(c.got, p)
           v == [c EXCEPT !.got = g, !.sock = s]
<1>1. /\ g \in Seq(Resp)
      /\ s.owed \subseteq ToSet(c.requests) /\ IsFiniteSet(s.owed)
      /\ Cardinality(s.owed) + Len(g) = Len(c.requests)
      /\ \A x \in ToSet(g) : Answers(x, x.req)
      /\ Answered(c, g, s.owed)
  BY AnswerAdded
<1> HIDE DEF g
<1>2. /\ v \in CallRecord /\ v.got = g /\ v.sock = s
      /\ v.batch = c.batch /\ v.slot = c.slot /\ v.node = c.node
      /\ v.requests = c.requests /\ v.nodes = c.nodes /\ v.state = c.state
  BY <1>1 DEF CallRecord
<1> HIDE DEF v
<1>3. Sound(v)
  BY <1>1, <1>2 DEF Sound, Answered
<1> QED
  BY <1>2, <1>3 DEF Moves, v, g

\* Receive, with the last answer: they are put in the order of the requests.
LEMMA ReceivedLast ==
  ASSUME NEW c \in CallRecord, Sound(c), c.state = "recv",
         NEW r \in c.sock.owed, NEW p, Answers(p, r),
         ~(Len(Append(c.got, p)) < Len(c.requests)), NEW n \in Nodes, c.slot # 0 => n = c.node
  PROVE  /\ c.sock.owed \ {r} = {}
         /\ Moves(c, [c EXCEPT !.state = "done", !.sock = Fresh, !.nodes = <<>>, !.node = n,
                               !.got = Ordered(c.requests, Append(c.got, p))])
<1> DEFINE g == Append(c.got, p)
           o == c.sock.owed \ {r}
           d == Ordered(c.requests, g)
           v == [c EXCEPT !.state = "done", !.sock = Fresh, !.nodes = <<>>, !.node = n, !.got = d]
<1>1. /\ g \in Seq(Resp) /\ IsFiniteSet(o) /\ Cardinality(o) + Len(g) = Len(c.requests)
      /\ Len(g) \in Nat /\ Len(c.requests) \in Nat /\ Cardinality(o) \in Nat
      /\ \A x \in ToSet(g) : Answers(x, x.req)
      /\ Answered(c, g, o)
      /\ c.requests \in Seq(Req)
  <2>1. c.requests \in Seq(Req)
    BY CallFields
  <2>2. /\ g \in Seq(Resp) /\ IsFiniteSet(o) /\ Cardinality(o) + Len(g) = Len(c.requests)
        /\ Len(g) \in Nat /\ Len(c.requests) \in Nat /\ Cardinality(o) \in Nat
    BY AnswerAdded, Zenon
  <2>3. \A x \in ToSet(g) : Answers(x, x.req)
    BY AnswerAdded, Zenon
  <2>4. Answered(c, g, o)
    BY AnswerAdded, Zenon
  <2> QED
    BY <2>1, <2>2, <2>3, <2>4, Zenon
<1>2. o = {}
  <2>1. Cardinality(o) = 0
    BY <1>1
  <2> QED
    BY <1>1, <2>1, FS_EmptySet
<1> HIDE DEF g
<1>3. DOMAIN c.requests = 1..Len(c.requests)
  BY <1>1, LenProperties
<1>4. ASSUME NEW i \in DOMAIN c.requests
      PROVE  d[i] \in Resp /\ Answers(d[i], c.requests[i])
  <2>1. c.requests[i] \in ToSet(c.requests) /\ c.requests[i] \in Req
    BY <1>1, <1>3, ElementOfSeq DEF ToSet
  <2>2. \E x \in ToSet(g) : x.req = c.requests[i]
    BY <1>1, <1>2, <2>1 DEF Answered
  <2>3. d[i] = CHOOSE x \in ToSet(g) : x.req = c.requests[i]
    BY DEF Ordered
  <2>4. d[i] \in ToSet(g) /\ d[i].req = c.requests[i]
    BY <2>2, <2>3
  <2>5. Answers(d[i], c.requests[i])
    BY <1>1, <2>4
  <2> QED
    BY <2>1, <2>5, AnswerFields
<1>5. d \in Seq(Resp) /\ Len(d) = Len(c.requests)
  <2>1. d = [i \in 1..Len(c.requests) |-> d[i]]
    BY <1>3 DEF Ordered
  <2> HIDE DEF d
  <2>2. \A i \in 1..Len(c.requests) : d[i] \in Resp
    BY <1>3, <1>4
  <2>3. [i \in 1..Len(c.requests) |-> d[i]] \in Seq(Resp)
    BY <1>1, <2>2, IsASeq
  <2>4. DOMAIN d = 1..Len(c.requests)
    BY <2>1
  <2>5. Len(d) = Len(c.requests)
    BY <1>1, <2>1, <2>3, <2>4, LenProperties
  <2> QED
    BY <2>1, <2>3, <2>5
<1> HIDE DEF d
<1>6. Fresh \in Sock /\ <<>> \in Seq(Nodes)
  BY EmptySeq DEF Fresh, Sock
<1>7. /\ v \in CallRecord /\ v.state = "done" /\ v.got = d
      /\ v.batch = c.batch /\ v.slot = c.slot /\ v.node = n /\ v.requests = c.requests
  BY <1>5, <1>6 DEF CallRecord, States
<1> HIDE DEF v
<1>8. Sound(v)
  BY <1>4, <1>5, <1>7 DEF Sound
<1> QED
  BY <1>2, <1>7, <1>8 DEF Moves, v, d, g

---------------------------------------------------------------------------
(* The steps of the I/O threads.                                           *)

\* How many batches there are does not change.
LEMMA SameBatches ==
  ASSUME args' = args
  PROVE  NumBatches' = NumBatches /\ CallRecord' = CallRecord
BY DEF NumBatches, CallRecord

\* The calls and the aggregators of a state.
LEMMA Parts ==
  ASSUME TypeInv
  PROVE  /\ DOMAIN calls = 1..Len(calls) /\ Len(calls) \in Nat
         /\ \A k \in DOMAIN calls : calls[k] \in CallRecord /\ calls[k].state \in States
                                    /\ calls[k].batch \in 1..NumBatches
         /\ \A b \in 1..NumBatches :
              /\ agg[b] \in AggRecord /\ agg[b].active \in SUBSET Nat
              /\ agg[b].done \in SUBSET Nat /\ agg[b].at \in Nat /\ agg[b].sub \in Nat
              /\ agg[b].acc \in [Nodes -> Seq(Resp)]
              /\ agg[b].pc \in {"none", "running", "returned", "raised"}
<1>1. DOMAIN calls = 1..Len(calls) /\ Len(calls) \in Nat
  BY LenProperties DEF TypeInv
<1>2. \A k \in DOMAIN calls : calls[k] \in CallRecord
  BY <1>1, ElementOfSeq DEF TypeInv
<1>3. \A b \in 1..NumBatches : agg[b] \in AggRecord
  BY DEF TypeInv
<1>4. \A k \in DOMAIN calls : calls[k].state \in States /\ calls[k].batch \in 1..NumBatches
  BY <1>2, CallFields
<1>5. ASSUME NEW b \in 1..NumBatches
      PROVE  /\ agg[b].active \in SUBSET Nat
             /\ agg[b].done \in SUBSET Nat /\ agg[b].at \in Nat /\ agg[b].sub \in Nat
             /\ agg[b].acc \in [Nodes -> Seq(Resp)]
             /\ agg[b].pc \in {"none", "running", "returned", "raised"}
  BY <1>3 DEF AggRecord
<1> QED
  BY <1>1, <1>2, <1>3, <1>4, <1>5

\* k becomes v, and no other call changes.
LEMMA Replaced ==
  ASSUME TypeInv, NEW k \in DOMAIN calls, NEW v \in CallRecord, calls' = [calls EXCEPT ![k] = v]
  PROVE  /\ calls' \in Seq(CallRecord) /\ DOMAIN calls' = DOMAIN calls /\ calls'[k] = v
         /\ \A j \in DOMAIN calls : j # k => calls'[j] = calls[j]
<1>1. k \in 1..Len(calls) /\ calls \in Seq(CallRecord)
  BY Parts DEF TypeInv
<1>2. calls' \in Seq(CallRecord)
  BY <1>1, ExceptSeq
<1> QED
  BY <1>2

\* A call under way whose batch has not raised is waited for.
LEMMA UnderWay ==
  ASSUME IInv, NEW k \in DOMAIN calls, calls[k].state \in {"queued", "connect", "recv"},
         NEW b \in 1..NumBatches, agg[b].pc \in {"running", "returned"}, calls[k].batch = b
  PROVE  agg[b].pc = "running" /\ k \in Waiting(b) /\ k \notin agg[b].done
<1>1. AggInv(b)
  BY DEF IInv
<1>2. k \in Waiting(b) /\ k \notin agg[b].done
  BY <1>1 DEF AggInv, Finished
<1>3. agg[b].pc = "running"
  BY <1>1, <1>2 DEF AggInv
<1> QED
  BY <1>2, <1>3

\* A call's progress leaves what its aggregator relies on.
LEMMA ProgressAgg ==
  ASSUME IInv, NEW k \in DOMAIN calls, NEW v, Moves(calls[k], v),
         calls' = [calls EXCEPT ![k] = v], args' = args, agg' = agg, NEW b \in 1..NumBatches
  PROVE  AggInv(b)'
<1>1. /\ DOMAIN calls' = DOMAIN calls /\ calls'[k] = v
      /\ \A j \in DOMAIN calls : j # k => calls'[j] = calls[j]
  BY Replaced DEF Moves, IInv
<1>2. /\ \A j \in DOMAIN calls : /\ calls'[j].batch = calls[j].batch
                                /\ calls'[j].slot = calls[j].slot
                                /\ calls'[j].requests = calls[j].requests
      /\ calls[k].state \in {"queued", "connect", "recv"}
  BY <1>1 DEF Moves
<1>3. Waiting(b)' = Waiting(b) /\ AggInv(b)
  BY DEF Waiting, IInv
<1>4. \A j \in agg[b].done : Finished(j)'
  <2> SUFFICES ASSUME NEW j \in agg[b].done PROVE Finished(j)'
    OBVIOUS
  <2>1. j \in DOMAIN calls /\ Finished(j)
    BY <1>3 DEF AggInv, Waiting
  <2>2. j # k
    BY <1>2, <2>1 DEF Finished
  <2> QED
    BY <1>1, <2>1, <2>2 DEF Finished
<1>5. agg[b].pc \in {"running", "returned"} =>
        \A j \in DOMAIN calls : calls[j].batch = b => j \in Waiting(b) \/ calls'[j].state = "done"
  <2> SUFFICES ASSUME agg[b].pc \in {"running", "returned"},
                      NEW j \in DOMAIN calls, calls[j].batch = b, j \notin Waiting(b)
               PROVE  calls'[j].state = "done"
    OBVIOUS
  <2>1. j # k /\ calls[j].state = "done"
    BY <1>2, <1>3, UnderWay DEF AggInv
  <2> QED
    BY <1>1, <2>1
<1> QED
  BY <1>1, <1>2, <1>3, <1>4, <1>5 DEF AggInv

\* And what was taken.
LEMMA ProgressContent ==
  ASSUME IInv, NEW k \in DOMAIN calls, NEW v, Moves(calls[k], v),
         calls' = [calls EXCEPT ![k] = v], args' = args, agg' = agg, NEW b \in 1..NumBatches,
         agg[b].pc \in {"running", "returned"}, ~Overwritten(b)'
  PROVE  ContentInv(b)'
<1>1. /\ DOMAIN calls' = DOMAIN calls /\ calls'[k] = v
      /\ \A j \in DOMAIN calls : j # k => calls'[j] = calls[j]
  BY Replaced DEF Moves, IInv
<1>2. /\ \A j \in DOMAIN calls : /\ calls'[j].batch = calls[j].batch
                                /\ calls'[j].slot = calls[j].slot
                                /\ calls'[j].requests = calls[j].requests
      /\ \A j \in DOMAIN calls : calls[j].slot # 0 => calls'[j].node = calls[j].node
      /\ calls[k].state \in {"queued", "connect", "recv"}
  BY <1>1 DEF Moves
<1>3. Waiting(b)' = Waiting(b) /\ AggInv(b) /\ Waiting(b) \subseteq DOMAIN calls
  BY DEF Waiting, IInv, AggInv
<1>4. ~Overwritten(b)
  <2> SUFFICES ASSUME Overwritten(b) PROVE FALSE
    OBVIOUS
  <2>1. PICK i, j \in DOMAIN calls :
          /\ i # j /\ calls[i].batch = b /\ calls[j].batch = b
          /\ calls[i].slot = 0 /\ calls[j].slot = 0
          /\ calls[i].state = "done" /\ calls[j].state = "done" /\ calls[i].node = calls[j].node
    BY DEF Overwritten
  <2>2. i # k /\ j # k
    BY <1>2, <2>1
  <2> QED
    BY <1>1, <2>1, <2>2 DEF Overwritten
<1>5. ContentInv(b)
  BY <1>4 DEF IInv
<1>6. \A j : Taken(b, j)' <=> Taken(b, j)
  <2> TAKE j
  <2>1. j \in DOMAIN calls \ Waiting(b) <=> j \in DOMAIN calls' \ Waiting(b)'
    BY <1>1, <1>3
  <2>2. CASE j \in DOMAIN calls
    BY <1>2, <2>1, <2>2 DEF Taken
  <2>3. CASE j \notin DOMAIN calls
    BY <2>1, <2>3 DEF Taken
  <2> QED
    BY <2>2, <2>3
<1>7. \A j : Taken(b, j) => calls'[j] = calls[j]
  <2> SUFFICES ASSUME NEW j, Taken(b, j) PROVE calls'[j] = calls[j]
    OBVIOUS
  <2>1. j \in DOMAIN calls /\ calls[j].state = "done"
    BY <1>3 DEF Taken, AggInv
  <2> QED
    BY <1>1, <1>2, <2>1
<1>8. \A j, i : LookedAt(b, j, i)' <=> LookedAt(b, j, i)
  BY <1>6, <1>7 DEF LookedAt
<1>9. \A j, n, i : i # 0 => (Follows(b, j, n, i)' <=> Follows(b, j, n, i))
  <2> SUFFICES ASSUME NEW j, NEW n, NEW i, i # 0
               PROVE  Follows(b, j, n, i)' <=> Follows(b, j, n, i)
    OBVIOUS
  <2>1. CASE j \in Waiting(b)
    <3>1. j \in DOMAIN calls
      BY <1>3, <2>1
    <3> QED
      BY <1>2, <1>3, <2>1, <3>1 DEF Follows
  <2>2. CASE j \notin Waiting(b)
    BY <1>3, <2>2 DEF Follows
  <2> QED
    BY <2>1, <2>2
<1>10. ASSUME NEW j \in DOMAIN calls, Taken(b, j)
       PROVE  /\ DOMAIN agg[b].acc[calls'[j].node] = DOMAIN calls'[j].requests
              /\ \A i \in DOMAIN calls'[j].requests :
                   IF LookedAt(b, j, i)' THEN Complete(b, j, i)'
                   ELSE agg[b].acc[calls'[j].node][i] = calls'[j].got[i]
  <2>1. calls'[j] = calls[j]
    BY <1>7, <1>10
  <2>2. /\ DOMAIN agg[b].acc[calls[j].node] = DOMAIN calls[j].requests
        /\ \A i \in DOMAIN calls[j].requests :
             IF LookedAt(b, j, i) THEN Complete(b, j, i)
             ELSE agg[b].acc[calls[j].node][i] = calls[j].got[i]
    BY <1>5, <1>10 DEF ContentInv
  <2>3. \A i \in DOMAIN calls[j].requests : i # 0
    <3>1. calls[j].requests \in Seq(Req)
      BY Parts, CallFields DEF IInv
    <3> QED
      BY <3>1, LenProperties
  <2>4. \A i \in DOMAIN calls[j].requests : Complete(b, j, i) => Complete(b, j, i)'
    BY <1>3, <1>9, <2>1, <2>3 DEF Complete
  <2> QED
    BY <1>8, <2>1, <2>2, <2>4
<1>11. ASSUME NEW j \in Waiting(b)', calls'[j].slot # 0
       PROVE  /\ \E h \in DOMAIN calls' :
                   /\ calls'[h].node = calls'[j].node /\ LookedAt(b, h, calls[j].slot)'
                   /\ calls'[j].requests =
                        <<[query |-> calls'[h].requests[calls'[j].slot].query,
                           from |-> agg'[b].acc[calls'[j].node][calls'[j].slot].max_id + 1]>>
              /\ \A h \in Waiting(b)' : Follows(b, h, calls[j].node, calls[j].slot)' => h = j
  <2>0. j \in Waiting(b) /\ j \in DOMAIN calls
    BY <1>3, <1>11
  <2>1. /\ calls'[j].slot = calls[j].slot /\ calls'[j].node = calls[j].node
        /\ calls'[j].requests = calls[j].requests /\ calls[j].slot # 0
    BY <1>2, <1>11, <2>0
  <2>2. PICK h \in DOMAIN calls :
          /\ calls[h].node = calls[j].node /\ LookedAt(b, h, calls[j].slot)
          /\ calls[j].requests = <<[query |-> calls[h].requests[calls[j].slot].query,
                                    from |-> agg[b].acc[calls[j].node][calls[j].slot].max_id + 1]>>
    BY <1>5, <2>0, <2>1 DEF ContentInv
  <2>3. calls'[h] = calls[h] /\ h \in DOMAIN calls'
    BY <1>1, <1>7, <2>2 DEF LookedAt
  <2>4. \A g \in Waiting(b) : Follows(b, g, calls[j].node, calls[j].slot) => g = j
    BY <1>5, <2>0, <2>1 DEF ContentInv
  <2>5. LookedAt(b, h, calls[j].slot)'
    BY <1>8, <2>1, <2>2
  <2>6. \A g \in Waiting(b)' : Follows(b, g, calls[j].node, calls[j].slot)' => g = j
    BY <1>3, <1>9, <2>1, <2>4
  <2> QED
    BY <2>1, <2>2, <2>3, <2>5, <2>6
<1> QED
  <2>1. \A j \in DOMAIN calls' : Taken(b, j)' =>
          /\ DOMAIN agg'[b].acc[calls'[j].node] = DOMAIN calls'[j].requests
          /\ \A i \in DOMAIN calls'[j].requests :
               IF LookedAt(b, j, i)' THEN Complete(b, j, i)'
               ELSE agg'[b].acc[calls'[j].node][i] = calls'[j].got[i]
    BY <1>1, <1>6, <1>10
  <2> QED
    BY <1>11, <2>1 DEF ContentInv

\* A step that changes neither the calls of a batch nor its aggregator leaves
\* it as it was.
SameBatch(b) ==
  /\ agg'[b] = agg[b] /\ DOMAIN calls \subseteq DOMAIN calls'
  /\ \A j \in DOMAIN calls : calls'[j].batch = calls[j].batch
  /\ \A j \in DOMAIN calls : calls[j].batch = b => calls'[j] = calls[j]
  /\ \A j \in DOMAIN calls' \ DOMAIN calls : calls'[j].batch # b

\* Such a step keeps what is said of the batch.
LEMMA Elsewhere ==
  ASSUME IInv, NEW b \in 1..NumBatches, SameBatch(b)
  PROVE  AggInv(b)' /\ (agg'[b].pc \in {"running", "returned"} /\ ~Overwritten(b)' => ContentInv(b)')
<1>1. /\ AggInv(b) /\ Waiting(b)' = Waiting(b)
      /\ \A j \in Waiting(b) : j \in DOMAIN calls /\ calls[j].batch = b /\ calls'[j] = calls[j]
  BY DEF IInv, AggInv, Waiting, SameBatch
<1>2. \A j \in DOMAIN calls' : calls'[j].batch = b =>
        j \in DOMAIN calls /\ calls[j].batch = b /\ calls'[j] = calls[j]
  BY DEF SameBatch
<1>3. \A j \in DOMAIN calls : calls[j].batch = b =>
        j \in DOMAIN calls' /\ calls'[j].batch = b /\ calls'[j] = calls[j]
  BY DEF SameBatch
<1>4. AggInv(b)'
  <2>1. \A k \in agg[b].done : Finished(k)'
    BY <1>1 DEF AggInv, Finished, Waiting
  <2>2. agg'[b].at # 0 =>
          /\ agg'[b].at \in DOMAIN calls' \ Waiting(b)'
          /\ calls'[agg'[b].at].batch = b /\ calls'[agg'[b].at].slot = 0
          /\ agg'[b].sub \in DOMAIN calls'[agg'[b].at].requests
    BY <1>1, <1>3 DEF AggInv, SameBatch
  <2>3. \A k \in Waiting(b)' : k \in DOMAIN calls' /\ calls'[k].batch = b
    BY <1>1, <1>3
  <2>4. agg'[b].pc = "none" => \A k \in DOMAIN calls' : calls'[k].batch # b
    BY <1>1, <1>2 DEF AggInv, SameBatch
  <2>5. agg'[b].pc \in {"running", "returned"} =>
          \A k \in DOMAIN calls' : calls'[k].batch = b => k \in Waiting(b)' \/ calls'[k].state = "done"
    BY <1>1, <1>2 DEF AggInv, SameBatch
  <2>6. agg'[b] = agg[b]
    BY DEF SameBatch
  <2> QED
    BY <1>1, <2>1, <2>2, <2>3, <2>4, <2>5, <2>6 DEF AggInv
<1>5. ASSUME agg'[b].pc \in {"running", "returned"}, ~Overwritten(b)'
      PROVE  ContentInv(b)'
  <2>1. agg'[b] = agg[b]
    BY DEF SameBatch
  <2>2. ~Overwritten(b)
    BY <1>3, <1>5 DEF Overwritten
  <2>3. ContentInv(b)
    BY <1>5, <2>1, <2>2 DEF IInv
  <2>4. \A j : Taken(b, j)' <=> Taken(b, j)
    <3> TAKE j
    <3>1. CASE Taken(b, j)
      BY <1>1, <1>3, <3>1 DEF Taken
    <3>2. CASE Taken(b, j)'
      BY <1>1, <1>2, <3>2 DEF Taken
    <3> QED
      BY <3>1, <3>2 DEF Taken
  <2>5. \A j : Taken(b, j) => calls'[j] = calls[j] /\ j \in DOMAIN calls /\ j \in DOMAIN calls'
    BY <1>3 DEF Taken
  <2>6. \A j, i : LookedAt(b, j, i)' <=> LookedAt(b, j, i)
    BY <2>1, <2>4, <2>5 DEF LookedAt
  <2>7. \A j, n, i : Follows(b, j, n, i)' <=> Follows(b, j, n, i)
    BY <1>1 DEF Follows
  <2>8. \A j : Taken(b, j) => \A i : Complete(b, j, i)' <=> Complete(b, j, i)
    <3> SUFFICES ASSUME NEW j, Taken(b, j), NEW i PROVE Complete(b, j, i)' <=> Complete(b, j, i)
      OBVIOUS
    <3>1. calls'[j] = calls[j]
      BY <2>5
    <3> QED
      BY <1>1, <2>1, <2>7, <3>1 DEF Complete
  <2>9. ASSUME NEW j \in DOMAIN calls', Taken(b, j)'
        PROVE  /\ DOMAIN agg'[b].acc[calls'[j].node] = DOMAIN calls'[j].requests
               /\ \A i \in DOMAIN calls'[j].requests :
                    IF LookedAt(b, j, i)' THEN Complete(b, j, i)'
                    ELSE agg'[b].acc[calls'[j].node][i] = calls'[j].got[i]
    <3>1. Taken(b, j) /\ calls'[j] = calls[j] /\ j \in DOMAIN calls
      BY <2>4, <2>5, <2>9
    <3>2. /\ DOMAIN agg[b].acc[calls[j].node] = DOMAIN calls[j].requests
          /\ \A i \in DOMAIN calls[j].requests :
               IF LookedAt(b, j, i) THEN Complete(b, j, i)
               ELSE agg[b].acc[calls[j].node][i] = calls[j].got[i]
      BY <2>3, <3>1 DEF ContentInv
    <3>3. \A i : Complete(b, j, i)' <=> Complete(b, j, i)
      BY <2>8, <3>1
    <3> QED
      BY <2>1, <2>6, <3>1, <3>2, <3>3
  <2>10. ASSUME NEW j \in Waiting(b), calls[j].slot # 0
         PROVE  /\ \E h \in DOMAIN calls' :
                     /\ calls'[h].node = calls'[j].node /\ LookedAt(b, h, calls[j].slot)'
                     /\ calls'[j].requests =
                          <<[query |-> calls'[h].requests[calls'[j].slot].query,
                             from |-> agg'[b].acc[calls'[j].node][calls'[j].slot].max_id + 1]>>
                /\ \A h \in Waiting(b)' : Follows(b, h, calls[j].node, calls[j].slot)' => h = j
    <3>1. calls'[j] = calls[j]
      BY <1>1
    <3>2. PICK h \in DOMAIN calls :
            /\ calls[h].node = calls[j].node /\ LookedAt(b, h, calls[j].slot)
            /\ calls[j].requests = <<[query |-> calls[h].requests[calls[j].slot].query,
                                      from |-> agg[b].acc[calls[j].node][calls[j].slot].max_id + 1]>>
      BY <2>3, <2>10 DEF ContentInv
    <3>3. calls'[h] = calls[h] /\ h \in DOMAIN calls'
      BY <2>5, <3>2 DEF LookedAt
    <3>4. \A g \in Waiting(b) : Follows(b, g, calls[j].node, calls[j].slot) => g = j
      BY <2>3, <2>10 DEF ContentInv
    <3>5. LookedAt(b, h, calls[j].slot)'
      BY <2>6, <3>1, <3>2
    <3>6. \A g \in Waiting(b)' : Follows(b, g, calls[j].node, calls[j].slot)' => g = j
      BY <1>1, <2>7, <3>1, <3>4
    <3> QED
      BY <2>1, <3>1, <3>2, <3>3, <3>5, <3>6
  <2>11. \A j \in Waiting(b)' : calls'[j].slot # 0 => j \in Waiting(b) /\ calls[j].slot # 0
    BY <1>1
  <2> QED
    BY <2>9, <2>10, <2>11 DEF ContentInv
<1> QED
  BY <1>4, <1>5

\* Once every batch has ended, a call that is not done is one of a batch that raised.
LEMMA EndedQuiet ==
  ASSUME IInv, \A b \in 1..NumBatches : Ended(b), NEW k \in DOMAIN calls, calls[k].state # "done"
  PROVE  agg[calls[k].batch].pc = "raised"
<1> DEFINE b == calls[k].batch
<1>1. b \in 1..NumBatches /\ AggInv(b) /\ Ended(b)
  BY Parts DEF IInv
<1>2. CASE agg[b].pc = "returned"
  <2>1. Waiting(b) = {}
    BY <1>1, <1>2 DEF AggInv
  <2> QED
    BY <1>1, <1>2, <2>1 DEF AggInv
<1> QED
  BY <1>1, <1>2 DEF Ended

\* When the main thread has ended, so has every batch.
LEMMA AllEnded ==
  ASSUME IInv, main.pc = "ended"
  PROVE  \A b \in 1..NumBatches : Ended(b)
<1> TAKE b \in 1..NumBatches
<1>1. main.futures = {} /\ main.batch > NumBatches /\ main.batch \in Nat
  BY DEF IInv, MainInv, TypeInv
<1>2. NumBatches \in Int
  BY BatchConstants DEF IInv, TypeInv, NumBatches
<1>3. ~(b >= main.batch)
  BY <1>1, <1>2
<1> QED
  BY <1>1, <1>3, Parts DEF IInv, MainInv, Ended

\* The calls that outlived their batches are finitely many.
LEMMA FewOutlived ==
  ASSUME TypeInv
  PROVE  IsFiniteSet(Outlived) /\ Cardinality(Outlived) \in Nat
<1>1. Outlived \subseteq 1..Len(calls) /\ Len(calls) \in Nat
  BY Parts DEF Outlived
<1>2. IsFiniteSet(1..Len(calls))
  BY <1>1, FS_Interval
<1> QED
  BY <1>1, <1>2, FS_Subset, FS_CardinalityType

\* No pool is larger after a step, but one by a socket if a call is done.
Returns(v) ==
  \A n \in Nodes :
    \/ Len(pool'[n]) <= Len(pool[n])
    \/ v.state = "done" /\ Len(pool'[n]) <= Len(pool[n]) + 1

\* A step that leaves the pool alone.
LEMMA SamePool ==
  ASSUME TypeInv, pool' = pool, NEW v
  PROVE  Returns(v)
<1> SUFFICES ASSUME NEW n \in Nodes PROVE Len(pool'[n]) <= Len(pool[n])
  BY DEF Returns
<1>1. Len(pool[n]) \in Nat
  BY LenProperties DEF TypeInv
<1> QED
  BY <1>1

\* A call that goes on after disconnect leaves at most its own socket behind.
LEMMA ProgressCloses ==
  ASSUME IInv, NEW k \in DOMAIN calls, NEW v, Moves(calls[k], v),
         DOMAIN calls' = DOMAIN calls, calls'[k] = v,
         \A j \in DOMAIN calls : j # k => calls'[j] = calls[j],
         main' = main, agg' = agg, pool' \in [Nodes -> Seq(Sock)], Returns(v)
  PROVE  ClosedAtEnd'
<1> SUFFICES ASSUME main.pc = "ended"
             PROVE  /\ \A j \in Running' : agg'[calls'[j].batch].pc = "raised"
                    /\ \A n \in Nodes : Len(pool'[n]) <= Cardinality(Outlived')
  BY DEF ClosedAtEnd
<1>1. /\ calls[k].state \in {"queued", "connect", "recv"} /\ v.batch = calls[k].batch
      /\ agg[calls[k].batch].pc = "raised"
  BY AllEnded, EndedQuiet DEF Moves
<1>2. \A j \in Running' : agg'[calls'[j].batch].pc = "raised"
  <2> TAKE j \in Running'
  <2>1. CASE j = k
    BY <1>1, <2>1
  <2>2. CASE j # k
    BY <2>2 DEF Running, IInv, ClosedAtEnd
  <2> QED
    BY <2>1, <2>2
<1>3. /\ IsFiniteSet(Outlived) /\ Cardinality(Outlived) \in Nat /\ k \notin Outlived
      /\ Outlived' = IF v.state = "done" THEN Outlived \cup {k} ELSE Outlived
  BY <1>1, FewOutlived DEF IInv, Outlived
<1>4. /\ v.state = "done" => Cardinality(Outlived') = Cardinality(Outlived) + 1
      /\ v.state # "done" => Cardinality(Outlived') = Cardinality(Outlived)
  BY <1>3, FS_AddElement
<1>5. \A n \in Nodes : Len(pool'[n]) <= Cardinality(Outlived')
  <2> TAKE n \in Nodes
  <2>1. Len(pool[n]) \in Nat /\ Len(pool'[n]) \in Nat
    BY LenProperties DEF IInv, TypeInv
  <2>2. Len(pool[n]) <= Cardinality(Outlived)
    BY DEF IInv, ClosedAtEnd
  <2> QED
    BY <1>3, <1>4, <2>1, <2>2 DEF Returns
<1> QED
  BY <1>2, <1>5

\* A call's progress keeps the invariant, whatever becomes of its socket.
LEMMA ProgressKeeps ==
  ASSUME IInv, NEW k \in DOMAIN calls, NEW v, Moves(calls[k], v),
         calls' = [calls EXCEPT ![k] = v],
         args' = args, registry' = registry, index' = index, main' = main, agg' = agg,
         pool' \in [Nodes -> Seq(Sock)], PoolClean', Returns(v), faults' \in Nat
  PROVE  IInv'
<1>1. /\ calls' \in Seq(CallRecord) /\ DOMAIN calls' = DOMAIN calls /\ calls'[k] = v
      /\ \A j \in DOMAIN calls : j # k => calls'[j] = calls[j]
  BY Replaced DEF Moves, IInv
<1>2. NumBatches' = NumBatches /\ CallRecord' = CallRecord
  BY SameBatches
<1>3. TypeInv'
  BY <1>1, <1>2 DEF IInv, TypeInv
<1>4. CallsSound'
  BY <1>1 DEF IInv, CallsSound, Moves
<1>5. MainInv'
  BY <1>2 DEF IInv, MainInv
<1>6. ClosedAtEnd'
  BY <1>1, ProgressCloses
<1>7. ASSUME NEW b \in 1..NumBatches
      PROVE  /\ AggInv(b)'
             /\ agg[b].pc \in {"running", "returned"} /\ ~Overwritten(b)' => ContentInv(b)'
  BY ProgressAgg, ProgressContent
<1> QED
  BY <1>2, <1>3, <1>4, <1>5, <1>6, <1>7 DEF IInv

\* A thread takes a call.
LEMMA StartKeeps ==
  ASSUME IInv, NEW k \in DOMAIN calls, Start(k)
  PROVE  IInv'
<1> DEFINE q == Preferred(calls[k].node)
           v == [calls[k] EXCEPT !.state = "connect", !.nodes = q]
<1>1. calls[k] \in CallRecord /\ Sound(calls[k]) /\ calls[k].state = "queued"
  BY Parts DEF IInv, CallsSound, Start
<1>2. q \in Seq(Nodes) /\ q # <<>>
  BY <1>1, CallFields, PreferredNodes DEF IInv
<1> HIDE DEF q
<1>3. Moves(calls[k], v)
  BY <1>1, <1>2, StartedSound
<1>4. calls' = [calls EXCEPT ![k] = v]
  BY <1>1 DEF Start, q, CallRecord
<1> HIDE DEF v
<1>5. /\ args' = args /\ registry' = registry /\ index' = index /\ main' = main
      /\ agg' = agg /\ pool' = pool /\ faults' = faults
  BY DEF Start
<1>6. pool' \in [Nodes -> Seq(Sock)] /\ PoolClean' /\ Returns(v) /\ faults' \in Nat
  BY <1>5, SamePool DEF IInv, TypeInv, PoolClean
<1> QED
  BY <1>3, <1>4, <1>5, <1>6, ProgressKeeps

\* An attempt fails: its socket is closed, the next node is tried.
LEMMA CallFailsKeeps ==
  ASSUME IInv, NEW k \in DOMAIN calls, CallFails(k)
  PROVE  IInv'
<1> DEFINE v == Failed(calls[k])
<1>1. calls[k] \in CallRecord /\ Sound(calls[k]) /\ calls[k].state \in {"connect", "recv"}
  BY Parts DEF IInv, CallsSound, CallFails, Running
<1>2. Moves(calls[k], v)
  BY <1>1, FailedSound
<1>3. calls' = [calls EXCEPT ![k] = v]
  BY DEF CallFails
<1> HIDE DEF v
<1>4. /\ args' = args /\ registry' = registry /\ index' = index /\ main' = main
      /\ agg' = agg /\ pool' = pool
  BY DEF CallFails
<1>5. pool' \in [Nodes -> Seq(Sock)] /\ PoolClean' /\ Returns(v)
  BY <1>4, SamePool DEF IInv, TypeInv, PoolClean
<1>6. faults' \in Nat
  BY DEF CallFails, IInv, TypeInv
<1> QED
  BY <1>2, <1>3, <1>4, <1>5, <1>6, ProgressKeeps

\* The requests are sent, over an idle socket or a new one.
LEMMA ConnectKeeps ==
  ASSUME IInv, NEW k \in DOMAIN calls, Connect(k)
  PROVE  IInv'
<1> DEFINE n == Head(calls[k].nodes)
           r == ToSet(calls[k].requests)
<1>1. /\ calls[k] \in CallRecord /\ Sound(calls[k]) /\ calls[k].state = "connect"
      /\ pool \in [Nodes -> Seq(Sock)]
  BY Parts DEF IInv, CallsSound, Connect, TypeInv
<1>2. n \in Nodes /\ r \in SUBSET Req
  <2>1. calls[k].nodes \in Seq(Nodes) /\ calls[k].nodes # <<>>
    BY <1>1, CallFields DEF Sound
  <2>2. calls[k].requests \in Seq(Req)
    BY <1>1, CallFields
  <2> QED
    BY <1>1, <2>1, <2>2, HeadTailProperties, Elements DEF Sound
<1> HIDE DEF n
<1>3. PICK i \in 1..(Len(pool[n]) + 1) :
        /\ pool' = [pool EXCEPT ![n] = SubSeq(@, i + 1, Len(@))]
        /\ LET sock == IF i <= Len(pool[n]) THEN pool[n][i] ELSE Fresh
           IN  calls' = [calls EXCEPT ![k].state = "recv",
                           ![k].sock = [sock EXCEPT !.owed = sock.owed \cup r]]
  BY DEF Connect, n
<1> DEFINE sock == IF i <= Len(pool[n]) THEN pool[n][i] ELSE Fresh
           s == [sock EXCEPT !.owed = sock.owed \cup r]
           v == [calls[k] EXCEPT !.state = "recv", !.sock = s]
           q == pool[n]
<1>4. q \in Seq(Sock) /\ Len(q) \in Nat /\ DOMAIN q = 1..Len(q)
  BY <1>1, <1>2, LenProperties
<1>5. sock \in Sock /\ sock.owed = {}
  <2>1. CASE i <= Len(q)
    BY <1>2, <1>4, <2>1, ElementOfSeq DEF IInv, PoolClean
  <2>2. CASE ~(i <= Len(q))
    BY <2>2 DEF Fresh, Sock
  <2> QED
    BY <2>1, <2>2
<1>6. calls' = [calls EXCEPT ![k] = v]
  BY <1>1, <1>3 DEF CallRecord
<1> HIDE DEF sock, r
<1>7. s \in Sock /\ s.owed = r
  BY <1>2, <1>5 DEF Sock
<1> HIDE DEF s
<1>8. Moves(calls[k], v)
  BY <1>1, <1>7, ConnectedSound DEF r
<1> HIDE DEF v
<1>9. pool' \in [Nodes -> Seq(Sock)] /\ PoolClean' /\ Returns(v)
  <2> DEFINE t == SubSeq(q, i + 1, Len(q))
  <2>1. pool' = [pool EXCEPT ![n] = t]
    BY <1>1, <1>2, <1>3
  <2>2. t \in Seq(Sock) /\ Len(t) <= Len(q) /\ \A j \in DOMAIN t : t[j].owed = {}
    <3>1. i + 1 \in Int /\ i + 1 >= 1
      BY <1>4
    <3>2. CASE i < Len(q)
      <4>1. i + 1 \in 1..Len(q) /\ Len(q) \in 1..Len(q)
        BY <1>4, <3>2
      <4>2. /\ t \in Seq(Sock) /\ Len(t) = Len(q) - i
            /\ \A j \in 1..(Len(q) - i) : t[j] = q[i + j] /\ i + j \in 1..Len(q)
        <5>1. /\ t \in Seq(Sock) /\ Len(t) = IF i + 1 <= Len(q) THEN Len(q) - (i + 1) + 1 ELSE 0
              /\ \A j \in 1..(Len(q) - (i + 1) + 1) : t[j] = q[i + 1 + j - 1]
          BY <1>4, <4>1, SubSeqProperties
        <5> HIDE DEF t
        <5> QED
          BY <1>4, <3>2, <5>1
      <4>3. DOMAIN t = 1..(Len(q) - i)
        BY <4>2, LenProperties
      <4> QED
        BY <1>2, <1>4, <4>2, <4>3 DEF IInv, PoolClean
    <3>3. CASE ~(i < Len(q))
      <4>1. t = <<>>
        BY <1>4, <3>1, <3>3, SubSeqEmpty
      <4>2. <<>> \in Seq(Sock) /\ DOMAIN <<>> = 1..0 /\ Len(<<>>) = 0
        BY EmptySeq, LenProperties
      <4> HIDE DEF t
      <4> QED
        BY <1>4, <4>1, <4>2
    <3> QED
      BY <3>2, <3>3
  <2> HIDE DEF t
  <2>3. pool' \in [Nodes -> Seq(Sock)] /\ PoolClean'
    BY <1>1, <1>2, <2>1, <2>2 DEF PoolClean, IInv
  <2>4. \A m \in Nodes : Len(pool'[m]) <= Len(pool[m])
    <3> TAKE m \in Nodes
    <3>1. Len(pool[m]) \in Nat
      BY <1>1, LenProperties
    <3> QED
      BY <1>1, <2>1, <2>2, <3>1
  <2> QED
    BY <2>3, <2>4 DEF Returns
<1>10. /\ args' = args /\ registry' = registry /\ index' = index /\ main' = main
       /\ agg' = agg /\ faults' = faults
  BY DEF Connect
<1>11. faults' \in Nat
  BY <1>10 DEF IInv, TypeInv
<1> QED
  BY <1>6, <1>8, <1>9, <1>10, <1>11, ProgressKeeps

\* An answer arrives; the last one puts the socket, now clean, into the pool.
LEMMA ReceiveKeeps ==
  ASSUME IInv, NEW k \in DOMAIN calls, NEW r \in calls[k].sock.owed,
         NEW p \in Pages(r) \cup {Saturated(r)}, Receive(k, r, p)
  PROVE  IInv'
<1> DEFINE call == calls[k]
           n == Head(call.nodes)
           s == [call.sock EXCEPT !.owed = call.sock.owed \ {r}]
           g == Append(call.got, p)
<1>1. /\ call \in CallRecord /\ Sound(call) /\ call.state = "recv"
      /\ pool \in [Nodes -> Seq(Sock)] /\ Answers(p, r)
  BY Parts DEF IInv, CallsSound, Receive, TypeInv, Answers
<1>2. n \in Nodes /\ call.sock \in Sock
  <2>1. call.nodes \in Seq(Nodes) /\ call.nodes # <<>> /\ call.sock \in Sock
    BY <1>1, CallFields DEF Sound
  <2> QED
    BY <2>1, HeadTailProperties
<1>3. s \in Sock /\ s.owed = call.sock.owed \ {r}
  BY <1>2 DEF Sock
<1>4. /\ args' = args /\ registry' = registry /\ index' = index /\ main' = main
      /\ agg' = agg
  BY DEF Receive
<1>5. faults' \in Nat
  BY DEF Receive, IInv, TypeInv
<1>6. r \in ToSet(call.requests)
  BY <1>1 DEF Sound
<1>7. CASE Len(g) < Len(call.requests)
  <2> DEFINE v == [call EXCEPT !.got = g, !.sock = s]
  <2>1. calls' = [calls EXCEPT ![k] = v] /\ pool' = pool
    BY <1>1, <1>6, <1>7 DEF Receive, CallRecord
  <2> HIDE DEF s
  <2>2. Moves(call, v)
    BY <1>1, <1>3, ReceivedSound
  <2> HIDE DEF v
  <2>3. pool' \in [Nodes -> Seq(Sock)] /\ PoolClean' /\ Returns(v)
    BY <2>1, SamePool DEF IInv, TypeInv, PoolClean
  <2> QED
    BY <1>4, <1>5, <2>1, <2>2, <2>3, ProgressKeeps
<1>8. CASE ~(Len(g) < Len(call.requests))
  <2> DEFINE m == IF call.slot = 0 THEN n ELSE call.node
             d == Ordered(call.requests, g)
             v == [call EXCEPT !.state = "done", !.sock = Fresh, !.nodes = <<>>, !.node = m, !.got = d]
  <2>1. m \in Nodes /\ (call.slot # 0 => m = call.node)
    BY <1>1, <1>2, CallFields
  <2>2. calls' = [calls EXCEPT ![k] = v] /\ pool' = [pool EXCEPT ![n] = Append(@, s)]
    BY <1>1, <1>6, <1>8 DEF Receive, CallRecord
  <2> HIDE DEF s, m
  <2>3. call.sock.owed \ {r} = {} /\ Moves(call, v)
    BY <1>1, <1>8, <2>1, ReceivedLast
  <2>5. v.state = "done"
    BY <1>1 DEF CallRecord
  <2> HIDE DEF v
  <2>4. pool' \in [Nodes -> Seq(Sock)] /\ PoolClean' /\ Returns(v)
    <3> DEFINE q == pool[n]
               t == Append(q, s)
    <3>1. /\ q \in Seq(Sock) /\ t \in Seq(Sock) /\ Len(t) = Len(q) + 1 /\ Len(q) \in Nat
          /\ t[Len(q) + 1] = s /\ \A i \in 1..Len(q) : t[i] = q[i]
      BY <1>1, <1>2, <1>3, AppendProperties, LenProperties
    <3>2. pool' = [pool EXCEPT ![n] = t]
      BY <1>1, <1>2, <2>2
    <3>3. DOMAIN t = 1..(Len(q) + 1) /\ DOMAIN q = 1..Len(q)
      BY <3>1, LenProperties
    <3> HIDE DEF t
    <3>4. \A i \in DOMAIN t : t[i].owed = {}
      <4> SUFFICES ASSUME NEW i \in 1..(Len(q) + 1) PROVE t[i].owed = {}
        BY <3>3
      <4>1. CASE i \in DOMAIN q
        <5>1. t[i] = q[i] /\ q[i].owed = {}
          BY <1>2, <3>1, <3>3, <4>1 DEF IInv, PoolClean
        <5> QED
          BY <5>1
      <4>2. CASE i \notin DOMAIN q
        <5>1. i = Len(q) + 1
          BY <3>1, <3>3, <4>2
        <5> HIDE DEF q
        <5> QED
          BY <1>3, <2>3, <3>1, <5>1
      <4> QED
        BY <4>1, <4>2
    <3>5. pool' \in [Nodes -> Seq(Sock)] /\ PoolClean'
      BY <1>1, <1>2, <3>1, <3>2, <3>4 DEF PoolClean, IInv
    <3>6. ASSUME NEW o \in Nodes
          PROVE  Len(pool'[o]) <= Len(pool[o]) + 1
      <4>1. Len(pool[o]) \in Nat
        BY <1>1, LenProperties
      <4> QED
        BY <1>1, <3>1, <3>2, <4>1
    <3> QED
      BY <2>5, <3>5, <3>6 DEF Returns
  <2> QED
    BY <1>4, <1>5, <2>2, <2>3, <2>4, ProgressKeeps
<1> QED
  BY <1>7, <1>8

\* A server closes an idle connection.
LEMMA ServerClosesKeeps ==
  ASSUME IInv, NEW n \in Nodes, NEW i \in DOMAIN pool[n], ServerCloses(n, i)
  PROVE  IInv'
<1> DEFINE q == pool[n]
           s == [q[i] EXCEPT !.eof = TRUE]
           t == [q EXCEPT ![i] = s]
<1>1. pool \in [Nodes -> Seq(Sock)] /\ q \in Seq(Sock) /\ i \in 1..Len(q) /\ DOMAIN q = 1..Len(q)
  BY LenProperties DEF IInv, TypeInv
<1>2. q[i] \in Sock /\ q[i].owed = {}
  BY <1>1, ElementOfSeq DEF IInv, PoolClean
<1>3. s \in Sock /\ s.owed = {}
  BY <1>2 DEF Sock
<1>4. pool' = [pool EXCEPT ![n] = t]
  BY <1>1 DEF ServerCloses
<1> HIDE DEF s
<1>5. /\ t \in Seq(Sock) /\ DOMAIN t = DOMAIN q
      /\ \A j \in DOMAIN q : t[j] = IF j = i THEN s ELSE q[j]
  BY <1>1, <1>3, ExceptSeq
<1> HIDE DEF t
<1>6. /\ args' = args /\ registry' = registry /\ index' = index /\ main' = main
      /\ agg' = agg /\ calls' = calls
  BY DEF ServerCloses
<1>7. pool' \in [Nodes -> Seq(Sock)] /\ PoolClean'
  BY <1>1, <1>3, <1>4, <1>5 DEF IInv, PoolClean
<1>8. faults' \in Nat
  BY DEF ServerCloses, IInv, TypeInv
<1>9. NumBatches' = NumBatches /\ CallRecord' = CallRecord
  BY <1>6, SameBatches
<1>10. TypeInv'
  BY <1>6, <1>7, <1>8, <1>9 DEF IInv, TypeInv
<1>11. ClosedAtEnd'
  <2>1. \A m \in Nodes : Len(pool'[m]) = Len(pool[m])
    <3>1. Len(t) = Len(q)
      BY <1>1, <1>5, LenProperties
    <3> QED
      BY <1>1, <1>4, <3>1
  <2>2. Running' = Running /\ Outlived' = Outlived
    BY <1>6 DEF Running, Outlived
  <2> QED
    BY <1>6, <2>1, <2>2 DEF IInv, ClosedAtEnd
<1>12. \A b : SameBatch(b)
  BY <1>6 DEF SameBatch
<1>13. MainInv'
  BY <1>6, <1>9 DEF IInv, MainInv
<1>14. CallsSound'
  BY <1>6 DEF IInv, CallsSound
<1> QED
  BY <1>7, <1>9, <1>10, <1>11, <1>12, <1>13, <1>14, Elsewhere DEF IInv

---------------------------------------------------------------------------
(* The steps of the main thread.                                           *)

\* The batches that have ended are forgotten.
LEMMA ThrottleKeeps ==
  ASSUME IInv, Throttle
  PROVE  IInv'
<1>1. /\ args' = args /\ registry' = registry /\ index' = index /\ agg' = agg /\ calls' = calls
      /\ pool' = pool /\ faults' = faults
  BY DEF Throttle, ioVars
<1>2. NumBatches' = NumBatches /\ CallRecord' = CallRecord
  BY <1>1, SameBatches
<1>3. /\ main'.futures = {b \in main.futures : ~Ended(b)} /\ main'.batch = main.batch
      /\ main'.pc = IF main.batch <= NumBatches THEN "read" ELSE "wait"
      /\ main.batch \in Nat \ {0} /\ main.futures \in SUBSET Nat
      /\ main' \in [pc : {"read", "throttle", "wait", "ended"}, batch : Nat \ {0}, futures : SUBSET Nat]
  <2>1. main \in [pc : {"read", "throttle", "wait", "ended"}, batch : Nat \ {0}, futures : SUBSET Nat]
    BY DEF IInv, TypeInv
  <2> DEFINE F == {b \in main.futures : ~Ended(b)}
             c == IF main.batch <= NumBatches THEN "read" ELSE "wait"
  <2>2. main' = [main EXCEPT !.futures = F, !.pc = c]
    BY <2>1 DEF Throttle
  <2>3. F \in SUBSET Nat /\ c \in {"read", "wait"}
    BY <2>1
  <2> HIDE DEF F, c
  <2>4. /\ main'.futures = F /\ main'.batch = main.batch /\ main'.pc = c
        /\ main' \in [pc : {"read", "throttle", "wait", "ended"}, batch : Nat \ {0}, futures : SUBSET Nat]
    BY <2>1, <2>2, <2>3
  <2> QED
    BY <2>1, <2>4 DEF F, c
<1>4. TypeInv'
  BY <1>1, <1>2, <1>3 DEF IInv, TypeInv
<1>5. MainInv'
  <2>1. \A b \in 1..NumBatches : agg[b].pc = "running" => b \in main'.futures
    BY <1>3 DEF IInv, MainInv, Ended
  <2>2. NumBatches \in Int
    BY BatchConstants DEF IInv, TypeInv, NumBatches
  <2>3. main'.pc = "read" => main'.batch <= NumBatches
    BY <1>3
  <2>4. main'.pc \in {"wait", "ended"} => main'.batch > NumBatches
    BY <1>3, <2>2
  <2> QED
    BY <1>1, <1>2, <1>3, <2>1, <2>3, <2>4 DEF IInv, MainInv
<1>6. ClosedAtEnd'
  BY <1>3 DEF ClosedAtEnd
<1>7. \A b : SameBatch(b)
  BY <1>1 DEF SameBatch
<1>8. PoolClean' /\ CallsSound'
  BY <1>1 DEF IInv, PoolClean, CallsSound
<1> QED
  BY <1>2, <1>4, <1>5, <1>6, <1>7, <1>8, Elsewhere DEF IInv

\* Every batch has ended: the idle sockets are closed.
LEMMA DisconnectKeeps ==
  ASSUME IInv, Disconnect
  PROVE  IInv'
<1>1. /\ args' = args /\ registry' = registry /\ index' = index /\ agg' = agg /\ calls' = calls
      /\ faults' = faults
  BY DEF Disconnect
<1>2. NumBatches' = NumBatches /\ CallRecord' = CallRecord
  BY <1>1, SameBatches
<1>3. /\ main'.futures = {} /\ main'.batch = main.batch /\ main'.pc = "ended" /\ main.pc = "wait"
      /\ main' \in [pc : {"read", "throttle", "wait", "ended"}, batch : Nat \ {0}, futures : SUBSET Nat]
  <2>1. main \in [pc : {"read", "throttle", "wait", "ended"}, batch : Nat \ {0}, futures : SUBSET Nat]
    BY DEF IInv, TypeInv
  <2> QED
    BY <2>1 DEF Disconnect
<1>4. pool' \in [Nodes -> Seq(Sock)] /\ PoolClean' /\ \A n \in Nodes : pool'[n] = <<>>
  <2>1. <<>> \in Seq(Sock) /\ DOMAIN <<>> = 1..0
    BY EmptySeq, LenProperties
  <2>2. pool' = [n \in Nodes |-> <<>>]
    BY DEF Disconnect
  <2> QED
    BY <2>1, <2>2 DEF PoolClean
<1>5. TypeInv'
  BY <1>1, <1>2, <1>3, <1>4 DEF IInv, TypeInv
<1>6. MainInv'
  <2>1. \A b \in 1..NumBatches : agg[b].pc # "running"
    BY DEF IInv, MainInv, Disconnect, Ended
  <2> QED
    BY <1>1, <1>2, <1>3, <2>1 DEF IInv, MainInv
<1>7. ClosedAtEnd'
  <2>1. \A b \in 1..NumBatches : Ended(b)
    <3> TAKE b \in 1..NumBatches
    <3>1. main.batch > NumBatches /\ main.batch \in Nat /\ NumBatches \in Int
      BY <1>3, BatchConstants DEF IInv, MainInv, TypeInv, NumBatches
    <3>2. agg[b].pc # "none"
      BY <3>1 DEF IInv, MainInv
    <3> QED
      BY <3>2, Parts DEF IInv, MainInv, Disconnect, Ended
  <2>2. \A k \in Running : agg[calls[k].batch].pc = "raised"
    BY <2>1, EndedQuiet DEF Running
  <2>3. Running' = Running /\ Outlived' = Outlived /\ Cardinality(Outlived) \in Nat
    BY <1>1, FewOutlived DEF IInv, Running, Outlived
  <2>4. \A n \in Nodes : Len(pool'[n]) = 0
    BY <1>4, EmptySeq
  <2> QED
    BY <1>1, <2>2, <2>3, <2>4 DEF ClosedAtEnd
<1>8. \A b : SameBatch(b)
  BY <1>1 DEF SameBatch
<1>9. CallsSound'
  BY <1>1 DEF IInv, CallsSound
<1> QED
  BY <1>2, <1>4, <1>5, <1>6, <1>7, <1>8, <1>9, Elsewhere DEF IInv

\* A submitted call.
LEMMA NewCallSound ==
  ASSUME NEW b \in 1..NumBatches, NEW slot \in Nat, NEW n \in Nodes, NEW q \in Seq(Req),
         q # <<>>, \A i, j \in DOMAIN q : q[i] = q[j] => i = j,
         slot = 0 => \A i \in DOMAIN q : q[i].from = 1, slot # 0 => Len(q) = 1
  PROVE  LET c == NewCall(b, slot, n, q)
         IN  /\ c \in CallRecord /\ Sound(c) /\ c.batch = b /\ c.slot = slot /\ c.node = n
             /\ c.requests = q /\ c.state = "queued"
<1> DEFINE c == NewCall(b, slot, n, q)
<1>1. <<>> \in Seq(Nodes) /\ <<>> \in Seq(Resp) /\ Fresh \in Sock
  BY EmptySeq DEF Fresh, Sock
<1>2. c = [batch |-> b, slot |-> slot, node |-> n, requests |-> q,
           state |-> "queued", nodes |-> <<>>, sock |-> Fresh, got |-> <<>>]
  BY DEF NewCall
<1> HIDE DEF c
<1>3. c \in CallRecord
  BY <1>1, <1>2 DEF CallRecord, States
<1>4. /\ c.batch = b /\ c.slot = slot /\ c.node = n /\ c.requests = q /\ c.state = "queued"
      /\ c.sock = Fresh /\ c.got = <<>>
  BY <1>2
<1>5. Sound(c)
  BY <1>4 DEF Sound
<1> QED
  BY <1>3, <1>4, <1>5 DEF c

\* The queries of a batch.
LEMMA BatchFinite ==
  ASSUME TypeInv, NEW b
  PROVE  Cardinality(Batch(b)) \in Nat
<1>1. args.requests \in Nat
  BY BatchConstants DEF TypeInv
<1>2. IsFiniteSet(1..args.requests)
  BY <1>1, FS_Interval
<1>3. Batch(b) \subseteq 1..args.requests
  BY Zenon DEF Batch
<1>4. IsFiniteSet(Batch(b))
  BY <1>2, <1>3, FS_Subset
<1> QED
  BY <1>4, FS_CardinalityType

\* The calls of a batch, one for each node it is routed to.
FirstOnes(count) == {i \in 1..count : \A h \in 1..(i - 1) : Routed(h) # Routed(i)}

FirstCalls(b) ==
  LET first == Ascending(FirstOnes(Cardinality(Batch(b))))
  IN  [j \in DOMAIN first |-> NewCall(b, 0, Routed(first[j]), FirstPages(Routed(first[j]), b))]

\* They are sound, and queued.
LEMMA FirstCallsSound ==
  ASSUME TypeInv, NEW b \in 1..NumBatches
  PROVE  /\ FirstCalls(b) \in Seq(CallRecord)
         /\ Len(FirstCalls(b)) = Len(Ascending(FirstOnes(Cardinality(Batch(b)))))
         /\ \A j \in 1..Len(FirstCalls(b)) : LET c == FirstCalls(b)[j] IN
              Sound(c) /\ c.batch = b /\ c.slot = 0 /\ c.state = "queued"
<1> DEFINE D == FirstOnes(Cardinality(Batch(b)))
           first == Ascending(D)
           F == FirstCalls(b)
           C(j) == NewCall(b, 0, Routed(first[j]), FirstPages(Routed(first[j]), b))
<1>1. D \in SUBSET Nat /\ IsFiniteSet(D) /\ D \subseteq 1..Cardinality(Batch(b))
  <2>1. IsFiniteSet(1..Cardinality(Batch(b))) /\ D \subseteq 1..Cardinality(Batch(b))
    BY BatchFinite, FS_Interval DEF FirstOnes
  <2>2. 1..Cardinality(Batch(b)) \in SUBSET Nat
    BY BatchFinite
  <2> HIDE DEF D
  <2> QED
    BY <2>1, <2>2, FS_Subset
<1> HIDE DEF D
<1>2. /\ Len(first) = Cardinality(D) /\ Len(first) \in Nat /\ DOMAIN first = 1..Len(first)
      /\ \A j \in 1..Len(first) : first[j] \in D
  BY <1>1, AscendingSeq
<1>3. F = [j \in 1..Len(first) |-> C(j)]
  BY <1>2 DEF FirstCalls, D
<1> HIDE DEF first
<1>4. ASSUME NEW j \in 1..Len(first)
      PROVE  C(j) \in CallRecord /\ Sound(C(j)) /\ C(j).batch = b /\ C(j).slot = 0
             /\ C(j).state = "queued"
  <2> DEFINE n == Routed(first[j])
             q == FirstPages(n, b)
  <2>1. first[j] \in 1..Cardinality(Batch(b)) /\ first[j] \in Int /\ b \in Nat
    <3>1. first[j] \in D /\ D \subseteq 1..Cardinality(Batch(b)) /\ D \subseteq Nat
      BY <1>1, <1>2
    <3>2. NumBatches \in Int
      BY BatchConstants DEF TypeInv, NumBatches
    <3>3. b \in Nat
      BY <3>2
    <3>4. first[j] \in 1..Cardinality(Batch(b)) /\ first[j] \in Nat
      BY <3>1, Zenon
    <3>5. first[j] \in Int
      BY <3>4
    <3> QED
      BY <3>3, <3>4, <3>5
  <2>2. n \in Nodes
    BY <2>1, RoutedToNode
  <2>3. /\ q \in Seq(Req) /\ q # <<>> /\ (\A i, h \in DOMAIN q : q[i] = q[h] => i = h)
        /\ \A i \in DOMAIN q : q[i].from = 1
    BY <2>1, <2>2, FirstPagesSound
  <2> HIDE DEF n, q
  <2> QED
    BY <2>2, <2>3, NewCallSound DEF n, q
<1> HIDE DEF C
<1>5. F \in Seq(CallRecord)
  BY <1>2, <1>3, <1>4, IsASeq
<1>6. Len(F) = Len(first)
  <2>1. DOMAIN F = 1..Len(first)
    BY <1>3
  <2> HIDE DEF F
  <2> QED
    BY <1>2, <1>5, <2>1, LenProperties
<1>7. \A j \in 1..Len(first) : F[j] = C(j)
  BY <1>3
<1> HIDE DEF F
<1> QED
  BY <1>4, <1>5, <1>6, <1>7 DEF F, first, D

\* How many batches there are.
LEMMA BatchNumbers ==
  ASSUME IInv
  PROVE  NumBatches \in Int /\ main.batch \in Nat \ {0}
BY BatchConstants DEF IInv, TypeInv, NumBatches

\* The next batch is submitted.
LEMMA ReadBatchKeeps ==
  ASSUME IInv, ReadBatch
  PROVE  IInv'
<1>0. PICK b : b = main.batch
  OBVIOUS
<1> DEFINE count == Cardinality(Batch(b))
           first == Ascending(FirstOnes(count))
           F == FirstCalls(b)
           n == Len(calls)
           act == (n + 1)..(n + Len(F))
           a == [agg[b] EXCEPT !.pc = "running", !.active = act]
<1>1. /\ main.pc = "read" /\ b \in 1..NumBatches /\ agg[b].pc = "none" /\ NumBatches \in Int
      /\ main \in [pc : {"read", "throttle", "wait", "ended"}, batch : Nat \ {0}, futures : SUBSET Nat]
  <2>1. main.pc = "read" /\ b \in Nat \ {0} /\ b <= NumBatches /\ NumBatches \in Int
    BY <1>0, BatchNumbers DEF ReadBatch, IInv, MainInv
  <2>2. b \in 1..NumBatches
    BY <2>1
  <2>3. agg[b].pc = "none"
    BY <1>0, <2>1, <2>2 DEF IInv, MainInv
  <2> QED
    BY <2>1, <2>2, <2>3 DEF IInv, TypeInv
<1>2. /\ F \in Seq(CallRecord) /\ Len(F) = Len(first) /\ Len(F) \in Nat
      /\ \A j \in 1..Len(F) : Sound(F[j]) /\ F[j].batch = b /\ F[j].slot = 0 /\ F[j].state = "queued"
  <2>1. /\ F \in Seq(CallRecord) /\ Len(F) = Len(first)
        /\ \A j \in 1..Len(F) : Sound(F[j]) /\ F[j].batch = b /\ F[j].slot = 0 /\ F[j].state = "queued"
    BY <1>1, FirstCallsSound DEF IInv
  <2> HIDE DEF F
  <2> QED
    BY <2>1, LenProperties
<1>3. /\ calls' = calls \o F /\ agg' = [agg EXCEPT ![b] = a]
      /\ args' = args /\ registry' = registry /\ pool' = pool /\ faults' = faults
  <2>1. calls' = calls \o F
    BY <1>0 DEF ReadBatch, FirstCalls, FirstOnes
  <2>2. agg' = [agg EXCEPT ![b].pc = "running", ![b].active = (n + 1)..(n + Len(first))]
    BY <1>0 DEF ReadBatch, FirstOnes
  <2>3. agg \in [1..NumBatches -> AggRecord]
    BY DEF IInv, TypeInv
  <2> DEFINE act2 == (n + 1)..(n + Len(first))
  <2>4. act = act2
    BY <1>2
  <2> HIDE DEF act, act2, first, F
  <2>5. agg' = [agg EXCEPT ![b].pc = "running", ![b].active = act2]
    BY <2>2 DEF act2
  <2>6. agg' = [agg EXCEPT ![b] = a]
    BY <1>1, <2>3, <2>4, <2>5 DEF AggRecord
  <2> QED
    BY <2>1, <2>6 DEF ReadBatch
<1>4. index' \in Int
  <2>1. Followers \in Seq(Nodes) /\ Len(Followers) \in Nat
    <3>1. Followers \in Seq(Nodes)
      BY NodesInOrder DEF Followers
    <3> QED
      BY <3>1, LenProperties
  <2>2. Followers # <<>> => Len(Followers) # 0
    BY <2>1, EmptySeq
  <2>3. count \in Nat /\ index \in Int
    BY BatchFinite DEF IInv, TypeInv
  <2>4. index' = IF Followers = <<>> THEN index ELSE (index + count) % Len(Followers)
    BY <1>0 DEF ReadBatch
  <2> HIDE DEF count
  <2> QED
    BY <2>1, <2>2, <2>3, <2>4
<1>5. /\ main'.batch = b + 1 /\ main'.futures = main.futures \cup {b}
      /\ main'.pc \in {"throttle", "read", "wait"}
      /\ main'.pc = "read" => b < NumBatches
      /\ main'.pc = "wait" => ~(b < NumBatches)
      /\ main' \in [pc : {"read", "throttle", "wait", "ended"}, batch : Nat \ {0}, futures : SUBSET Nat]
  <2> DEFINE c == IF count = args.batch_size /\ Cardinality(main.futures) + 1 > MaxPending
                  THEN "throttle" ELSE IF b < NumBatches THEN "read" ELSE "wait"
  <2>1. main' = [pc |-> c, batch |-> b + 1, futures |-> main.futures \cup {b}]
    BY <1>0 DEF ReadBatch
  <2>2. c \in {"throttle", "read", "wait"} /\ (c = "read" => b < NumBatches) /\ (c = "wait" => ~(b < NumBatches))
    OBVIOUS
  <2> HIDE DEF c
  <2>3. b + 1 \in Nat \ {0} /\ main.futures \cup {b} \in SUBSET Nat
    BY <1>1
  <2> QED
    BY <2>1, <2>2, <2>3
<1> HIDE DEF F, first, count
<1>6. n \in Nat /\ DOMAIN calls = 1..n
  BY Parts DEF IInv
<1>7. /\ calls' \in Seq(CallRecord) /\ DOMAIN calls' = 1..(n + Len(F))
      /\ \A j \in DOMAIN calls : calls'[j] = calls[j]
      /\ \A j \in act : j \in DOMAIN calls' /\ j \notin DOMAIN calls
           /\ Sound(calls'[j]) /\ calls'[j].batch = b /\ calls'[j].slot = 0
      /\ \A j \in DOMAIN calls' : j \in DOMAIN calls \/ j \in act
  <2>1. calls \in Seq(CallRecord)
    BY DEF IInv, TypeInv
  <2>2. /\ calls' \in Seq(CallRecord) /\ Len(calls') = n + Len(F)
        /\ \A j \in 1..n : calls'[j] = calls[j]
        /\ \A j \in 1..Len(F) : calls'[n + j] = F[j]
    <3>1. /\ calls \o F \in Seq(CallRecord) /\ Len(calls \o F) = Len(calls) + Len(F)
          /\ \A j \in 1..(Len(calls) + Len(F)) :
               (calls \o F)[j] = IF j <= Len(calls) THEN calls[j] ELSE F[j - Len(calls)]
      BY <1>2, <2>1, ConcatProperties, ZenonT(30)
    <3>2. \A j \in 1..n : calls'[j] = calls[j]
      BY <1>2, <1>3, <1>6, <3>1
    <3>3. ASSUME NEW j \in 1..Len(F) PROVE calls'[n + j] = F[j]
      <4>1. n + j \in 1..(n + Len(F)) /\ ~(n + j <= n) /\ (n + j) - n = j
        BY <1>2, <1>6
      <4>2. calls'[n + j] = F[(n + j) - n]
        BY <1>3, <3>1, <4>1
      <4> HIDE DEF n
      <4> QED
        BY <4>1, <4>2
    <3> QED
      BY <1>3, <3>1, <3>2, <3>3
  <2>3. DOMAIN calls' = 1..(n + Len(F))
    BY <2>2, LenProperties
  <2> HIDE DEF n
  <2>4. ASSUME NEW j \in act
        PROVE  /\ j \in DOMAIN calls' /\ j \notin DOMAIN calls
               /\ Sound(calls'[j]) /\ calls'[j].batch = b /\ calls'[j].slot = 0
    <3>1. j - n \in 1..Len(F) /\ n + (j - n) = j
      BY <1>2, <1>6
    <3>2. calls'[j] = F[j - n]
      BY <2>2, <3>1
    <3>3. j \in DOMAIN calls' /\ j \notin DOMAIN calls
      BY <1>2, <1>6, <2>3
    <3> HIDE DEF act
    <3> QED
      BY <1>2, <3>1, <3>2, <3>3
  <2>5. \A j \in DOMAIN calls' : j \in DOMAIN calls \/ j \in act
    BY <1>2, <1>6, <2>3
  <2> QED
    BY <1>6, <2>2, <2>3, <2>4, <2>5
<1>8. act \subseteq Nat
  BY <1>2, <1>6
<1> HIDE DEF act, n
<1>9. /\ agg[b] \in AggRecord /\ agg[b].done = {} /\ agg[b].at = 0 /\ AggInv(b)
      /\ \A j \in DOMAIN calls : calls[j].batch # b
  <2>1. agg[b] \in AggRecord /\ AggInv(b)
    BY <1>1, Parts DEF IInv
  <2>2. Waiting(b) = {} /\ agg[b].at = 0
    BY <1>1, <2>1 DEF AggInv
  <2> QED
    BY <1>1, <2>1, <2>2 DEF AggInv, Waiting
<1>10. /\ a \in AggRecord /\ a.pc = "running" /\ a.active = act /\ a.done = {} /\ a.at = 0
  BY <1>8, <1>9 DEF AggRecord
<1> HIDE DEF a
<1>11. /\ agg' \in [1..NumBatches -> AggRecord] /\ agg'[b] = a
       /\ \A d \in 1..NumBatches : d # b => agg'[d] = agg[d]
  BY <1>1, <1>3, <1>10 DEF IInv, TypeInv
<1>12. NumBatches' = NumBatches /\ CallRecord' = CallRecord
  BY <1>3, SameBatches
<1>13. TypeInv'
  BY <1>3, <1>4, <1>5, <1>7, <1>11, <1>12 DEF IInv, TypeInv
<1>14. CallsSound' /\ PoolClean'
  BY <1>3, <1>7 DEF IInv, CallsSound, PoolClean
<1>15. MainInv'
  <2>1. \A d \in 1..NumBatches : agg'[d].pc = "none" <=> d >= b + 1
    <3> SUFFICES ASSUME NEW d \in 1..NumBatches PROVE agg'[d].pc = "none" <=> d >= b + 1
      OBVIOUS
    <3>1. CASE d = b
      BY <1>1, <1>10, <1>11, <3>1
    <3>2. CASE d # b
      <4>1. agg'[d].pc = "none" <=> d >= b
        BY <1>0, <1>11, <3>2 DEF IInv, MainInv
      <4> QED
        BY <1>1, <3>2, <4>1
    <3> QED
      BY <3>1, <3>2
  <2>2. \A d \in 1..NumBatches : agg'[d].pc = "running" => d \in main'.futures
    BY <1>5, <1>11 DEF IInv, MainInv
  <2>3. (main'.pc = "read" => b + 1 <= NumBatches) /\ (main'.pc = "wait" => b + 1 > NumBatches)
    BY <1>1, <1>5
  <2> QED
    BY <1>5, <1>12, <2>1, <2>2, <2>3 DEF MainInv
<1>16. ClosedAtEnd'
  BY <1>5 DEF ClosedAtEnd
<1>17. ASSUME NEW d \in 1..NumBatches, d # b PROVE SameBatch(d)
  BY <1>2, <1>6, <1>7, <1>11, <1>17 DEF SameBatch
<1>18. Waiting(b)' = act
  BY <1>10, <1>11 DEF Waiting
<1>19. AggInv(b)'
  BY <1>7, <1>9, <1>10, <1>11, <1>18 DEF AggInv
<1>20. ContentInv(b)'
  <2>1. \A j : ~Taken(b, j)'
    BY <1>7, <1>9, <1>18 DEF Taken
  <2>2. \A j \in Waiting(b)' : calls'[j].slot = 0
    BY <1>7, <1>18
  <2> QED
    BY <2>1, <2>2 DEF ContentInv
<1>21. ASSUME NEW d \in 1..NumBatches
       PROVE  /\ AggInv(d)'
              /\ agg'[d].pc \in {"running", "returned"} /\ ~Overwritten(d)' => ContentInv(d)'
  <2>1. CASE d = b
    BY <1>19, <1>20, <2>1
  <2>2. CASE d # b
    BY <1>17, <2>2, Elsewhere
  <2> QED
    BY <2>1, <2>2
<1> QED
  BY <1>12, <1>13, <1>14, <1>15, <1>16, <1>21 DEF IInv

---------------------------------------------------------------------------
(* The steps of the aggregators.                                           *)

\* A step of the aggregator of one batch keeps the invariant if it keeps what
\* is said of that batch.
LEMMA AggregatorKeeps ==
  ASSUME IInv, NEW b \in 1..NumBatches, agg[b].pc = "running",
         NEW a \in AggRecord, agg' = [agg EXCEPT ![b] = a], a.pc # "none",
         calls' \in Seq(CallRecord), DOMAIN calls \subseteq DOMAIN calls',
         \A j \in DOMAIN calls : calls'[j].batch = calls[j].batch,
         \A j \in DOMAIN calls : calls[j].batch # b => calls'[j] = calls[j],
         \A j \in DOMAIN calls' \ DOMAIN calls : calls'[j].batch = b,
         CallsSound',
         args' = args, registry' = registry, index' = index, main' = main, pool' = pool,
         faults' \in Nat,
         AggInv(b)',
         a.pc \in {"running", "returned"} /\ ~Overwritten(b)' => ContentInv(b)'
  PROVE  IInv'
<1>1. /\ agg' \in [1..NumBatches -> AggRecord] /\ agg'[b] = a
      /\ \A d \in 1..NumBatches : d # b => agg'[d] = agg[d]
  BY DEF IInv, TypeInv
<1>2. NumBatches' = NumBatches /\ CallRecord' = CallRecord
  BY SameBatches
<1>3. TypeInv'
  BY <1>1, <1>2 DEF IInv, TypeInv
<1>4. PoolClean'
  BY DEF IInv, PoolClean
<1>5. b \in main.futures /\ main.pc # "ended"
  BY DEF IInv, MainInv
<1>6. MainInv'
  <2>1. \A d \in 1..NumBatches : agg'[d].pc = "none" <=> agg[d].pc = "none"
    BY <1>1
  <2>2. \A d \in 1..NumBatches : agg'[d].pc = "running" => d \in main.futures
    BY <1>1, <1>5 DEF IInv, MainInv
  <2> QED
    BY <1>2, <2>1, <2>2 DEF IInv, MainInv
<1>7. ClosedAtEnd'
  BY <1>5 DEF ClosedAtEnd
<1>8. ASSUME NEW d \in 1..NumBatches
      PROVE  /\ AggInv(d)'
             /\ agg'[d].pc \in {"running", "returned"} /\ ~Overwritten(d)' => ContentInv(d)'
  <2>1. CASE d = b
    BY <1>1, <2>1
  <2>2. CASE d # b
    <3>1. SameBatch(d)
      BY <1>1, <2>2 DEF SameBatch
    <3> QED
      BY <3>1, Elsewhere
  <2> QED
    BY <2>1, <2>2
<1> QED
  BY <1>2, <1>3, <1>4, <1>6, <1>7, <1>8 DEF IInv

\* The aggregator waits or returns: it has the same answers and accounts for
\* the same calls.
LEMMA SameContent ==
  ASSUME IInv, NEW b \in 1..NumBatches, agg[b].pc = "running", NEW a \in AggRecord,
         agg' = [agg EXCEPT ![b] = a], a.pc \in {"running", "returned"},
         a.at = agg[b].at, a.sub = agg[b].sub, a.acc = agg[b].acc,
         a.active \cup a.done = Waiting(b), a.active \cap a.done = {},
         \A k \in a.done : Finished(k), a.pc = "returned" => Waiting(b) = {} /\ a.at = 0,
         UNCHANGED <<args, registry, index, main, ioVars>>
  PROVE  IInv'
<1>1. /\ agg'[b] = a /\ AggInv(b) /\ Waiting(b)' = Waiting(b) /\ calls' = calls
      /\ args' = args /\ registry' = registry /\ index' = index /\ main' = main
      /\ pool' = pool /\ faults' = faults
  BY DEF IInv, TypeInv, Waiting, ioVars
<1>2. AggInv(b)'
  BY <1>1 DEF AggInv, Finished
<1>3. ASSUME ~Overwritten(b)'
      PROVE  ContentInv(b)'
  <2>1. ContentInv(b)
    BY <1>1, <1>3 DEF IInv, Overwritten
  <2>2. \A j : Taken(b, j)' <=> Taken(b, j)
    BY <1>1 DEF Taken
  <2>3. \A j, i : LookedAt(b, j, i)' <=> LookedAt(b, j, i)
    BY <1>1, <2>2 DEF LookedAt
  <2>4. \A j, n, i : Follows(b, j, n, i)' <=> Follows(b, j, n, i)
    BY <1>1 DEF Follows
  <2>5. \A j, i : Complete(b, j, i)' <=> Complete(b, j, i)
    BY <1>1, <2>4 DEF Complete
  <2>6. \A k \in DOMAIN calls' : Taken(b, k)' =>
          /\ DOMAIN agg'[b].acc[calls'[k].node] = DOMAIN calls'[k].requests
          /\ \A i \in DOMAIN calls'[k].requests :
               IF LookedAt(b, k, i)' THEN Complete(b, k, i)'
               ELSE agg'[b].acc[calls'[k].node][i] = calls'[k].got[i]
    BY <1>1, <2>1, <2>2, <2>3, <2>5 DEF ContentInv
  <2>7. ASSUME NEW j \in Waiting(b)', calls'[j].slot # 0
        PROVE  /\ \E k \in DOMAIN calls' :
                    /\ calls'[k].node = calls'[j].node /\ LookedAt(b, k, calls[j].slot)'
                    /\ calls'[j].requests =
                         <<[query |-> calls'[k].requests[calls'[j].slot].query,
                            from |-> agg'[b].acc[calls'[j].node][calls'[j].slot].max_id + 1]>>
               /\ \A h \in Waiting(b)' : Follows(b, h, calls[j].node, calls[j].slot)' => h = j
    <3>1. j \in Waiting(b) /\ calls[j].slot # 0
      BY <1>1, <2>7
    <3>2. PICK k \in DOMAIN calls :
            /\ calls[k].node = calls[j].node /\ LookedAt(b, k, calls[j].slot)
            /\ calls[j].requests =
                 <<[query |-> calls[k].requests[calls[j].slot].query,
                    from |-> agg[b].acc[calls[j].node][calls[j].slot].max_id + 1]>>
      BY <2>1, <3>1 DEF ContentInv
    <3>3. \A h \in Waiting(b) : Follows(b, h, calls[j].node, calls[j].slot) => h = j
      BY <2>1, <3>1 DEF ContentInv
    <3>4. LookedAt(b, k, calls[j].slot)'
      BY <1>1, <2>3, <3>2
    <3>5. \A h \in Waiting(b)' : Follows(b, h, calls[j].node, calls[j].slot)' => h = j
      BY <1>1, <2>4, <3>3
    <3>6. calls' = calls /\ agg'[b].acc = agg[b].acc
      BY <1>1
    <3> QED
      BY <3>2, <3>4, <3>5, <3>6
  <2> QED
    BY <2>6, <2>7 DEF ContentInv
<1>4. calls' \in Seq(CallRecord) /\ CallsSound' /\ faults' \in Nat
  BY <1>1 DEF IInv, TypeInv, CallsSound
<1>5. /\ DOMAIN calls \subseteq DOMAIN calls' /\ DOMAIN calls' \ DOMAIN calls = {}
      /\ \A j \in DOMAIN calls : calls'[j] = calls[j]
  BY <1>1
<1> QED
  BY <1>1, <1>2, <1>3, <1>4, <1>5, AggregatorKeeps

\* The aggregator takes the calls that have ended.
LEMMA WaitKeeps ==
  ASSUME IInv, NEW b \in 1..NumBatches, Wait(b)
  PROVE  IInv'
<1> DEFINE ended == {k \in agg[b].active : Finished(k)}
           a == [agg[b] EXCEPT !.done = ended, !.active = agg[b].active \ ended]
<1>1. /\ agg \in [1..NumBatches -> AggRecord] /\ agg[b] \in AggRecord
      /\ agg[b].active \in SUBSET Nat /\ agg[b].done = {} /\ agg[b].pc = "running"
  BY Parts DEF IInv, TypeInv, Wait, Idle
<1>2. agg' = [agg EXCEPT ![b] = a]
  BY <1>1 DEF Wait, AggRecord
<1>3. /\ ended \in SUBSET Nat /\ agg[b].active \ ended \in SUBSET Nat
      /\ (agg[b].active \ ended) \cup ended = Waiting(b) /\ \A k \in ended : Finished(k)
  BY <1>1 DEF Waiting
<1> HIDE DEF ended
<1>4. /\ a \in AggRecord /\ a.pc = "running" /\ a.at = agg[b].at /\ a.sub = agg[b].sub
      /\ a.acc = agg[b].acc /\ a.done = ended /\ a.active = agg[b].active \ ended
  BY <1>1, <1>3 DEF AggRecord
<1> HIDE DEF a
<1>5. UNCHANGED <<args, registry, index, main, ioVars>>
  BY DEF Wait
<1>6. a.active \cap a.done = {}
  BY <1>4
<1> QED
  BY <1>1, <1>2, <1>3, <1>4, <1>5, <1>6, SameContent

\* The aggregator returns.
LEMMA ReturnKeeps ==
  ASSUME IInv, NEW b \in 1..NumBatches, Return(b)
  PROVE  IInv'
<1> DEFINE a == [agg[b] EXCEPT !.pc = "returned"]
<1>1. /\ agg \in [1..NumBatches -> AggRecord] /\ agg[b] \in AggRecord
      /\ agg[b].active = {} /\ agg[b].done = {} /\ agg[b].pc = "running" /\ agg[b].at = 0
  BY Parts DEF IInv, TypeInv, Return, Idle
<1>2. agg' = [agg EXCEPT ![b] = a]
  BY <1>1 DEF Return, AggRecord
<1>3. /\ a \in AggRecord /\ a.pc = "returned" /\ a.at = agg[b].at /\ a.sub = agg[b].sub
      /\ a.acc = agg[b].acc /\ a.done = {} /\ a.active = {}
  BY <1>1 DEF AggRecord
<1> HIDE DEF a
<1>4. Waiting(b) = {}
  BY <1>1 DEF Waiting
<1>5. UNCHANGED <<args, registry, index, main, ioVars>>
  BY DEF Return
<1> QED
  BY <1>1, <1>2, <1>3, <1>4, <1>5, SameContent

\* An exception in the aggregator.
LEMMA RaiseKeeps ==
  ASSUME IInv, NEW b \in 1..NumBatches, agg[b].pc = "running", Raise(b),
         UNCHANGED <<args, registry, index, main, pool, faults>>
  PROVE  IInv'
<1> DEFINE a == [agg[b] EXCEPT !.pc = "raised", !.active = {}, !.done = {}, !.at = 0]
           c(k) == IF k \in agg[b].active /\ calls[k].state = "queued"
                   THEN [calls[k] EXCEPT !.state = "cancelled"] ELSE calls[k]
<1>1. /\ agg \in [1..NumBatches -> AggRecord] /\ agg[b] \in AggRecord /\ AggInv(b)
      /\ DOMAIN calls = 1..Len(calls) /\ Len(calls) \in Nat
      /\ \A k \in DOMAIN calls : calls[k] \in CallRecord
  BY Parts DEF IInv, TypeInv
<1>2. agg' = [agg EXCEPT ![b] = a]
  BY <1>1 DEF Raise, AggRecord
<1>3. /\ a \in AggRecord /\ a.pc = "raised" /\ a.active = {} /\ a.done = {} /\ a.at = 0
  BY <1>1 DEF AggRecord
<1> HIDE DEF a
<1>4. agg'[b] = a /\ Waiting(b)' = {}
  BY <1>1, <1>2, <1>3 DEF Waiting
<1>5. calls' = [k \in 1..Len(calls) |-> c(k)]
  BY <1>1 DEF Raise
<1>6. ASSUME NEW k \in DOMAIN calls
      PROVE  /\ c(k) \in CallRecord /\ Sound(c(k)) /\ c(k).batch = calls[k].batch
             /\ calls[k].batch # b => c(k) = calls[k]
  <2>1. calls[k] \in CallRecord /\ Sound(calls[k])
    BY <1>1 DEF IInv, CallsSound
  <2>2. CASE k \in agg[b].active /\ calls[k].state = "queued"
    <3> DEFINE v == [calls[k] EXCEPT !.state = "cancelled"]
    <3>1. c(k) = v
      BY <2>2
    <3>2. /\ v \in CallRecord /\ v.state = "cancelled" /\ v.batch = calls[k].batch
          /\ v.slot = calls[k].slot /\ v.requests = calls[k].requests
      BY <2>1 DEF CallRecord, States
    <3> HIDE DEF v
    <3>3. Sound(v)
      BY <2>1, <3>2 DEF Sound
    <3>4. calls[k].batch = b
      BY <1>1, <2>2 DEF AggInv, Waiting
    <3> QED
      BY <3>1, <3>2, <3>3, <3>4
  <2>3. CASE ~(k \in agg[b].active /\ calls[k].state = "queued")
    <3>1. c(k) = calls[k]
      BY <2>3
    <3> HIDE DEF c
    <3> QED
      BY <2>1, <3>1
  <2> QED
    BY <2>2, <2>3
<1> HIDE DEF c
<1>7. calls' \in Seq(CallRecord) /\ DOMAIN calls' = DOMAIN calls
  BY <1>1, <1>5, <1>6, IsASeq
<1>8. \A k \in DOMAIN calls : calls'[k] = c(k)
  BY <1>1, <1>5
<1>9. CallsSound'
  BY <1>6, <1>7, <1>8 DEF CallsSound
<1>10. AggInv(b)'
  BY <1>3, <1>4 DEF AggInv
<1>11. faults' \in Nat
  BY DEF IInv, TypeInv
<1>12. /\ DOMAIN calls \subseteq DOMAIN calls'
       /\ \A j \in DOMAIN calls : calls'[j].batch = calls[j].batch
       /\ \A j \in DOMAIN calls : calls[j].batch # b => calls'[j] = calls[j]
       /\ \A j \in DOMAIN calls' \ DOMAIN calls : calls'[j].batch = b
  BY <1>6, <1>7, <1>8
<1> QED
  BY <1>2, <1>3, <1>7, <1>9, <1>10, <1>11, <1>12, AggregatorKeeps

\* A call of a batch that its aggregator no longer waits for was answered; no
\* other call that was is of the same node, unless an answer was overwritten.
LEMMA TakenOnce ==
  ASSUME IInv, NEW b \in 1..NumBatches, agg[b].pc = "running", ~Overwritten(b),
         NEW h \in DOMAIN calls, calls[h].batch = b, calls[h].slot = 0, calls[h].state = "done",
         NEW j, Taken(b, j), j # h
  PROVE  calls[j].node # calls[h].node /\ calls[j].state = "done" /\ j \in DOMAIN calls
<1>1. AggInv(b)
  BY DEF IInv
<1>2. j \in DOMAIN calls /\ calls[j].batch = b /\ calls[j].slot = 0 /\ calls[j].state = "done"
  BY <1>1 DEF AggInv, Taken
<1> QED
  BY <1>2 DEF Overwritten

\* The first pages of a node are taken.
LEMMA TakeFirstKeeps ==
  ASSUME IInv, NEW b \in 1..NumBatches, NEW k \in agg[b].done, TakeFirst(b, k)
  PROVE  IInv'
<1> DEFINE n == calls[k].node
           acc == [agg[b].acc EXCEPT ![n] = calls[k].got]
           a == [agg[b] EXCEPT !.acc = acc, !.at = k, !.sub = 1, !.done = agg[b].done \ {k}]
<1>1. /\ agg \in [1..NumBatches -> AggRecord] /\ agg[b] \in AggRecord /\ AggInv(b)
      /\ agg[b].acc \in [Nodes -> Seq(Resp)] /\ agg[b].done \in SUBSET Nat
      /\ agg[b].active \in SUBSET Nat
  BY Parts DEF IInv, TypeInv
<1>2. /\ k \in DOMAIN calls /\ calls[k].batch = b /\ agg[b].at = 0 /\ calls[k].slot = 0
      /\ calls[k].state = "done" /\ agg[b].pc = "running" /\ k \in Nat \ {0}
  <2>1. k \in DOMAIN calls /\ calls[k].batch = b /\ agg[b].pc = "running"
    BY <1>1 DEF AggInv, Waiting
  <2>2. k \in Nat \ {0}
    BY <2>1, Parts DEF IInv
  <2> QED
    BY <2>1, <2>2 DEF TakeFirst
<1>3. /\ calls[k] \in CallRecord /\ Sound(calls[k])
      /\ calls[k].node \in Nodes /\ calls[k].got \in Seq(Resp) /\ calls[k].requests \in Seq(Req)
      /\ DOMAIN calls[k].got = DOMAIN calls[k].requests /\ 1 \in DOMAIN calls[k].requests
  <2>1. calls[k] \in CallRecord /\ Sound(calls[k])
    BY <1>2, Parts DEF IInv, CallsSound
  <2>2. calls[k].node \in Nodes /\ calls[k].got \in Seq(Resp) /\ calls[k].requests \in Seq(Req)
    BY <2>1, CallFields
  <2>3. Len(calls[k].got) = Len(calls[k].requests) /\ calls[k].requests # <<>>
    BY <1>2, <2>1 DEF Sound
  <2>4. DOMAIN calls[k].got = DOMAIN calls[k].requests
    BY <2>2, <2>3, LenProperties
  <2>5. 1 \in DOMAIN calls[k].requests
    BY <2>2, <2>3, LenProperties, EmptySeq
  <2> QED
    BY <2>1, <2>2, <2>4, <2>5
<1>4. agg' = [agg EXCEPT ![b] = a] /\ calls' = calls
  BY <1>1 DEF TakeFirst, AggRecord, ioVars
<1>5. /\ acc \in [Nodes -> Seq(Resp)] /\ acc[n] = calls[k].got
      /\ \A m \in Nodes : m # n => acc[m] = agg[b].acc[m]
  BY <1>1, <1>3
<1> HIDE DEF acc
<1>6. /\ a \in AggRecord /\ a.pc = "running" /\ a.active = agg[b].active
      /\ a.done = agg[b].done \ {k} /\ a.at = k /\ a.sub = 1 /\ a.acc = acc
  BY <1>1, <1>2, <1>5 DEF AggRecord
<1> HIDE DEF a
<1>7. agg'[b] = a
  BY <1>1, <1>4
<1>8. Waiting(b)' = Waiting(b) \ {k} /\ k \in Waiting(b)
  BY <1>1, <1>6, <1>7 DEF Waiting, AggInv
<1>9. AggInv(b)'
  <2>1. \A j \in agg'[b].done : Finished(j)'
    BY <1>1, <1>4, <1>6, <1>7 DEF AggInv, Finished
  <2>2. \A j \in DOMAIN calls' : calls'[j].batch = b => j \in Waiting(b)' \/ calls'[j].state = "done"
    BY <1>1, <1>2, <1>4, <1>8 DEF AggInv
  <2> QED
    BY <1>1, <1>2, <1>3, <1>4, <1>6, <1>7, <1>8, <2>1, <2>2 DEF AggInv
<1>10. ASSUME ~Overwritten(b)'
       PROVE  ContentInv(b)'
  <2>1. ~Overwritten(b) /\ ContentInv(b)
    BY <1>2, <1>4, <1>10 DEF IInv, Overwritten
  <2>2. \A j : Taken(b, j)' <=> Taken(b, j) \/ j = k
    BY <1>2, <1>4, <1>8 DEF Taken
  <2>3. \A j : Taken(b, j) => j # k /\ calls[j].node # n
    BY <1>2, <1>8, <2>1, TakenOnce DEF Taken
  <2>4. \A j, i : j # k => (LookedAt(b, j, i)' <=> LookedAt(b, j, i))
    <3> SUFFICES ASSUME NEW j, NEW i, j # k
                 PROVE  LookedAt(b, j, i)' <=> LookedAt(b, j, i)
      OBVIOUS
    <3>1. j \in DOMAIN calls => j # 0
      BY Parts DEF IInv
    <3> QED
      BY <1>2, <1>4, <1>6, <1>7, <2>2, <3>1 DEF LookedAt, Taken
  <2>5. \A i \in DOMAIN calls[k].requests : ~LookedAt(b, k, i)'
    <3>1. \A i \in DOMAIN calls[k].requests : ~(i < 1)
      BY <1>3, LenProperties
    <3> QED
      BY <1>4, <1>6, <1>7, <3>1 DEF LookedAt
  <2>6. \A j, m, i : i # 0 => (Follows(b, j, m, i)' <=> Follows(b, j, m, i))
    BY <1>2, <1>4, <1>8 DEF Follows
  <2>7. \A j \in DOMAIN calls : calls[j].node \in Nodes /\ \A i \in DOMAIN calls[j].requests : i # 0
    <3> SUFFICES ASSUME NEW j \in DOMAIN calls
                 PROVE  calls[j].node \in Nodes /\ \A i \in DOMAIN calls[j].requests : i # 0
      OBVIOUS
    <3>1. calls[j].node \in Nodes /\ calls[j].requests \in Seq(Req)
      BY Parts, CallFields DEF IInv
    <3> QED
      BY <3>1, LenProperties
  <2>8. ASSUME NEW j \in DOMAIN calls, Taken(b, j)'
        PROVE  /\ DOMAIN a.acc[calls[j].node] = DOMAIN calls[j].requests
               /\ \A i \in DOMAIN calls[j].requests :
                    IF LookedAt(b, j, i)' THEN Complete(b, j, i)'
                    ELSE a.acc[calls[j].node][i] = calls[j].got[i]
    <3>1. CASE j = k
      BY <1>3, <1>5, <1>6, <2>5, <3>1
    <3>2. CASE j # k
      <4>1. Taken(b, j) /\ calls[j].node # n /\ a.acc[calls[j].node] = agg[b].acc[calls[j].node]
        BY <1>5, <1>6, <2>2, <2>3, <2>7, <2>8, <3>2
      <4>2. \A i \in DOMAIN calls[j].requests : Complete(b, j, i) => Complete(b, j, i)'
        <5> SUFFICES ASSUME NEW i \in DOMAIN calls[j].requests, Complete(b, j, i)
                     PROVE  Complete(b, j, i)'
          OBVIOUS
        <5>1. \A g : Follows(b, g, calls[j].node, i) => g \in Waiting(b)' /\ Follows(b, g, calls[j].node, i)'
          BY <2>6, <2>7, <1>4 DEF Follows
        <5> QED
          BY <1>4, <1>7, <4>1, <5>1 DEF Complete
      <4> QED
        BY <2>1, <2>4, <3>2, <4>1, <4>2 DEF ContentInv
    <3> QED
      BY <3>1, <3>2
  <2>9. ASSUME NEW j \in Waiting(b) \ {k}, calls[j].slot # 0
        PROVE  /\ \E h \in DOMAIN calls :
                    /\ calls[h].node = calls[j].node /\ LookedAt(b, h, calls[j].slot)'
                    /\ calls[j].requests =
                         <<[query |-> calls[h].requests[calls[j].slot].query,
                            from |-> a.acc[calls[j].node][calls[j].slot].max_id + 1]>>
               /\ \A h \in Waiting(b) \ {k} : Follows(b, h, calls[j].node, calls[j].slot)' => h = j
    <3>1. PICK h \in DOMAIN calls :
            /\ calls[h].node = calls[j].node /\ LookedAt(b, h, calls[j].slot)
            /\ calls[j].requests = <<[query |-> calls[h].requests[calls[j].slot].query,
                                      from |-> agg[b].acc[calls[j].node][calls[j].slot].max_id + 1]>>
      BY <2>1, <2>9 DEF ContentInv
    <3>2. h # k /\ calls[h].node # n /\ a.acc[calls[h].node] = agg[b].acc[calls[h].node]
      BY <1>5, <1>6, <2>3, <2>7, <3>1 DEF LookedAt
    <3>3. LookedAt(b, h, calls[j].slot)'
      BY <2>4, <3>1, <3>2, <1>4
    <3>4. \A g \in Waiting(b) : Follows(b, g, calls[j].node, calls[j].slot) => g = j
      BY <2>1, <2>9 DEF ContentInv
    <3>5. \A g \in Waiting(b) \ {k} : Follows(b, g, calls[j].node, calls[j].slot)' => g = j
      BY <1>4, <2>6, <2>9, <3>4
    <3> QED
      BY <3>1, <3>2, <3>3, <3>5
  <2>10. \A j \in DOMAIN calls' : Taken(b, j)' =>
          /\ DOMAIN agg'[b].acc[calls'[j].node] = DOMAIN calls'[j].requests
          /\ \A i \in DOMAIN calls'[j].requests :
               IF LookedAt(b, j, i)' THEN Complete(b, j, i)'
               ELSE agg'[b].acc[calls'[j].node][i] = calls'[j].got[i]
    BY <1>4, <1>7, <2>8
  <2> QED
    BY <1>4, <1>7, <1>8, <2>9, <2>10 DEF ContentInv
<1>11. calls' \in Seq(CallRecord) /\ CallsSound' /\ faults' \in Nat
  BY <1>4 DEF IInv, TypeInv, CallsSound, TakeFirst, ioVars
<1>12. /\ args' = args /\ registry' = registry /\ index' = index /\ main' = main /\ pool' = pool
  BY DEF TakeFirst, ioVars
<1>13. /\ DOMAIN calls \subseteq DOMAIN calls' /\ DOMAIN calls' \ DOMAIN calls = {}
       /\ \A j \in DOMAIN calls : calls'[j] = calls[j]
  BY <1>4
<1> QED
  BY <1>2, <1>4, <1>6, <1>9, <1>10, <1>11, <1>12, <1>13, AggregatorKeeps

\* With e as the aggregator's new state, the page after the answer up to m to
\* query q, of node n in slot s, is asked for by the calls N, unless m is last.
Continued(b, e, N, n, s, q, m) ==
  /\ agg' = [agg EXCEPT ![b] = [e EXCEPT !.active = e.active \cup N]]
  /\ calls' \in Seq(CallRecord) /\ CallsSound'
  /\ DOMAIN calls' = DOMAIN calls \cup N /\ N \cap DOMAIN calls = {}
  /\ \A j \in DOMAIN calls : calls'[j] = calls[j]
  /\ \A j \in N : /\ calls'[j].batch = b /\ calls'[j].slot = s /\ calls'[j].node = n
                  /\ calls'[j].requests = <<[query |-> q, from |-> m + 1]>>
                  /\ N = {j}
  /\ N = {} => m = Width

\* A call is submitted.
LEMMA Appended ==
  ASSUME TypeInv, CallsSound, NEW c \in CallRecord, Sound(c), calls' = Append(calls, c), args' = args
  PROVE  LET k == Len(calls) + 1
         IN  /\ calls' \in Seq(CallRecord) /\ CallsSound' /\ k \in Nat
             /\ DOMAIN calls' = DOMAIN calls \cup {k} /\ k \notin DOMAIN calls
             /\ calls'[k] = c /\ \A j \in DOMAIN calls : calls'[j] = calls[j]
<1> DEFINE k == Len(calls) + 1
<1>1. calls \in Seq(CallRecord) /\ DOMAIN calls = 1..Len(calls) /\ Len(calls) \in Nat
  BY Parts DEF TypeInv
<1>2. /\ calls' \in Seq(CallRecord) /\ Len(calls') = Len(calls) + 1
      /\ calls'[Len(calls) + 1] = c /\ \A j \in 1..Len(calls) : calls'[j] = calls[j]
  BY <1>1, AppendProperties
<1>3. DOMAIN calls' = 1..(Len(calls) + 1)
  BY <1>2, LenProperties
<1>4. DOMAIN calls' = DOMAIN calls \cup {k} /\ k \notin DOMAIN calls /\ k \in Nat
  BY <1>1, <1>3
<1>5. CallsSound'
  BY <1>1, <1>2, <1>4 DEF CallsSound
<1> QED
  BY <1>1, <1>2, <1>4, <1>5

\* Continue.
LEMMA ContinueCalls ==
  ASSUME IInv, NEW b \in 1..NumBatches, NEW e \in AggRecord, NEW p \in Resp, NEW n \in Nodes,
         NEW s \in Nat \ {0}, NEW q \in Int, p.limit \/ p.max_id = Width, args' = args,
         Continue(b, e, p, n, s, q)
  PROVE  \E N \in SUBSET Nat : Continued(b, e, N, n, s, q, p.max_id)
<1>1. p.max_id \in 1..Width /\ Width \in Nat \ {0}
  BY BatchConstants DEF Resp
<1>2. CASE p.limit /\ p.max_id < Width
  <2> DEFINE k == Len(calls) + 1
             r == [query |-> q, from |-> p.max_id + 1]
             t == <<r>>
             c == NewCall(b, s, n, t)
  <2>1. calls' = Append(calls, c) /\ agg' = [agg EXCEPT ![b] = [e EXCEPT !.active = e.active \cup {k}]]
    BY <1>2 DEF Continue
  <2>2. r \in Req
    BY <1>1, <1>2 DEF Req
  <2> HIDE DEF r
  <2>3. t \in Seq(Req) /\ t # <<>> /\ Len(t) = 1 /\ \A i, j \in DOMAIN t : t[i] = t[j] => i = j
    BY <2>2, EmptySeq
  <2> HIDE DEF t
  <2>4. /\ c \in CallRecord /\ Sound(c) /\ c.batch = b /\ c.slot = s /\ c.node = n
        /\ c.requests = t
    BY <2>3, NewCallSound
  <2> HIDE DEF c
  <2>5. /\ calls' \in Seq(CallRecord) /\ CallsSound' /\ k \in Nat
        /\ DOMAIN calls' = DOMAIN calls \cup {k} /\ k \notin DOMAIN calls
        /\ calls'[k] = c /\ \A j \in DOMAIN calls : calls'[j] = calls[j]
    BY <2>1, <2>4, Appended DEF IInv
  <2> HIDE DEF k
  <2>6. \A j \in {k} : /\ calls'[j].batch = b /\ calls'[j].slot = s /\ calls'[j].node = n
                       /\ calls'[j].requests = <<[query |-> q, from |-> p.max_id + 1]>>
                       /\ {k} = {j}
    BY <2>4, <2>5 DEF t, r
  <2>7. Continued(b, e, {k}, n, s, q, p.max_id)
    BY <2>1, <2>5, <2>6 DEF Continued
  <2> QED
    BY <2>5, <2>7
<1>3. CASE ~(p.limit /\ p.max_id < Width)
  <2>1. agg' = [agg EXCEPT ![b] = e] /\ calls' = calls
    BY <1>3 DEF Continue
  <2>2. [e EXCEPT !.active = e.active \cup {}] = e
    BY DEF AggRecord
  <2>3. p.max_id = Width
    BY <1>1, <1>3
  <2>4. calls' \in Seq(CallRecord) /\ CallsSound'
    BY <2>1 DEF IInv, TypeInv, CallsSound
  <2>5. Continued(b, e, {}, n, s, q, p.max_id)
    BY <2>1, <2>2, <2>3, <2>4 DEF Continued
  <2> QED
    BY <2>5
<1> QED
  BY <1>2, <1>3

\* From e on, the aggregator has the records up to m of the s-th query of the
\* first pages of node n, which came from call h.
Advances(b, h, e, n, s, q, m) ==
  /\ Taken(b, h) /\ calls[h].node = n
  /\ s \in DOMAIN calls[h].requests /\ calls[h].requests[s].query = q
  /\ e.acc[n][s].req = calls[h].requests[s] /\ e.acc[n][s].records = {q} \X (1..m)
  /\ e.acc[n][s].max_id = m
  /\ \A d \in Nodes : d # n => e.acc[d] = agg[b].acc[d]
  /\ DOMAIN e.acc[n] = DOMAIN agg[b].acc[n]
  /\ \A i \in DOMAIN agg[b].acc[n] : i # s => e.acc[n][i] = agg[b].acc[n][i]
  /\ \A j \in Waiting(b) : Follows(b, j, n, s) <=> j \notin e.active \cup e.done
  /\ \A j : Taken(b, j) => \A i \in DOMAIN calls[j].requests :
       (e.at = j => i < e.sub) <=> (agg[b].at = j => i < agg[b].sub) \/ (j = h /\ i = s)

\* What the aggregator has after such a step.
LEMMA ContinueContent ==
  ASSUME IInv, NEW b \in 1..NumBatches, agg[b].pc = "running", NEW e \in AggRecord,
         NEW n \in Nodes, NEW s \in Nat \ {0}, NEW q, NEW m, NEW N \in SUBSET Nat,
         Continued(b, e, N, n, s, q, m), e.active \cup e.done \subseteq Waiting(b),
         ~Overwritten(b), NEW h, Advances(b, h, e, n, s, q, m)
  PROVE  ContentInv(b)'
<1> DEFINE W == e.active \cup e.done
<1>1. /\ agg'[b].acc = e.acc /\ agg'[b].at = e.at /\ agg'[b].sub = e.sub /\ Waiting(b)' = W \cup N
  <2> DEFINE a == [e EXCEPT !.active = e.active \cup N]
  <2>1. agg'[b] = a
    BY DEF IInv, TypeInv, Continued
  <2>2. a.acc = e.acc /\ a.at = e.at /\ a.sub = e.sub /\ a.active = e.active \cup N /\ a.done = e.done
    BY DEF AggRecord
  <2> HIDE DEF a
  <2> QED
    BY <2>1, <2>2 DEF Waiting
<1>2. /\ DOMAIN calls' = DOMAIN calls \cup N /\ N \cap DOMAIN calls = {}
      /\ \A j \in DOMAIN calls : calls'[j] = calls[j]
      /\ \A j \in N : /\ calls'[j].batch = b /\ calls'[j].slot = s /\ calls'[j].node = n
                      /\ calls'[j].requests = <<[query |-> q, from |-> m + 1]>>
                      /\ N = {j}
      /\ N = {} => m = Width
  BY DEF Continued
<1>3. /\ Taken(b, h) /\ calls[h].node = n
      /\ s \in DOMAIN calls[h].requests /\ calls[h].requests[s].query = q
      /\ e.acc[n][s].req = calls[h].requests[s] /\ e.acc[n][s].records = {q} \X (1..m)
      /\ e.acc[n][s].max_id = m
      /\ \A d \in Nodes : d # n => e.acc[d] = agg[b].acc[d]
      /\ DOMAIN e.acc[n] = DOMAIN agg[b].acc[n]
      /\ \A i \in DOMAIN agg[b].acc[n] : i # s => e.acc[n][i] = agg[b].acc[n][i]
  BY DEF Advances
<1>4. \A j \in Waiting(b) : Follows(b, j, n, s) <=> j \notin W
  BY DEF Advances
<1>5. /\ h \in DOMAIN calls /\ AggInv(b) /\ ContentInv(b) /\ W \subseteq Waiting(b)
      /\ Waiting(b) \subseteq DOMAIN calls
  BY <1>3 DEF IInv, AggInv, Taken
<1> HIDE DEF W
<1>6. \A j : Taken(b, j)' <=> Taken(b, j)
  <2> TAKE j
  <2>1. CASE Taken(b, j)
    <3>1. j \in DOMAIN calls /\ j \in DOMAIN calls' /\ j \notin Waiting(b)' /\ calls'[j] = calls[j]
      BY <1>1, <1>2, <1>5, <2>1 DEF Taken
    <3> QED
      BY <2>1, <3>1 DEF Taken
  <2>2. CASE Taken(b, j)'
    <3>1. j \in DOMAIN calls /\ j \notin W /\ calls'[j] = calls[j] /\ calls[j].slot = 0 /\ calls[j].batch = b
      BY <1>1, <1>2, <2>2 DEF Taken
    <3>2. j \notin Waiting(b)
      BY <1>4, <3>1 DEF Follows
    <3> QED
      BY <2>2, <3>1, <3>2 DEF Taken
  <2> QED
    BY <2>1, <2>2
<1>7. \A j : Taken(b, j) => j \in DOMAIN calls /\ calls'[j] = calls[j]
  BY <1>2 DEF Taken
<1>8. \A j, i : LookedAt(b, j, i)' <=> LookedAt(b, j, i) \/ (j = h /\ i = s)
  <2> SUFFICES ASSUME NEW j, NEW i
               PROVE  LookedAt(b, j, i)' <=> LookedAt(b, j, i) \/ (j = h /\ i = s)
    OBVIOUS
  <2>1. CASE Taken(b, j) /\ i \in DOMAIN calls[j].requests
    <3>1. (e.at = j => i < e.sub) <=> (agg[b].at = j => i < agg[b].sub) \/ (j = h /\ i = s)
      BY <2>1 DEF Advances
    <3> QED
      BY <1>1, <1>6, <1>7, <2>1, <3>1 DEF LookedAt
  <2>2. CASE ~(Taken(b, j) /\ i \in DOMAIN calls[j].requests)
    BY <1>3, <1>6, <1>7, <2>2 DEF LookedAt
  <2> QED
    BY <2>1, <2>2
<1>9. \A j, d, i : (d # n \/ i # s) => (Follows(b, j, d, i)' <=> Follows(b, j, d, i))
  <2> SUFFICES ASSUME NEW j, NEW d, NEW i, d # n \/ i # s
               PROVE  Follows(b, j, d, i)' <=> Follows(b, j, d, i)
    OBVIOUS
  <2>1. CASE Follows(b, j, d, i)
    <3>1. j \in Waiting(b) /\ ~Follows(b, j, n, s) /\ j \in DOMAIN calls
      BY <1>5, <2>1 DEF Follows
    <3> QED
      BY <1>1, <1>2, <1>4, <2>1, <3>1 DEF Follows
  <2>2. CASE Follows(b, j, d, i)'
    <3>1. j \notin N
      BY <1>2, <2>2 DEF Follows
    <3>2. j \in Waiting(b) /\ j \in DOMAIN calls
      BY <1>1, <1>5, <2>2, <3>1 DEF Follows
    <3> QED
      BY <1>2, <2>2, <3>2 DEF Follows
  <2> QED
    BY <2>1, <2>2
<1>10. \A j : Follows(b, j, n, s)' <=> j \in N
  <2> TAKE j
  <2>1. CASE j \in N
    BY <1>1, <1>2, <2>1 DEF Follows
  <2>2. CASE j \notin N
    <3> SUFFICES ASSUME Follows(b, j, n, s)' PROVE FALSE
      BY <2>2
    <3>1. j \in W /\ j \in Waiting(b) /\ j \in DOMAIN calls
      BY <1>1, <1>5, <2>2 DEF Follows
    <3> QED
      BY <1>2, <1>4, <3>1 DEF Follows
  <2> QED
    BY <2>1, <2>2
<1>11. \A j : Taken(b, j) /\ j # h => calls[j].node # n
  <2>1. h \in DOMAIN calls /\ calls[h].batch = b /\ calls[h].slot = 0 /\ calls[h].state = "done"
    BY <1>3, <1>5 DEF Taken, AggInv
  <2> QED
    BY <1>3, <2>1, TakenOnce
<1>12. \A j \in DOMAIN calls : calls[j].node \in Nodes
  BY Parts, CallFields DEF IInv
<1>13. Complete(b, h, s)'
  <2>1. calls'[h] = calls[h]
    BY <1>2, <1>5
  <2>2. m = Width \/ \E j \in Waiting(b)' : Follows(b, j, n, s)'
    BY <1>1, <1>2, <1>10
  <2> QED
    BY <1>1, <1>3, <2>1, <2>2 DEF Complete
<1>14. ASSUME NEW j, Taken(b, j), NEW i \in DOMAIN calls[j].requests, ~(j = h /\ i = s),
              i \in DOMAIN agg[b].acc[calls[j].node]
       PROVE  /\ e.acc[calls[j].node][i] = agg[b].acc[calls[j].node][i]
              /\ Complete(b, j, i) => Complete(b, j, i)'
  <2>1. calls'[j] = calls[j] /\ calls[j].node \in Nodes
    BY <1>7, <1>12, <1>14
  <2>2. calls[j].node # n \/ i # s
    BY <1>11, <1>14
  <2>3. e.acc[calls[j].node][i] = agg[b].acc[calls[j].node][i]
    BY <1>3, <1>14, <2>1, <2>2
  <2>4. \A g : Follows(b, g, calls[j].node, i) => Follows(b, g, calls[j].node, i)' /\ g \in Waiting(b)'
    <3>1. \A g : Follows(b, g, calls[j].node, i) => Follows(b, g, calls[j].node, i)'
      BY <1>9, <2>1, <2>2
    <3>2. \A g : Follows(b, g, calls[j].node, i)' => g \in Waiting(b)'
      BY DEF Follows
    <3> QED
      BY <3>1, <3>2
  <2>5. Complete(b, j, i) => Complete(b, j, i)'
    BY <1>1, <2>1, <2>3, <2>4 DEF Complete
  <2> QED
    BY <2>3, <2>5
<1>15. ASSUME NEW j \in DOMAIN calls', Taken(b, j)'
       PROVE  /\ DOMAIN agg'[b].acc[calls'[j].node] = DOMAIN calls'[j].requests
              /\ \A i \in DOMAIN calls'[j].requests :
                   IF LookedAt(b, j, i)' THEN Complete(b, j, i)'
                   ELSE agg'[b].acc[calls'[j].node][i] = calls'[j].got[i]
  <2>1. Taken(b, j) /\ j \in DOMAIN calls /\ calls'[j] = calls[j]
    BY <1>6, <1>7, <1>15
  <2>2. /\ DOMAIN agg[b].acc[calls[j].node] = DOMAIN calls[j].requests
        /\ \A i \in DOMAIN calls[j].requests :
             IF LookedAt(b, j, i) THEN Complete(b, j, i)
             ELSE agg[b].acc[calls[j].node][i] = calls[j].got[i]
    BY <1>5, <2>1 DEF ContentInv
  <2>3. DOMAIN e.acc[calls[j].node] = DOMAIN calls[j].requests
    BY <1>3, <1>12, <2>1, <2>2
  <2>4. ASSUME NEW i \in DOMAIN calls[j].requests
        PROVE  IF LookedAt(b, j, i)' THEN Complete(b, j, i)'
               ELSE e.acc[calls[j].node][i] = calls[j].got[i]
    <3>1. CASE j = h /\ i = s
      BY <1>8, <1>13, <3>1
    <3>2. CASE ~(j = h /\ i = s)
      <4>1. LookedAt(b, j, i)' <=> LookedAt(b, j, i)
        BY <1>8, <3>2
      <4>2. /\ e.acc[calls[j].node][i] = agg[b].acc[calls[j].node][i]
            /\ Complete(b, j, i) => Complete(b, j, i)'
        BY <1>14, <2>1, <2>2, <3>2
      <4> QED
        BY <2>2, <4>1, <4>2
    <3> QED
      BY <3>1, <3>2
  <2> QED
    BY <1>1, <2>1, <2>3, <2>4
<1>16. ASSUME NEW j \in Waiting(b)', calls'[j].slot # 0
       PROVE  /\ \E g \in DOMAIN calls' :
                   /\ calls'[g].node = calls'[j].node /\ LookedAt(b, g, calls[j].slot)'
                   /\ calls'[j].requests =
                        <<[query |-> calls'[g].requests[calls'[j].slot].query,
                           from |-> agg'[b].acc[calls'[j].node][calls'[j].slot].max_id + 1]>>
              /\ \A g \in Waiting(b)' : Follows(b, g, calls[j].node, calls[j].slot)' => g = j
  <2>1. CASE j \in N
    <3>1. calls'[j].node = n /\ calls'[j].slot = s
          /\ calls'[j].requests = <<[query |-> q, from |-> m + 1]>> /\ N = {j}
      BY <1>2, <2>1
    <3>2. LookedAt(b, h, s)' /\ h \in DOMAIN calls' /\ calls'[h] = calls[h]
      BY <1>2, <1>5, <1>8
    <3>3. LookedAt(b, h, calls[j].slot)'
      BY <3>1, <3>2
    <3>4. \A g \in Waiting(b)' : Follows(b, g, n, s)' => g = j
      BY <1>10, <3>1
    <3>5. \A g \in Waiting(b)' : Follows(b, g, calls[j].node, calls[j].slot)' => g = j
      BY <3>1, <3>4
    <3>6. calls'[j].requests = <<[query |-> calls'[h].requests[calls'[j].slot].query,
                                  from |-> agg'[b].acc[calls'[j].node][calls'[j].slot].max_id + 1]>>
      BY <1>1, <1>3, <3>1, <3>2
    <3> QED
      BY <1>3, <3>1, <3>2, <3>3, <3>5, <3>6
  <2>2. CASE j \notin N
    <3>1. j \in W /\ j \in Waiting(b) /\ j \in DOMAIN calls /\ calls'[j] = calls[j]
      BY <1>1, <1>2, <1>5, <2>2
    <3>2. ~(calls[j].node = n /\ calls[j].slot = s)
      BY <1>4, <3>1 DEF Follows
    <3>3. PICK g \in DOMAIN calls :
            /\ calls[g].node = calls[j].node /\ LookedAt(b, g, calls[j].slot)
            /\ calls[j].requests = <<[query |-> calls[g].requests[calls[j].slot].query,
                                      from |-> agg[b].acc[calls[j].node][calls[j].slot].max_id + 1]>>
      BY <1>5, <1>16, <3>1 DEF ContentInv
    <3>4. \A f \in Waiting(b) : Follows(b, f, calls[j].node, calls[j].slot) => f = j
      BY <1>5, <1>16, <3>1 DEF ContentInv
    <3>5. /\ calls'[g] = calls[g] /\ Taken(b, g) /\ calls[j].slot \in DOMAIN calls[g].requests
          /\ g \in DOMAIN calls'
      BY <1>2, <3>3 DEF LookedAt
    <3>6. DOMAIN agg[b].acc[calls[g].node] = DOMAIN calls[g].requests
      BY <1>5, <3>3, <3>5 DEF ContentInv
    <3>7. e.acc[calls[j].node][calls[j].slot] = agg[b].acc[calls[j].node][calls[j].slot]
      <4>1. ~(g = h /\ calls[j].slot = s)
        BY <1>3, <3>2, <3>3
      <4>2. calls[j].slot \in DOMAIN agg[b].acc[calls[g].node]
        BY <3>5, <3>6
      <4>3. e.acc[calls[g].node][calls[j].slot] = agg[b].acc[calls[g].node][calls[j].slot]
        BY <1>14, <3>5, <4>1, <4>2, Zenon
      <4> QED
        BY <3>3, <4>3
    <3>8. LookedAt(b, g, calls[j].slot)'
      BY <1>8, <3>1, <3>3
    <3>9. \A f \in Waiting(b)' : Follows(b, f, calls[j].node, calls[j].slot)' => f = j
      <4>1. \A f : Follows(b, f, calls[j].node, calls[j].slot)' => Follows(b, f, calls[j].node, calls[j].slot)
        BY <1>9, <3>1, <3>2
      <4> QED
        BY <3>4, <4>1 DEF Follows
    <3>10. calls'[j].requests = <<[query |-> calls'[g].requests[calls'[j].slot].query,
                                   from |-> agg'[b].acc[calls'[j].node][calls'[j].slot].max_id + 1]>>
      BY <1>1, <3>1, <3>3, <3>5, <3>7
    <3> QED
      BY <3>1, <3>3, <3>5, <3>8, <3>9, <3>10
  <2> QED
    BY <2>1, <2>2
<1> QED
  BY <1>15, <1>16 DEF ContentInv

\* A step that goes on with the next page, or not, keeps the invariant.
LEMMA ContinueKeeps ==
  ASSUME IInv, NEW b \in 1..NumBatches, agg[b].pc = "running", NEW e \in AggRecord,
         NEW n \in Nodes, NEW s \in Nat \ {0}, NEW q, NEW m, NEW N \in SUBSET Nat,
         Continued(b, e, N, n, s, q, m),
         e.pc = "running", e.active = agg[b].active, e.done \subseteq agg[b].done,
         \A j \in agg[b].done \ e.done : calls[j].state = "done",
         e.at # 0 => e.at = agg[b].at /\ e.sub \in DOMAIN calls[e.at].requests,
         UNCHANGED <<args, registry, index, main, pool, faults>>,
         ~Overwritten(b) => \E h : Advances(b, h, e, n, s, q, m)
  PROVE  IInv'
<1> DEFINE a == [e EXCEPT !.active = e.active \cup N]
<1>1. agg' = [agg EXCEPT ![b] = a]
  BY DEF Continued
<1>2. /\ a \in AggRecord /\ a.pc = "running" /\ a.active = agg[b].active \cup N /\ a.done = e.done
      /\ a.at = e.at /\ a.sub = e.sub
  <2>1. e.active \cup N \in SUBSET Nat
    BY DEF AggRecord
  <2> QED
    BY <2>1 DEF AggRecord
<1> HIDE DEF a
<1>3. agg'[b] = a /\ AggInv(b)
  BY <1>1 DEF IInv, TypeInv
<1>4. /\ DOMAIN calls' = DOMAIN calls \cup N /\ N \cap DOMAIN calls = {}
      /\ \A j \in DOMAIN calls : calls'[j] = calls[j]
      /\ \A j \in N : calls'[j].batch = b
      /\ calls' \in Seq(CallRecord) /\ CallsSound'
  BY DEF Continued
<1>5. /\ Waiting(b)' = agg[b].active \cup e.done \cup N /\ Waiting(b) \subseteq DOMAIN calls
  BY <1>2, <1>3 DEF Waiting, AggInv
<1>6. AggInv(b)'
  <2>1. agg'[b].active \cap agg'[b].done = {}
    BY <1>2, <1>3, <1>4, <1>5 DEF AggInv, Waiting
  <2>2. \A j \in Waiting(b)' : j \in DOMAIN calls' /\ calls'[j].batch = b
    BY <1>3, <1>4, <1>5 DEF AggInv, Waiting
  <2>3. \A j \in agg'[b].done : Finished(j)'
    BY <1>2, <1>3, <1>4, <1>5 DEF AggInv, Finished, Waiting
  <2>4. \A j \in DOMAIN calls' : calls'[j].batch = b => j \in Waiting(b)' \/ calls'[j].state = "done"
    BY <1>3, <1>4, <1>5 DEF AggInv, Waiting
  <2>5. agg'[b].at # 0 =>
          /\ agg'[b].at \in DOMAIN calls' \ Waiting(b)'
          /\ calls'[agg'[b].at].batch = b /\ calls'[agg'[b].at].slot = 0
          /\ agg'[b].sub \in DOMAIN calls'[agg'[b].at].requests
    BY <1>2, <1>3, <1>4, <1>5 DEF AggInv, Waiting
  <2>6. agg'[b].pc = "running"
    BY <1>2, <1>3
  <2> QED
    BY <2>1, <2>2, <2>3, <2>4, <2>5, <2>6 DEF AggInv
<1>7. ASSUME ~Overwritten(b)'
      PROVE  ContentInv(b)'
  <2>1. ~Overwritten(b)
    BY <1>4, <1>7 DEF Overwritten
  <2>2. PICK h : Advances(b, h, e, n, s, q, m)
    BY <2>1
  <2>3. e.active \cup e.done \subseteq Waiting(b)
    BY DEF Waiting
  <2> QED
    BY <2>1, <2>2, <2>3, ContinueContent
<1>8. faults' \in Nat
  BY DEF IInv, TypeInv
<1>9. /\ DOMAIN calls \subseteq DOMAIN calls'
      /\ \A j \in DOMAIN calls : calls'[j].batch = calls[j].batch
      /\ \A j \in DOMAIN calls : calls[j].batch # b => calls'[j] = calls[j]
      /\ \A j \in DOMAIN calls' \ DOMAIN calls : calls'[j].batch = b
  BY <1>4
<1> QED
  BY <1>1, <1>2, <1>4, <1>6, <1>7, <1>8, <1>9, AggregatorKeeps

\* One of the first pages is looked at.
LEMMA LookAtKeeps ==
  ASSUME IInv, NEW b \in 1..NumBatches, LookAt(b)
  PROVE  IInv'
<1>0. PICK k, s : k = agg[b].at /\ s = agg[b].sub
  OBVIOUS
<1> DEFINE p == calls[k].got[s]
           r == calls[k].requests[s]
           n == calls[k].node
           last == s = Len(calls[k].got)
           at == IF last THEN 0 ELSE k
           sub == IF last THEN 0 ELSE s + 1
           e == [agg[b] EXCEPT !.at = at, !.sub = sub]
<1>1. /\ agg \in [1..NumBatches -> AggRecord] /\ agg[b] \in AggRecord /\ AggInv(b)
      /\ k \in Nat \ {0} /\ s \in Nat /\ agg[b].acc \in [Nodes -> Seq(Resp)]
  BY <1>0, Parts DEF IInv, TypeInv, LookAt
<1>2. /\ k \in DOMAIN calls /\ calls[k].batch = b /\ calls[k].slot = 0 /\ calls[k].state = "done"
      /\ s \in DOMAIN calls[k].requests /\ agg[b].pc = "running" /\ Taken(b, k)
  <2>1. agg[b].pc = "running"
    BY <1>0, <1>1, Parts DEF AggInv, IInv
  <2>2. /\ k \in DOMAIN calls \ Waiting(b) /\ calls[k].batch = b /\ calls[k].slot = 0
        /\ s \in DOMAIN calls[k].requests
    BY <1>0, <1>1 DEF AggInv
  <2>3. calls[k].state = "done"
    BY <1>1, <2>1, <2>2 DEF AggInv
  <2> QED
    BY <2>1, <2>2, <2>3 DEF Taken
<1>3. /\ calls[k] \in CallRecord /\ Sound(calls[k]) /\ n \in Nodes /\ r \in Req
      /\ DOMAIN calls[k].requests = 1..Len(calls[k].got) /\ Len(calls[k].got) \in Nat
      /\ Answers(p, r) /\ r.from = 1
  <2>1. calls[k] \in CallRecord /\ Sound(calls[k])
    BY <1>2, Parts DEF IInv, CallsSound
  <2>2. n \in Nodes /\ calls[k].got \in Seq(Resp) /\ calls[k].requests \in Seq(Req)
    BY <2>1, CallFields
  <2>3. Len(calls[k].got) = Len(calls[k].requests) /\ Answers(p, r) /\ r.from = 1
    BY <1>2, <2>1 DEF Sound
  <2>4. DOMAIN calls[k].requests = 1..Len(calls[k].got) /\ Len(calls[k].got) \in Nat
    BY <2>2, <2>3, LenProperties
  <2>5. r \in Req
    BY <1>2, <2>2, <2>3, <2>4, ElementOfSeq
  <2> QED
    BY <2>1, <2>2, <2>3, <2>4, <2>5
<1>4. /\ p \in Resp /\ p.req = r /\ r.query \in Int
      /\ (p.records = {} /\ p.limit) \/ Page(p, r)
  <2>1. r.query \in Int
    BY <1>3 DEF Req
  <2> HIDE DEF p, r
  <2> QED
    BY <1>3, <2>1, AnswerFields
<1>5. CASE p.limit /\ (p.records = {} \/ p.max_id < r.from)
  <2>1. Raise(b)
    BY <1>0, <1>5 DEF LookAt
  <2>2. UNCHANGED <<args, registry, index, main, pool, faults>>
    BY DEF LookAt
  <2> QED
    BY <1>2, <2>1, <2>2, RaiseKeeps
<1>6. CASE ~(p.limit /\ (p.records = {} \/ p.max_id < r.from))
  <2>1. Page(p, r) /\ (p.limit \/ p.max_id = Width)
    BY <1>4, <1>6 DEF Page
  <2>2. Continue(b, e, p, n, s, r.query) /\ UNCHANGED <<args, registry, index, main, pool, faults>>
    BY <1>0, <1>6 DEF LookAt
  <2>3. s \in Nat \ {0} /\ s \in 1..Len(calls[k].got)
    BY <1>2, <1>3
  <2> HIDE DEF p, r, n
  <2>4. at \in Nat /\ sub \in Nat
    BY <1>1
  <2>5. (at # 0 => at = k /\ sub \in DOMAIN calls[k].requests /\ sub = s + 1) /\ (at = 0 => last)
    BY <1>1, <1>3, <2>3
  <2> HIDE DEF at, sub
  <2>6. /\ e \in AggRecord /\ e.pc = "running" /\ e.active = agg[b].active /\ e.done = agg[b].done
        /\ e.at = at /\ e.sub = sub /\ e.acc = agg[b].acc
    BY <1>1, <1>2, <2>4 DEF AggRecord
  <2> HIDE DEF e
  <2>7. PICK N \in SUBSET Nat : Continued(b, e, N, n, s, r.query, p.max_id)
    BY <1>3, <1>4, <2>1, <2>2, <2>3, <2>6, ContinueCalls
  <2>8. ASSUME ~Overwritten(b)
        PROVE  Advances(b, k, e, n, s, r.query, p.max_id)
    <3>1. ContentInv(b)
      BY <1>2, <2>8 DEF IInv
    <3>2. ~LookedAt(b, k, s)
      BY <1>0, <1>1 DEF LookedAt
    <3>3. agg[b].acc[n][s] = p
      BY <1>2, <3>1, <3>2 DEF ContentInv, n, p
    <3>4. p.records = {r.query} \X (1..p.max_id)
      BY <1>3, <2>1 DEF Page
    <3>5. \A j \in Waiting(b) : ~Follows(b, j, n, s)
      <4> SUFFICES ASSUME NEW j \in Waiting(b), Follows(b, j, n, s) PROVE FALSE
        OBVIOUS
      <4>1. PICK h \in DOMAIN calls : calls[h].node = calls[j].node /\ LookedAt(b, h, calls[j].slot)
        BY <2>3, <3>1 DEF ContentInv, Follows
      <4>2. calls[h].node = n /\ LookedAt(b, h, s) /\ h # k /\ Taken(b, h)
        BY <3>2, <4>1 DEF Follows, LookedAt
      <4> QED
        BY <1>2, <2>8, <4>2, TakenOnce DEF n
    <3>6. \A j \in Waiting(b) : Follows(b, j, n, s) <=> j \notin e.active \cup e.done
      BY <2>6, <3>5 DEF Waiting
    <3>7. ASSUME NEW j, Taken(b, j), NEW i \in DOMAIN calls[j].requests
          PROVE  (e.at = j => i < e.sub) <=> (agg[b].at = j => i < agg[b].sub) \/ (j = k /\ i = s)
      <4>1. CASE j # k
        <5>1. j # 0
          BY <3>7, Parts DEF IInv, Taken
        <5> QED
          BY <1>0, <2>5, <2>6, <4>1, <5>1
      <4>2. CASE j = k
        <5>1. i \in 1..Len(calls[k].got)
          BY <1>3, <3>7, <4>2
        <5>2. CASE at # 0
          BY <1>0, <1>1, <2>5, <2>6, <4>2, <5>1, <5>2
        <5>3. CASE at = 0
          BY <1>0, <1>1, <1>3, <2>3, <2>5, <2>6, <4>2, <5>1, <5>3
        <5> QED
          BY <5>2, <5>3
      <4> QED
        BY <4>1, <4>2
    <3> QED
      BY <1>2, <1>4, <2>6, <3>3, <3>4, <3>6, <3>7 DEF Advances, n, r
  <2>9. e.at # 0 => e.at = agg[b].at /\ e.sub \in DOMAIN calls[e.at].requests
    BY <1>0, <2>5, <2>6
  <2>10. agg[b].done \ e.done = {} /\ e.done \subseteq agg[b].done
    BY <2>6
  <2> QED
    BY <1>2, <1>3, <2>2, <2>3, <2>6, <2>7, <2>8, <2>9, <2>10, ContinueKeeps
<1> QED
  BY <1>5, <1>6

\* What follows the records up to from - 1 makes them the records up to max_id.
LEMMA JoinedRecords ==
  ASSUME NEW old \in Resp, NEW p \in Resp, NEW r \in Req, Page(p, r),
         r.from = old.max_id + 1, old.records = {r.query} \X (1..old.max_id)
  PROVE  /\ Joined(old, p).req = old.req /\ Joined(old, p).max_id = p.max_id
         /\ Joined(old, p).records = {r.query} \X (1..p.max_id)
<1> DEFINE m == old.max_id
           l == p.max_id
<1>1. m \in Int /\ m >= 1 /\ l \in Int /\ l >= m + 1
  BY BatchConstants DEF Resp, Page
<1>2. (1..m) \cup ((m + 1)..l) = 1..l
  BY <1>1
<1>3. /\ Joined(old, p).req = old.req /\ Joined(old, p).max_id = l
      /\ Joined(old, p).records = old.records \cup p.records
  BY DEF Joined, Resp
<1>4. old.records \cup p.records = ({r.query} \X (1..m)) \cup ({r.query} \X ((m + 1)..l))
  BY DEF Page
<1> HIDE DEF m, l
<1>5. ({r.query} \X (1..m)) \cup ({r.query} \X ((m + 1)..l)) = {r.query} \X (1..l)
  BY <1>2, Zenon
<1> QED
  BY <1>3, <1>4, <1>5 DEF l

\* A page is added to an answer: what the result is.
LEMMA JoinedType ==
  ASSUME NEW old \in Resp, NEW p \in Resp
  PROVE  Joined(old, p) \in Resp
BY DEF Joined, Resp

\* A further page is taken.
LEMMA TakePageKeeps ==
  ASSUME IInv, NEW b \in 1..NumBatches, NEW k \in agg[b].done, TakePage(b, k)
  PROVE  IInv'
<1>0. PICK s, n : s = calls[k].slot /\ n = calls[k].node
  OBVIOUS
<1> DEFINE p == calls[k].got[1]
           r == calls[k].requests[1]
           answers == agg[b].acc[n]
           J == Joined(answers[s], p)
           ans == [answers EXCEPT ![s] = J]
           acc == [agg[b].acc EXCEPT ![n] = ans]
           done == agg[b].done \ {k}
           e == [agg[b] EXCEPT !.done = done, !.acc = acc]
<1>1. /\ agg \in [1..NumBatches -> AggRecord] /\ agg[b] \in AggRecord /\ AggInv(b)
      /\ agg[b].acc \in [Nodes -> Seq(Resp)] /\ agg[b].done \in SUBSET Nat
      /\ agg[b].active \in SUBSET Nat
  BY Parts DEF IInv, TypeInv
<1>2. /\ k \in DOMAIN calls /\ calls[k].batch = b /\ agg[b].at = 0 /\ s # 0
      /\ calls[k].state = "done" /\ agg[b].pc = "running" /\ k \in Waiting(b)
  <2>1. k \in DOMAIN calls /\ calls[k].batch = b /\ agg[b].pc = "running" /\ k \in Waiting(b)
    BY <1>1 DEF AggInv, Waiting
  <2> QED
    BY <1>0, <2>1 DEF TakePage
<1>3. /\ n \in Nodes /\ s \in Nat \ {0} /\ r \in Req /\ Answers(p, r)
  <2>1. calls[k] \in CallRecord /\ Sound(calls[k])
    BY <1>2, Parts DEF IInv, CallsSound
  <2>2. calls[k].node \in Nodes /\ calls[k].slot \in Nat /\ calls[k].requests \in Seq(Req)
    BY <2>1, CallFields
  <2>3. Len(calls[k].requests) = 1
    BY <1>0, <1>2, <2>1 DEF Sound
  <2>4. 1 \in DOMAIN calls[k].requests /\ r \in Req
    <3>1. 1 \in 1..Len(calls[k].requests) /\ DOMAIN calls[k].requests = 1..Len(calls[k].requests)
      BY <2>2, <2>3, LenProperties
    <3>2. r \in Req
      BY <2>2, <3>1, ElementOfSeq
    <3> QED
      BY <3>1, <3>2
  <2>5. Answers(p, r)
    BY <1>2, <2>1, <2>4 DEF Sound
  <2> QED
    BY <1>0, <1>2, <2>2, <2>4, <2>5
<1>4. /\ p \in Resp /\ p.req = r /\ r.query \in Int
      /\ (p.records = {} /\ p.limit) \/ Page(p, r)
  <2>1. r.query \in Int
    BY <1>3 DEF Req
  <2> HIDE DEF p, r
  <2> QED
    BY <1>3, <2>1, AnswerFields
<1> DEFINE bad == \/ p.limit /\ p.records = {}
                  \/ s > Len(answers)
                  \/ p.limit /\ p.max_id < answers[s].max_id
<1>5. CASE bad
  <2>1. Raise(b)
    BY <1>0, <1>5 DEF TakePage
  <2>2. UNCHANGED <<args, registry, index, main, pool, faults>>
    BY DEF TakePage
  <2> QED
    BY <1>2, <2>1, <2>2, RaiseKeeps
<1>6. CASE ~bad
  <2>1. Page(p, r) /\ (p.limit \/ p.max_id = Width)
    BY <1>4, <1>6 DEF Page
  <2>2. UNCHANGED <<args, registry, index, main, pool, faults>>
    BY DEF TakePage
  <2>3. answers \in Seq(Resp) /\ s \in 1..Len(answers) /\ DOMAIN answers = 1..Len(answers)
    <3>1. answers \in Seq(Resp) /\ ~(s > Len(answers))
      BY <1>1, <1>3, <1>6
    <3> HIDE DEF answers
    <3>2. DOMAIN answers = 1..Len(answers) /\ Len(answers) \in Nat
      BY <3>1, LenProperties
    <3> QED
      BY <1>3, <3>1, <3>2
  <2>4. Continue(b, e, p, n, s, r.query)
    <3>1. Continue(b, [agg[b] EXCEPT !.done = done, !.acc[n][s] = J], p, n, s, r.query)
      BY <1>0, <1>6 DEF TakePage
    <3> HIDE DEF J, done, p, r, bad
    <3>2. [agg[b] EXCEPT !.done = done, !.acc[n][s] = J] = e
      BY <1>1, <1>3 DEF AggRecord
    <3> HIDE DEF e
    <3> QED
      BY <3>1, <3>2
  <2>5. answers[s] \in Resp
    <3> HIDE DEF answers
    <3> QED
      BY <2>3, ElementOfSeq
  <2> HIDE DEF p, r, answers, bad
  <2>6. J \in Resp
    BY <1>4, <2>5, JoinedType
  <2> HIDE DEF J
  <2>7. /\ ans \in Seq(Resp) /\ DOMAIN ans = DOMAIN answers /\ ans[s] = J
        /\ \A i \in DOMAIN answers : i # s => ans[i] = answers[i]
    BY <2>3, <2>6, ExceptSeq
  <2> HIDE DEF ans
  <2>8. /\ acc \in [Nodes -> Seq(Resp)] /\ acc[n] = ans
        /\ \A d \in Nodes : d # n => acc[d] = agg[b].acc[d]
    BY <1>1, <1>3, <2>7
  <2> HIDE DEF acc
  <2>9. done \in SUBSET Nat
    BY <1>1
  <2>10. /\ e \in AggRecord /\ e.pc = "running" /\ e.active = agg[b].active
         /\ e.done = agg[b].done \ {k} /\ e.at = 0 /\ e.acc = acc
    BY <1>1, <1>2, <2>8, <2>9 DEF AggRecord
  <2> HIDE DEF e, done
  <2>11. PICK N \in SUBSET Nat : Continued(b, e, N, n, s, r.query, p.max_id)
    BY <1>3, <1>4, <2>1, <2>2, <2>4, <2>10, ContinueCalls
  <2>12. ASSUME ~Overwritten(b)
         PROVE  \E h : Advances(b, h, e, n, s, r.query, p.max_id)
    <3>1. ContentInv(b)
      BY <1>2, <2>12 DEF IInv
    <3>2. PICK h \in DOMAIN calls :
            /\ calls[h].node = calls[k].node /\ LookedAt(b, h, calls[k].slot)
            /\ calls[k].requests = <<[query |-> calls[h].requests[calls[k].slot].query,
                                      from |-> agg[b].acc[calls[k].node][calls[k].slot].max_id + 1]>>
      BY <1>0, <1>2, <3>1 DEF ContentInv
    <3>3. /\ calls[h].node = n /\ LookedAt(b, h, s) /\ Taken(b, h) /\ s \in DOMAIN calls[h].requests
          /\ r.query = calls[h].requests[s].query /\ r.from = answers[s].max_id + 1
      <4>1. /\ calls[h].node = n /\ LookedAt(b, h, s)
            /\ calls[k].requests = <<[query |-> calls[h].requests[s].query,
                                      from |-> answers[s].max_id + 1]>>
        BY <1>0, <3>2 DEF answers
      <4>2. Taken(b, h) /\ s \in DOMAIN calls[h].requests
        BY <4>1, Zenon DEF LookedAt
      <4>3. r = [query |-> calls[h].requests[s].query, from |-> answers[s].max_id + 1]
        BY <4>1 DEF r
      <4> QED
        BY <4>1, <4>2, <4>3
    <3>4. Complete(b, h, s)
      BY <3>1, <3>2, <3>3 DEF ContentInv
    <3>5. answers[s].req = calls[h].requests[s] /\ answers[s].records = {r.query} \X (1..answers[s].max_id)
      BY <3>3, <3>4 DEF Complete, answers
    <3>6. J.req = calls[h].requests[s] /\ J.max_id = p.max_id /\ J.records = {r.query} \X (1..p.max_id)
      BY <1>3, <1>4, <2>1, <2>5, <3>3, <3>5, JoinedRecords DEF J
    <3>7. \A j \in Waiting(b) : Follows(b, j, n, s) <=> j \notin e.active \cup e.done
      <4>1. \A j \in Waiting(b) : Follows(b, j, n, s) <=> j = k
        BY <1>0, <1>2, <3>1 DEF ContentInv, Follows
      <4>2. \A j \in Waiting(b) : j \notin e.active \cup e.done <=> j = k
        BY <1>1, <2>10 DEF Waiting, AggInv
      <4> QED
        BY <4>1, <4>2
    <3>8. ASSUME NEW j, Taken(b, j)
          PROVE  e.at # j /\ agg[b].at # j
      <4>1. j # 0
        BY <3>8, Parts DEF IInv, Taken
      <4> QED
        BY <1>2, <2>10, <4>1
    <3>9. Advances(b, h, e, n, s, r.query, p.max_id)
      BY <2>7, <2>8, <2>10, <3>3, <3>6, <3>7, <3>8 DEF Advances, answers
    <3> QED
      BY <3>9
  <2>13. e.done \subseteq agg[b].done /\ \A j \in agg[b].done \ e.done : calls[j].state = "done"
    BY <1>2, <2>10
  <2> QED
    BY <1>2, <1>3, <2>2, <2>10, <2>11, <2>12, <2>13, ContinueKeeps
<1> QED
  BY <1>5, <1>6

---------------------------------------------------------------------------
(* The theorems.                                                           *)

\* There is a batch to read.
LEMMA FirstBatch ==
  ASSUME NEW r \in Nat \ {0}, NEW n \in Nat \ {0}
  PROVE  (r + n - 1) \div n >= 1 /\ (r + n - 1) \div n \in Int
OBVIOUS

\* The invariant holds at the start.
LEMMA BatchInit == Init => IInv
<1> SUFFICES ASSUME Init PROVE IInv
  OBVIOUS
<1>1. /\ args \in Args /\ registry \in Nodes \cup {NoNode} /\ index = 0
      /\ main = [pc |-> "read", batch |-> 1, futures |-> {}]
      /\ calls = <<>> /\ pool = [n \in Nodes |-> <<>>]
      /\ agg = [b \in 1..NumBatches |-> NoAggregator] /\ faults = 0
  BY DEF Init
<1>2. NumBatches \in Int /\ NumBatches >= 1
  <2>1. args.requests \in Nat \ {0} /\ args.batch_size \in Nat \ {0}
    BY <1>1, BatchConstants
  <2>2. PICK r \in Nat \ {0}, n \in Nat \ {0} : r = args.requests /\ n = args.batch_size
    BY <2>1
  <2> QED
    BY <2>2, FirstBatch DEF NumBatches
<1>3. /\ <<>> \in Seq(CallRecord) /\ <<>> \in Seq(Sock) /\ <<>> \in Seq(Resp)
      /\ DOMAIN <<>> = {}
  <2>1. DOMAIN <<>> = 1..0
    BY EmptySeq, LenProperties
  <2> QED
    BY <2>1, EmptySeq
<1>4. NoAggregator \in AggRecord
  BY <1>3 DEF NoAggregator, AggRecord
<1>5. \A b \in 1..NumBatches :
        /\ agg[b] = NoAggregator /\ agg[b].pc = "none" /\ agg[b].active = {} /\ agg[b].done = {}
        /\ agg[b].at = 0
  BY <1>1 DEF NoAggregator
<1>6. TypeInv
  BY <1>1, <1>3, <1>4, <1>5 DEF TypeInv
<1>7. CallsSound /\ PoolClean
  BY <1>1, <1>3 DEF CallsSound, PoolClean
<1>8. MainInv
  BY <1>1, <1>2, <1>5 DEF MainInv
<1>9. ClosedAtEnd
  BY <1>1 DEF ClosedAtEnd
<1>10. \A b \in 1..NumBatches : AggInv(b)
  BY <1>1, <1>3, <1>5 DEF AggInv, Waiting
<1> QED
  BY <1>5, <1>6, <1>7, <1>8, <1>9, <1>10 DEF IInv

\* Every step keeps it.
LEMMA BatchStep == IInv /\ [Next]_vars => IInv'
<1> SUFFICES ASSUME IInv, [Next]_vars PROVE IInv'
  OBVIOUS
<1>1. CASE ReadBatch
  BY <1>1, ReadBatchKeeps
<1>2. CASE Throttle
  BY <1>2, ThrottleKeeps
<1>3. CASE Disconnect
  BY <1>3, DisconnectKeeps
<1>4. ASSUME NEW k \in DOMAIN calls, Start(k) PROVE IInv'
  BY <1>4, StartKeeps
<1>5. ASSUME NEW k \in DOMAIN calls, Connect(k) PROVE IInv'
  BY <1>5, ConnectKeeps
<1>6. ASSUME NEW k \in DOMAIN calls, CallFails(k) PROVE IInv'
  BY <1>6, CallFailsKeeps
<1>7. ASSUME NEW k \in DOMAIN calls, NEW r \in calls[k].sock.owed,
             NEW response \in Pages(r) \cup {Saturated(r)}, Receive(k, r, response)
      PROVE  IInv'
  BY <1>7, ReceiveKeeps
<1>8. ASSUME NEW b \in 1..NumBatches, Wait(b) PROVE IInv'
  BY <1>8, WaitKeeps
<1>9. ASSUME NEW b \in 1..NumBatches, LookAt(b) PROVE IInv'
  BY <1>9, LookAtKeeps
<1>10. ASSUME NEW b \in 1..NumBatches, Return(b) PROVE IInv'
  BY <1>10, ReturnKeeps
<1>11. ASSUME NEW b \in 1..NumBatches, NEW k \in agg[b].done, TakeFailed(b, k) PROVE IInv'
  <2>1. agg[b].pc = "running"
    BY DEF IInv, AggInv, Waiting
  <2> QED
    BY <1>11, <2>1, RaiseKeeps DEF TakeFailed
<1>12. ASSUME NEW b \in 1..NumBatches, NEW k \in agg[b].done, TakeFirst(b, k) PROVE IInv'
  BY <1>12, TakeFirstKeeps
<1>13. ASSUME NEW b \in 1..NumBatches, NEW k \in agg[b].done, TakePage(b, k) PROVE IInv'
  BY <1>13, TakePageKeeps
<1>14. ASSUME NEW n \in Nodes, NEW i \in DOMAIN pool[n], ServerCloses(n, i) PROVE IInv'
  BY <1>14, ServerClosesKeeps
<1>15. CASE UNCHANGED vars
  <2>1. /\ args' = args /\ registry' = registry /\ index' = index /\ main' = main
        /\ calls' = calls /\ pool' = pool /\ agg' = agg /\ faults' = faults
    BY <1>15 DEF vars
  <2>2. NumBatches' = NumBatches /\ CallRecord' = CallRecord
    BY <2>1, SameBatches
  <2>3. TypeInv' /\ CallsSound' /\ PoolClean' /\ MainInv' /\ ClosedAtEnd'
    BY <2>1, <2>2 DEF IInv, TypeInv, CallsSound, PoolClean, MainInv, ClosedAtEnd, Running, Outlived
  <2>4. \A b : SameBatch(b)
    BY <2>1 DEF SameBatch
  <2> QED
    BY <2>2, <2>3, <2>4, Elsewhere DEF IInv
<1>16. CASE ProgramStep
  <2>1. CASE \E k \in DOMAIN calls :
               \/ Start(k) \/ Connect(k) \/ CallFails(k)
               \/ \E r \in calls[k].sock.owed :
                    \E response \in Pages(r) \cup {Saturated(r)} : Receive(k, r, response)
    BY <1>4, <1>5, <1>6, <1>7, <2>1
  <2>2. CASE \E b \in 1..NumBatches :
               \/ Wait(b) \/ LookAt(b) \/ Return(b)
               \/ \E k \in agg[b].done : TakeFailed(b, k) \/ TakeFirst(b, k) \/ TakePage(b, k)
    BY <1>8, <1>9, <1>10, <1>11, <1>12, <1>13, <2>2
  <2> QED
    BY <1>1, <1>2, <1>3, <1>16, <2>1, <2>2 DEF ProgramStep
<1> QED
  BY <1>14, <1>15, <1>16 DEF Next

\* The invariant holds always.
LEMMA BatchInvariant == Spec => []IInv
BY BatchInit, BatchStep, PTL DEF Spec

\* A call never reads an answer to a request it did not send: the sockets that
\* _return_socket puts back have nothing left to read, and those of a failed
\* attempt are closed.
THEOREM AnswersAreItsOwn == Spec => []NoDesync
<1>1. IInv => NoDesync
  <2> SUFFICES ASSUME IInv, NEW k \in DOMAIN calls, calls[k].state \in {"connect", "recv"}
               PROVE  calls[k].sock.owed \subseteq ToSet(calls[k].requests)
    BY DEF NoDesync, Running
  <2>1. Sound(calls[k])
    BY DEF IInv, CallsSound
  <2>2. CASE calls[k].state = "connect"
    BY <2>1, <2>2 DEF Sound, Fresh
  <2>3. CASE calls[k].state = "recv"
    BY <2>1, <2>3 DEF Sound
  <2> QED
    BY <2>2, <2>3
<1> QED
  BY <1>1, BatchInvariant, PTL

\* A batch that read_batch returns is complete: whatever was cut short was asked
\* for again, page after page, and added to the answer it continues.
THEOREM BatchesAreComplete == Spec => []ReturnsAllUnlessOverwritten
<1>1. IInv => ReturnsAllUnlessOverwritten
  <2> SUFFICES ASSUME IInv, NEW b \in 1..NumBatches, agg[b].pc = "returned", ~Overwritten(b),
                      NEW k \in DOMAIN calls, calls[k].batch = b, calls[k].slot = 0,
                      NEW i \in DOMAIN calls[k].requests
               PROVE  LET r == calls[k].requests[i]
                          p == agg[b].acc[calls[k].node][i]
                      IN  p.req = r /\ p.records = {r.query} \X (1..Width)
    BY DEF ReturnsAllUnlessOverwritten
  <2>1. AggInv(b) /\ ContentInv(b)
    BY DEF IInv
  <2>2. Waiting(b) = {} /\ agg[b].at = 0
    BY <2>1 DEF AggInv
  <2>3. k # 0
    BY Parts DEF IInv
  <2>4. Taken(b, k) /\ LookedAt(b, k, i)
    BY <2>2, <2>3 DEF Taken, LookedAt
  <2>5. Complete(b, k, i)
    BY <2>1, <2>4 DEF ContentInv
  <2> QED
    BY <2>2, <2>5 DEF Complete
<1> QED
  BY <1>1, BatchInvariant, PTL

\* After disconnect only calls of batches that raised are under way, and only their
\* sockets, at most one for each, are still open: the aggregators of the other batches
\* wait for every call, and disconnect closes what those left in the pool.
THEOREM NothingIsLeftOpen == Spec => []ClosedAtEnd
<1>1. IInv => ClosedAtEnd
  BY DEF IInv
<1> QED
  BY <1>1, BatchInvariant, PTL

====
