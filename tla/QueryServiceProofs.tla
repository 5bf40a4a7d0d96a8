------------------------ MODULE QueryServiceProofs ------------------------
(***************************************************************************)
(* Proofs about the query port.  A callback works on a record (Loop) in    *)
(* several calls; Sound says of such a record, at any point of a callback, *)
(* what the invariants say of the states between callbacks.                *)
(***************************************************************************)
EXTENDS QueryService, FiniteSetTheorems, SequenceTheorems, WellFoundedInduction, TLAPS

---------------------------------------------------------------------------
(* The invariant.                                                          *)

LoopState == [client : [Clients -> Client], list : Seq(Clients),
              active : 0..MaxQueries, tasks : SUBSET Task]

One(P) == IF P THEN 1 ELSE 0

TasksOf(T, c) == {t \in T : t.req[1] = c}

Open(s, c) == s.client[c].handle = "open"

\* The list holds the open clients, each once.
Listing(s) ==
  /\ \A i, j \in 1..Len(s.list) : s.list[i] = s.list[j] => i = j
  /\ \A c \in Clients : Open(s, c) <=> \E i \in 1..Len(s.list) : s.list[i] = c

\* A request is in progress or its response is being written, not both, and it
\* was taken from the buffer.
Numbered(s, W) ==
  /\ \A t \in s.tasks : t.req[2] <= s.client[t.req[1]].taken
  /\ \A t, u \in s.tasks : t.req = u.req => t = u
  /\ \A w \in W : w[2] <= s.client[w[1]].taken
  /\ \A t \in s.tasks : t.req \notin W

\* Only requests that have arrived are taken, and they are within the bound.
Buffered(s) ==
  \A c \in Clients :
    /\ s.client[c].received <= MaxRequests * ReqSize
    /\ s.client[c].taken <= s.client[c].received \div ReqSize
    /\ s.client[c].handle = "none" =>
         /\ s.client[c].received = 0 /\ s.client[c].taken = 0
         /\ ~s.client[c].is_paused

\* h[c] is the number of references to c that the running callback holds.
Counted(s, W, h) ==
  /\ s.active = Cardinality(s.tasks)
  /\ \A c \in Clients :
       s.client[c].ref_count = One(s.client[c].handle \in {"open", "closing"})
                               + Cardinality(TasksOf(s.tasks, c))
                               + Cardinality(Of(c, W)) + h[c]

Sound(s, W, h) ==
  /\ s \in LoopState /\ IsFiniteSet(s.tasks)
  /\ W \subseteq Request /\ IsFiniteSet(W)
  /\ Listing(s) /\ Numbered(s, W) /\ Buffered(s) /\ Counted(s, W, h)

\* c leaves no complete request in its buffer, unless it is paused.
Drained(s, c) == Open(s, c) /\ ~s.client[c].is_paused => Waiting(s.client, c) = 0

\* c is paused only while no more queries may run.
PausedFull(s, c) == Open(s, c) /\ s.client[c].is_paused => s.active = MaxQueries

Resting == [c \in Clients |-> 0]

QueryInv ==
  /\ Sound(Loop, writes, Resting)
  /\ \A c \in Clients : Drained(Loop, c) /\ PausedFull(Loop, c)
  /\ answered \cup dropped \subseteq Request
  /\ listening \in BOOLEAN

---------------------------------------------------------------------------
(* Lemmas about the operators of the model.                                *)

\* How many requests a number of fragments completes.
LEMMA Complete ==
  /\ \A a \in Nat : a \div ReqSize \in Nat
  /\ \A a, b \in Nat : a <= b => a \div ReqSize <= b \div ReqSize
  /\ \A a, m \in Nat : a <= m * ReqSize => a \div ReqSize <= m
<1>1. ReqSize \in Nat /\ ReqSize > 0
  BY QueryConstants
<1>2. ASSUME NEW a \in Nat PROVE a \div ReqSize \in Nat
  BY <1>1
<1>3. ASSUME NEW a \in Nat, NEW b \in Nat, a <= b PROVE a \div ReqSize <= b \div ReqSize
  BY <1>1, <1>3
<1>4. ASSUME NEW a \in Nat, NEW m \in Nat, a <= m * ReqSize PROVE a \div ReqSize <= m
  BY <1>1, <1>4
<1> QED
  BY <1>2, <1>3, <1>4

\* The smaller of two numbers.
LEMMA MinOfTwo ==
  ASSUME NEW a \in Int, NEW b \in Int
  PROVE  Min({a, b}) = IF a <= b THEN a ELSE b
BY DEF Min

\* How many more queries may run.
LEMMA RoomLeft ==
  ASSUME NEW a \in 0..MaxQueries
  PROVE  Room(a) = MaxQueries - a
BY QueryConstants DEF Room

\* n numbered tasks are n tasks.
LEMMA NewTasks ==
  ASSUME NEW c, NEW first \in Nat, NEW n \in Nat
  PROVE  IsFiniteSet(Queued(c, first, n)) /\ Cardinality(Queued(c, first, n)) = n
<1> DEFINE T == Queued(c, first, n)
<1> DEFINE f == [i \in 1..n |-> [req |-> <<c, first + i>>, state |-> "queued"]]
<1>1. f \in [1..n -> T]
  BY DEF Queued
<1>2. \A i, j \in 1..n : f[i] = f[j] => i = j
  OBVIOUS
<1>3. \A t \in T : \E i \in 1..n : f[i] = t
  BY DEF Queued
<1>4. ExistsBijection(1..n, T)
  BY <1>1, <1>2, <1>3 DEF ExistsBijection, Bijection, Injection, Surjection, IsInjective
<1>5. IsFiniteSet(1..n) /\ Cardinality(1..n) = n
  BY FS_Interval
<1> QED
  BY <1>4, <1>5, FS_Bijection

\* remove_client takes exactly the client out of the list.
LEMMA Unlinked ==
  ASSUME NEW list \in Seq(Clients), NEW c,
         \A i, j \in 1..Len(list) : list[i] = list[j] => i = j
  PROVE  LET r == RemoveClient(list, c)
         IN  /\ r \in Seq(Clients)
             /\ \A i, j \in 1..Len(r) : r[i] = r[j] => i = j
             /\ \A d : (\E i \in 1..Len(r) : r[i] = d)
                       <=> d # c /\ \E i \in 1..Len(list) : list[i] = d
<1>0. /\ Len(list) \in Nat /\ DOMAIN list = 1..Len(list)
      /\ \A i \in 1..Len(list) : list[i] \in Clients
      /\ ToSet(list) = {list[i] : i \in 1..Len(list)}
  BY LenProperties, ElementOfSeq DEF ToSet
<1>1. CASE c \notin ToSet(list)
  BY <1>0, <1>1 DEF RemoveClient
<1>2. CASE c \in ToSet(list)
  <2> DEFINE k == CHOOSE i \in DOMAIN list : list[i] = c
  <2> DEFINE r == RemoveAt(list, k)
  <2>1. k \in 1..Len(list) /\ list[k] = c
    BY <1>0, <1>2
  <2>2. RemoveClient(list, c) = r
    BY <1>2 DEF RemoveClient
  <2> HIDE DEF k
  <2>3. /\ SubSeq(list, 1, k - 1) \in Seq(Clients) /\ Len(SubSeq(list, 1, k - 1)) = k - 1
        /\ \A i \in 1..(k - 1) : SubSeq(list, 1, k - 1)[i] = list[i]
    BY <1>0, <2>1, SubSeqProperties
  <2>4. /\ SubSeq(list, k + 1, Len(list)) \in Seq(Clients)
        /\ Len(SubSeq(list, k + 1, Len(list))) = Len(list) - k
        /\ \A i \in 1..(Len(list) - k) : SubSeq(list, k + 1, Len(list))[i] = list[k + i]
    <3> DEFINE m == k + 1
    <3>1. m \in Int /\ Len(list) \in Int /\ \A i \in m..Len(list) : list[i] \in Clients
      BY <1>0, <2>1
    <3> HIDE DEF m
    <3>2. /\ SubSeq(list, m, Len(list)) \in Seq(Clients)
          /\ Len(SubSeq(list, m, Len(list))) = IF m <= Len(list) THEN Len(list) - m + 1 ELSE 0
          /\ \A i \in 1..(Len(list) - m + 1) : SubSeq(list, m, Len(list))[i] = list[m + i - 1]
      BY <3>1, SubSeqProperties
    <3>3. k \in Int /\ k <= Len(list) /\ m = k + 1 /\ Len(list) \in Nat
      BY <1>0, <2>1 DEF m
    <3>4. Len(SubSeq(list, m, Len(list))) = Len(list) - k
      BY <3>2, <3>3
    <3>5. ASSUME NEW i \in 1..(Len(list) - k)
          PROVE  SubSeq(list, m, Len(list))[i] = list[k + i]
      <4>1. i \in 1..(Len(list) - m + 1) /\ m + i - 1 = k + i
        BY <3>3
      <4> QED
        BY <3>2, <4>1
    <3> QED
      BY <3>2, <3>4, <3>5 DEF m
  <2>5. /\ r \in Seq(Clients) /\ Len(r) = Len(list) - 1
        /\ \A i \in 1..(Len(list) - 1) : r[i] = IF i < k THEN list[i] ELSE list[i + 1]
    <3> DEFINE p == SubSeq(list, 1, k - 1)
    <3> DEFINE q == SubSeq(list, k + 1, Len(list))
    <3>1. r = p \o q
      BY DEF RemoveAt
    <3>2. /\ p \in Seq(Clients) /\ q \in Seq(Clients) /\ Len(p) = k - 1
          /\ Len(q) = Len(list) - k
          /\ \A i \in 1..(k - 1) : p[i] = list[i]
          /\ \A i \in 1..(Len(list) - k) : q[i] = list[k + i]
      BY <2>3, <2>4
    <3> HIDE DEF p, q, r
    <3>3. /\ p \o q \in Seq(Clients) /\ Len(p \o q) = Len(p) + Len(q)
          /\ \A i \in 1..(Len(p) + Len(q)) :
               (p \o q)[i] = IF i <= Len(p) THEN p[i] ELSE q[i - Len(p)]
      BY <3>2, ConcatProperties, ZenonT(30)
    <3>4. ASSUME NEW i \in 1..(Len(list) - 1)
          PROVE  r[i] = IF i < k THEN list[i] ELSE list[i + 1]
      <4>1. i \in 1..(Len(p) + Len(q))
        BY <1>0, <2>1, <3>2
      <4>2. CASE i < k
        BY <1>0, <2>1, <3>1, <3>2, <3>3, <4>1, <4>2
      <4>3. CASE ~(i < k)
        <5>1. i - Len(p) \in 1..(Len(list) - k) /\ k + (i - Len(p)) = i + 1
          BY <1>0, <2>1, <3>2, <4>3
        <5> QED
          BY <1>0, <2>1, <3>1, <3>2, <3>3, <4>1, <4>3, <5>1
      <4> QED
        BY <4>2, <4>3
    <3> QED
      BY <1>0, <2>1, <3>1, <3>2, <3>3, <3>4
  <2> HIDE DEF r
  <2>6. \A i, j \in 1..Len(r) : r[i] = r[j] => i = j
    BY <1>0, <2>1, <2>5
  <2>7. ASSUME NEW d, NEW i \in 1..Len(r), r[i] = d
        PROVE  d # c /\ \E j \in 1..Len(list) : list[j] = d
    BY <1>0, <2>1, <2>5, <2>7
  <2>8. ASSUME NEW d, d # c, NEW j \in 1..Len(list), list[j] = d
        PROVE  \E i \in 1..Len(r) : r[i] = d
    <3>1. CASE j < k
      BY <1>0, <2>1, <2>5, <2>8, <3>1
    <3>2. CASE j > k
      <4>1. j - 1 \in 1..Len(r) /\ r[j - 1] = list[j]
        BY <1>0, <2>1, <2>5, <3>2
      <4> QED
        BY <2>8, <4>1
    <3> QED
      BY <1>0, <2>1, <2>8, <3>1, <3>2
  <2> QED
    BY <2>2, <2>5, <2>6, <2>7, <2>8
<1> QED
  BY <1>1, <1>2

\* N are tasks of c that are not in T.
NewTasksOf(N, T, c) == \A t \in N : t \notin T /\ t.req[1] = c

\* U has the tasks of T, and n more of c.
MoreTasksOf(U, T, c, n) ==
  /\ IsFiniteSet(U)
  /\ Cardinality(U) = Cardinality(T) + n
  /\ Cardinality(TasksOf(U, c)) = Cardinality(TasksOf(T, c)) + n
  /\ \A d : d # c => TasksOf(U, d) = TasksOf(T, d)

\* Tasks are added: only those of their client become more.
LEMMA MoreTasks ==
  ASSUME NEW T, IsFiniteSet(T), NEW N, IsFiniteSet(N), NEW c, NewTasksOf(N, T, c)
  PROVE  MoreTasksOf(T \cup N, T, c, Cardinality(N))
<1>1. /\ Cardinality(T \cap N) = 0 /\ Cardinality(TasksOf(T, c) \cap N) = 0
      /\ Cardinality(N) \in Nat /\ Cardinality(T) \in Nat
  <2>1. T \cap N = {} /\ TasksOf(T, c) \cap N = {}
    BY DEF TasksOf, NewTasksOf
  <2>2. Cardinality(T \cap N) = 0 /\ Cardinality(TasksOf(T, c) \cap N) = 0
    BY <2>1, FS_EmptySet, Zenon
  <2> QED
    BY <2>2, FS_CardinalityType
<1>2. IsFiniteSet(T \cup N) /\ Cardinality(T \cup N) = Cardinality(T) + Cardinality(N)
  <2>1. /\ IsFiniteSet(T \cup N)
        /\ Cardinality(T \cup N) = Cardinality(T) + Cardinality(N) - Cardinality(T \cap N)
    BY FS_Union
  <2> QED
    BY <1>1, <2>1
<1>3. IsFiniteSet(TasksOf(T, c)) /\ Cardinality(TasksOf(T, c)) \in Nat
  BY FS_Subset, FS_CardinalityType DEF TasksOf
<1>4. Cardinality(TasksOf(T \cup N, c)) = Cardinality(TasksOf(T, c) \cup N)
  <2>1. TasksOf(T \cup N, c) = TasksOf(T, c) \cup N
    BY DEF TasksOf, NewTasksOf
  <2> QED
    BY <2>1
<1>5. Cardinality(TasksOf(T, c) \cup N) = Cardinality(TasksOf(T, c)) + Cardinality(N)
  <2>1. Cardinality(TasksOf(T, c) \cup N)
          = Cardinality(TasksOf(T, c)) + Cardinality(N) - Cardinality(TasksOf(T, c) \cap N)
    BY <1>3, FS_Union
  <2> QED
    BY <1>1, <1>3, <1>4, <2>1
<1>6. \A d : d # c => TasksOf(T \cup N, d) = TasksOf(T, d)
  BY DEF TasksOf, NewTasksOf
<1> QED
  BY <1>2, <1>4, <1>5, <1>6 DEF MoreTasksOf

\* A task ends.
LEMMA OneTaskLess ==
  ASSUME NEW T, IsFiniteSet(T), NEW t \in T
  PROVE  /\ IsFiniteSet(T \ {t}) /\ Cardinality(T \ {t}) = Cardinality(T) - 1
         /\ Cardinality(T) \in Nat /\ Cardinality(T) > 0
         /\ Cardinality(TasksOf(T \ {t}, t.req[1])) = Cardinality(TasksOf(T, t.req[1])) - 1
         /\ \A d : d # t.req[1] => TasksOf(T \ {t}, d) = TasksOf(T, d)
<1>1. IsFiniteSet(TasksOf(T, t.req[1]))
  BY FS_Subset DEF TasksOf
<1>2. /\ TasksOf(T \ {t}, t.req[1]) = TasksOf(T, t.req[1]) \ {t}
      /\ t \in TasksOf(T, t.req[1])
      /\ \A d : d # t.req[1] => TasksOf(T \ {t}, d) = TasksOf(T, d)
  BY DEF TasksOf
<1>3. Cardinality(T) \in Nat /\ Cardinality(T) # 0
  BY FS_CardinalityType, FS_EmptySet
<1>4. Cardinality(TasksOf(T \ {t}, t.req[1])) = Cardinality(TasksOf(T, t.req[1]) \ {t})
  BY <1>2
<1>5. /\ IsFiniteSet(T \ {t}) /\ Cardinality(T \ {t}) = Cardinality(T) - 1
      /\ Cardinality(TasksOf(T, t.req[1]) \ {t}) = Cardinality(TasksOf(T, t.req[1])) - 1
  <2>1. /\ IsFiniteSet(T \ {t})
        /\ Cardinality(T \ {t}) = IF t \in T THEN Cardinality(T) - 1 ELSE Cardinality(T)
    BY FS_RemoveElement
  <2>2. Cardinality(TasksOf(T, t.req[1]) \ {t})
          = IF t \in TasksOf(T, t.req[1]) THEN Cardinality(TasksOf(T, t.req[1])) - 1
            ELSE Cardinality(TasksOf(T, t.req[1]))
    BY <1>1, FS_RemoveElement
  <2> QED
    BY <1>2, <2>1, <2>2
<1> QED
  BY <1>2, <1>3, <1>4, <1>5

---------------------------------------------------------------------------
(* What the calls of a callback do.                                        *)

\* The fields of the event loop's state.
LEMMA Fields ==
  ASSUME NEW s \in LoopState
  PROVE  /\ s.client \in [Clients -> Client] /\ s.list \in Seq(Clients)
         /\ s.active \in 0..MaxQueries /\ s.tasks \subseteq Task
         /\ Len(s.list) \in Nat /\ \A i \in 1..Len(s.list) : s.list[i] \in Clients
         /\ s = [client |-> s.client, list |-> s.list, active |-> s.active, tasks |-> s.tasks]
<1>1. /\ s.client \in [Clients -> Client] /\ s.list \in Seq(Clients)
      /\ s.active \in 0..MaxQueries /\ s.tasks \subseteq Task
      /\ s = [client |-> s.client, list |-> s.list, active |-> s.active, tasks |-> s.tasks]
  BY DEF LoopState
<1> QED
  BY <1>1, LenProperties, ElementOfSeq

\* A call leaves the invariant's other parts alone when a client only closes.
LEMMA Closing ==
  ASSUME NEW s, NEW W, NEW h, Sound(s, W, h), NEW c \in Clients
  PROVE  /\ Sound(Close(s, c), W, h)
         /\ \A d \in Clients : Drained(s, d) => Drained(Close(s, c), d)
         /\ \A d \in Clients : PausedFull(s, d) => PausedFull(Close(s, c), d)
<1> DEFINE r == Close(s, c)
<1>1. CASE s.client[c].handle # "open"
  BY <1>1 DEF Close
<1>2. CASE s.client[c].handle = "open"
  <2> DEFINE v == [s.client[c] EXCEPT !.handle = "closing"]
  <2>1. /\ s \in LoopState /\ s.client[c] \in Client
        /\ s.client \in [Clients -> Client] /\ s.list \in Seq(Clients)
        /\ s.active \in 0..MaxQueries /\ s.tasks \subseteq Task
    BY Fields DEF Sound
  <2>2. /\ v \in Client /\ v.handle = "closing" /\ v.ref_count = s.client[c].ref_count
        /\ v.received = s.client[c].received /\ v.taken = s.client[c].taken
        /\ v.is_paused = s.client[c].is_paused
    BY <2>1 DEF Client
  <2>3. /\ r.client = [s.client EXCEPT ![c] = v] /\ r.list = RemoveClient(s.list, c)
        /\ r.active = s.active /\ r.tasks = s.tasks
        /\ r = [client |-> r.client, list |-> r.list, active |-> r.active, tasks |-> r.tasks]
    <3>1. r = [s EXCEPT !.client = [s.client EXCEPT ![c] = v], !.list = RemoveClient(s.list, c)]
      BY <1>2, <2>1 DEF Close
    <3> HIDE DEF r, v
    <3> QED
      BY <2>1, <3>1 DEF LoopState
  <2> HIDE DEF r, v
  <2>4. /\ r.client \in [Clients -> Client] /\ r.client[c] = v
        /\ \A d \in Clients : d # c => r.client[d] = s.client[d]
    BY <2>1, <2>2, <2>3
  <2>5. /\ r.list \in Seq(Clients)
        /\ \A i, j \in 1..Len(r.list) : r.list[i] = r.list[j] => i = j
        /\ \A d : (\E i \in 1..Len(r.list) : r.list[i] = d)
                  <=> d # c /\ \E i \in 1..Len(s.list) : s.list[i] = d
    <3>1. \A i, j \in 1..Len(s.list) : s.list[i] = s.list[j] => i = j
      BY DEF Sound, Listing
    <3> DEFINE q == RemoveClient(s.list, c)
    <3>2. /\ q \in Seq(Clients)
          /\ \A i, j \in 1..Len(q) : q[i] = q[j] => i = j
          /\ \A d : (\E i \in 1..Len(q) : q[i] = d)
                    <=> d # c /\ \E i \in 1..Len(s.list) : s.list[i] = d
      BY <2>1, <3>1, Unlinked
    <3> QED
      BY <2>3, <3>2
  <2>6. r \in LoopState
    BY <2>1, <2>3, <2>4, <2>5, Fields DEF LoopState
  <2>7. Listing(r)
    <3>1. \A d \in Clients : Open(s, d) <=> \E i \in 1..Len(s.list) : s.list[i] = d
      BY DEF Sound, Listing
    <3>2. \A d \in Clients : Open(r, d) <=> d # c /\ Open(s, d)
      BY <2>2, <2>4 DEF Open
    <3>3. \A d \in Clients : Open(r, d) <=> \E i \in 1..Len(r.list) : r.list[i] = d
      BY <2>5, <3>1, <3>2
    <3> QED
      BY <2>5, <3>3 DEF Listing
  <2>8. \A d \in Clients : /\ r.client[d].taken = s.client[d].taken
                           /\ r.client[d].received = s.client[d].received
                           /\ r.client[d].is_paused = s.client[d].is_paused
                           /\ r.client[d].ref_count = s.client[d].ref_count
                           /\ One(r.client[d].handle \in {"open", "closing"})
                              = One(s.client[d].handle \in {"open", "closing"})
                           /\ r.client[d].handle = "none" => s.client[d].handle = "none"
                           /\ Open(r, d) => Open(s, d)
    BY <1>2, <2>2, <2>4 DEF Open
  <2>9. Numbered(r, W)
    <3>1. \A t \in s.tasks : t.req[1] \in Clients
      BY <2>1, Fields DEF Task, Request
    <3>2. \A w \in W : w[1] \in Clients
      BY DEF Sound, Request
    <3> QED
      BY <2>3, <2>8, <3>1, <3>2 DEF Sound, Numbered
  <2>10. Buffered(r)
    BY <2>8 DEF Sound, Buffered
  <2>11. Counted(r, W, h)
    BY <2>3, <2>8 DEF Sound, Counted
  <2>12. Sound(r, W, h)
    BY <2>3, <2>6, <2>7, <2>9, <2>10, <2>11 DEF Sound
  <2>13. ASSUME NEW d \in Clients
         PROVE  /\ Drained(s, d) => Drained(r, d)
                /\ PausedFull(s, d) => PausedFull(r, d)
    BY <2>3, <2>8 DEF Drained, PausedFull, Waiting
  <2> QED
    BY <2>12, <2>13 DEF r
<1> QED
  BY <1>1, <1>2

\* No client waits in r that did not in s.
Calm(s, r) == \A d \in Clients : /\ Drained(s, d) => Drained(r, d)
                                 /\ PausedFull(s, d) => PausedFull(r, d)

\* k more references to c.
Hold(s, c, k) == [s EXCEPT !.client[c].ref_count = @ + k]

\* The running callback takes or drops references.
LEMMA Holding ==
  ASSUME NEW s, NEW W, NEW h \in [Clients -> Int], Sound(s, W, h), NEW c \in Clients,
         NEW k \in Int
  PROVE  Sound(Hold(s, c, k), W, [h EXCEPT ![c] = @ + k]) /\ Calm(s, Hold(s, c, k))
<1> DEFINE r == Hold(s, c, k)
<1> DEFINE v == [s.client[c] EXCEPT !.ref_count = @ + k]
<1>1. /\ s \in LoopState /\ s.client[c] \in Client
      /\ s.client \in [Clients -> Client] /\ s.list \in Seq(Clients)
      /\ s.active \in 0..MaxQueries /\ s.tasks \subseteq Task
  BY Fields DEF Sound
<1>2. /\ v \in Client /\ v.handle = s.client[c].handle
      /\ v.ref_count = s.client[c].ref_count + k
      /\ v.received = s.client[c].received /\ v.taken = s.client[c].taken
      /\ v.is_paused = s.client[c].is_paused
  <2>1. s.client[c] \in Client
    BY <1>1
  <2> QED
    BY <2>1 DEF Client
<1>3. /\ r.client = [s.client EXCEPT ![c] = v] /\ r.list = s.list
      /\ r.active = s.active /\ r.tasks = s.tasks
      /\ r = [client |-> r.client, list |-> r.list, active |-> r.active, tasks |-> r.tasks]
  <2>1. r = [s EXCEPT !.client = [s.client EXCEPT ![c] = v]]
    BY <1>1 DEF Hold
  <2> HIDE DEF v, r
  <2> QED
    BY <1>1, <2>1 DEF LoopState
<1> HIDE DEF v, r
<1>4. /\ r.client \in [Clients -> Client] /\ r.client[c] = v
      /\ \A d \in Clients : d # c => r.client[d] = s.client[d]
  BY <1>1, <1>2, <1>3
<1>5. r \in LoopState
  BY <1>1, <1>3, <1>4, Fields DEF LoopState
<1>6. \A d \in Clients : /\ r.client[d].taken = s.client[d].taken
                         /\ r.client[d].received = s.client[d].received
                         /\ r.client[d].is_paused = s.client[d].is_paused
                         /\ r.client[d].handle = s.client[d].handle
  BY <1>2, <1>4
<1>7. Numbered(r, W)
  <2>1. \A t \in s.tasks : t.req[1] \in Clients
    BY <1>1, Fields DEF Task, Request
  <2>2. \A w \in W : w[1] \in Clients
    BY DEF Sound, Request
  <2> QED
    BY <1>3, <1>6, <2>1, <2>2 DEF Sound, Numbered
<1>8. Buffered(r) /\ Listing(r)
  BY <1>3, <1>6 DEF Sound, Buffered, Listing, Open
<1>9. Counted(r, W, [h EXCEPT ![c] = @ + k])
  <2>1. ASSUME NEW d \in Clients
        PROVE  r.client[d].ref_count = One(r.client[d].handle \in {"open", "closing"})
                 + Cardinality(TasksOf(r.tasks, d)) + Cardinality(Of(d, W))
                 + [h EXCEPT ![c] = @ + k][d]
    <3>1. /\ r.client[d].ref_count = s.client[d].ref_count + (IF d = c THEN k ELSE 0)
          /\ [h EXCEPT ![c] = @ + k][d] = h[d] + (IF d = c THEN k ELSE 0)
      BY <1>1, <1>2, <1>4, Fields, SMTT(30) DEF Client
    <3>2. s.client[d].ref_count = One(s.client[d].handle \in {"open", "closing"})
                 + Cardinality(TasksOf(s.tasks, d)) + Cardinality(Of(d, W)) + h[d]
      BY DEF Sound, Counted
    <3>3. /\ One(s.client[d].handle \in {"open", "closing"}) \in Int
          /\ Cardinality(TasksOf(s.tasks, d)) \in Int /\ Cardinality(Of(d, W)) \in Int
      BY FS_Subset, FS_CardinalityType DEF Sound, One, TasksOf, Of
    <3> QED
      BY <1>3, <1>6, <3>1, <3>2, <3>3
  <2> QED
    BY <1>3, <2>1 DEF Sound, Counted
<1>10. Sound(r, W, [h EXCEPT ![c] = @ + k])
  BY <1>3, <1>5, <1>7, <1>8, <1>9 DEF Sound
<1> QED
  BY <1>3, <1>6, <1>10 DEF Calm, Open, Drained, PausedFull, Waiting, r

\* dispatch_queries moves complete requests from the buffer to the workers: the
\* counts stay exact, and it stops only at an empty buffer or at the limit.
LEMMA Dispatching ==
  ASSUME NEW s, NEW W, NEW h \in [Clients -> Int], Sound(s, W, h),
         NEW c \in Clients, Open(s, c)
  PROVE  LET r == DispatchQueries(s, c)
         IN  /\ Sound(r, W, h) /\ r.list = s.list /\ r.active >= s.active
             /\ \A d \in Clients : Open(r, d) <=> Open(s, d)
             /\ \A d \in Clients \ {c} : r.client[d] = s.client[d]
             /\ Drained(r, c)
             /\ r.client[c].is_paused => s.client[c].is_paused \/ r.active = MaxQueries
<1> DEFINE r == DispatchQueries(s, c)
<1> DEFINE n == Min({Waiting(s.client, c), Room(s.active)})
<1> DEFINE first == s.client[c].taken
<1> DEFINE N == Queued(c, first, n)
<1> DEFINE b == s.client[c].is_paused \/ n < Waiting(s.client, c)
<1> DEFINE v == [s.client[c] EXCEPT !.taken = @ + n, !.ref_count = @ + n, !.is_paused = b]
<1>1. /\ s \in LoopState /\ s.client[c] \in Client
      /\ s.client \in [Clients -> Client] /\ s.list \in Seq(Clients)
      /\ s.active \in 0..MaxQueries /\ s.tasks \subseteq Task
      /\ IsFiniteSet(s.tasks) /\ W \subseteq Request
  BY Fields DEF Sound
<1>2. /\ s.client[c].received \in Nat /\ first \in Nat /\ s.client[c].ref_count \in Int
      /\ s.client[c].is_paused \in BOOLEAN
  BY <1>1 DEF Client
<1>3. /\ s.client[c].received \div ReqSize \in Nat
      /\ s.client[c].received \div ReqSize <= MaxRequests
      /\ first <= s.client[c].received \div ReqSize
      /\ MaxRequests \in Nat /\ MaxQueries \in Nat
  BY <1>2, Complete, QueryConstants DEF Sound, Buffered
<1>4. /\ Waiting(s.client, c) \in Nat
      /\ first + Waiting(s.client, c) = s.client[c].received \div ReqSize
      /\ Room(s.active) = MaxQueries - s.active
  BY <1>1, <1>2, <1>3, RoomLeft DEF Waiting
<1>5. /\ n \in Nat /\ n <= Waiting(s.client, c) /\ n <= MaxQueries - s.active
      /\ n = Waiting(s.client, c) \/ n = MaxQueries - s.active
  <2>1. n = IF Waiting(s.client, c) <= Room(s.active) THEN Waiting(s.client, c)
            ELSE Room(s.active)
    <3>1. Waiting(s.client, c) \in Int /\ Room(s.active) \in Int
      BY <1>1, <1>3, <1>4
    <3> QED
      BY <3>1, MinOfTwo
  <2> QED
    BY <1>1, <1>3, <1>4, <2>1
<1>6. /\ r.client = [s.client EXCEPT ![c] = v] /\ r.list = s.list
      /\ r.active = s.active + n /\ r.tasks = s.tasks \cup N
      /\ r = [client |-> r.client, list |-> r.list, active |-> r.active, tasks |-> r.tasks]
  <2>1. r = [s EXCEPT !.client = [s.client EXCEPT ![c] = v], !.active = s.active + n,
                      !.tasks = s.tasks \cup N]
    <3>1. r = [s EXCEPT !.client[c] = v, !.active = s.active + n, !.tasks = s.tasks \cup N]
      BY DEF DispatchQueries
    <3> HIDE DEF r, v, N, n
    <3> QED
      BY <1>1, <3>1
  <2> HIDE DEF r, v, N, n
  <2> QED
    BY <1>1, <2>1 DEF LoopState
<1> HIDE DEF r, n
<1>7. /\ v \in Client /\ v.handle = s.client[c].handle
      /\ v.ref_count = s.client[c].ref_count + n /\ v.taken = first + n
      /\ v.received = s.client[c].received
      /\ v.is_paused <=> (s.client[c].is_paused \/ n < Waiting(s.client, c))
  <2>1. s.client[c] \in Client
    BY <1>1
  <2>2. /\ n \in Nat /\ first + n \in Nat /\ s.client[c].ref_count + n \in Int
        /\ b \in BOOLEAN
    BY <1>2, <1>5
  <2> HIDE DEF b
  <2> DEFINE u == [s.client[c] EXCEPT !.taken = @ + n, !.ref_count = @ + n]
  <2>3. /\ u \in Client /\ u.handle = s.client[c].handle
        /\ u.ref_count = s.client[c].ref_count + n /\ u.taken = first + n
        /\ u.received = s.client[c].received
    BY <2>1, <2>2 DEF Client
  <2>4. v = [u EXCEPT !.is_paused = b]
    OBVIOUS
  <2> HIDE DEF u, v
  <2>5. /\ v \in Client /\ v.handle = u.handle /\ v.ref_count = u.ref_count
        /\ v.taken = u.taken /\ v.received = u.received /\ v.is_paused = b
    BY <2>2, <2>3, <2>4 DEF Client
  <2> QED
    BY <2>3, <2>5 DEF b
<1> HIDE DEF v
<1>8. /\ r.client \in [Clients -> Client] /\ r.client[c] = v
      /\ \A d \in Clients : d # c => r.client[d] = s.client[d]
  BY <1>1, <1>6, <1>7
<1>9. /\ IsFiniteSet(N) /\ Cardinality(N) = n
  <2> HIDE DEF first
  <2>1. first \in Nat
    BY <1>2 DEF first
  <2>2. n \in Nat
    BY <1>5
  <2> QED
    BY <2>1, <2>2, NewTasks
<1>10. \A t \in N : /\ t \in Task /\ t.req[1] = c
                    /\ first < t.req[2] /\ t.req[2] <= first + n
  <2>1. ASSUME NEW i \in 1..n
        PROVE  /\ first + i \in 1..MaxRequests /\ first < first + i /\ first + i <= first + n
    BY <1>2, <1>3, <1>4, <1>5
  <2> QED
    BY <2>1 DEF Queued, Task, Request
<1>11. \A t, u \in N : t.req = u.req => t = u
  BY DEF Queued
<1> HIDE DEF N, first
<1>12. \A t \in s.tasks : t.req[1] \in Clients /\ t.req[2] \in Int
  BY <1>1 DEF Task, Request
<1>13. \A t \in s.tasks : t.req[1] = c => t.req[2] <= first
  BY DEF Sound, Numbered, first
<1>14. \A t \in s.tasks, u \in N : t.req # u.req
  BY <1>2, <1>10, <1>12, <1>13 DEF Task, Request
<1>15. \A w \in W : w[1] \in Clients /\ w[2] \in Int
  BY <1>1 DEF Request
<1>16. \A u \in N : u.req \notin W
  <2>1. \A w \in W : w[1] = c => w[2] <= first
    BY DEF Sound, Numbered, first
  <2> QED
    BY <1>2, <1>10, <1>15, <2>1 DEF Task, Request
<1>17. /\ IsFiniteSet(s.tasks \cup N)
       /\ Cardinality(s.tasks \cup N) = Cardinality(s.tasks) + n
       /\ Cardinality(TasksOf(s.tasks \cup N, c)) = Cardinality(TasksOf(s.tasks, c)) + n
       /\ \A d : d # c => TasksOf(s.tasks \cup N, d) = TasksOf(s.tasks, d)
  <2>1. NewTasksOf(N, s.tasks, c)
    BY <1>10, <1>14 DEF NewTasksOf
  <2>2. MoreTasksOf(s.tasks \cup N, s.tasks, c, Cardinality(N))
    BY <1>1, <1>9, <2>1, MoreTasks
  <2> QED
    BY <1>9, <2>2 DEF MoreTasksOf
<1>18. r \in LoopState
  <2>1. r.active \in 0..MaxQueries /\ r.tasks \subseteq Task
    BY <1>1, <1>3, <1>5, <1>6, <1>10
  <2> QED
    BY <1>1, <1>6, <1>8, <2>1 DEF LoopState
<1>19. \A d \in Clients : /\ r.client[d].handle = s.client[d].handle
                          /\ r.client[d].received = s.client[d].received
                          /\ r.client[d].taken = s.client[d].taken + (IF d = c THEN n ELSE 0)
                          /\ d # c => r.client[d].is_paused = s.client[d].is_paused
  <2>1. \A d \in Clients : s.client[d].taken \in Nat
    BY <1>1 DEF Client
  <2> QED
    BY <1>7, <1>8, <2>1 DEF first
<1>20. Listing(r)
  BY <1>6, <1>19 DEF Sound, Listing, Open
<1>21. Numbered(r, W)
  <2>0. \A d \in Clients : s.client[d].taken \in Nat
    BY <1>1 DEF Client
  <2>1. ASSUME NEW t \in s.tasks \cup N PROVE t.req[2] <= r.client[t.req[1]].taken
    <3>1. CASE t \in N
      BY <1>7, <1>8, <1>10, <3>1
    <3>2. CASE t \in s.tasks
      <4>1. t.req[2] <= s.client[t.req[1]].taken
        BY <3>2 DEF Sound, Numbered
      <4> QED
        BY <1>5, <1>12, <1>19, <2>0, <3>2, <4>1
    <3> QED
      BY <3>1, <3>2
  <2>2. \A t, u \in s.tasks \cup N : t.req = u.req => t = u
    BY <1>11, <1>14 DEF Sound, Numbered
  <2>3. ASSUME NEW w \in W PROVE w[2] <= r.client[w[1]].taken
    <3>1. w[2] <= s.client[w[1]].taken
      BY DEF Sound, Numbered
    <3> QED
      BY <1>5, <1>15, <1>19, <2>0, <3>1
  <2>4. \A t \in s.tasks \cup N : t.req \notin W
    BY <1>16 DEF Sound, Numbered
  <2> QED
    BY <1>6, <2>1, <2>2, <2>3, <2>4 DEF Numbered
<1>22. Buffered(r)
  <2>1. ASSUME NEW d \in Clients
        PROVE  /\ r.client[d].received <= MaxRequests * ReqSize
               /\ r.client[d].taken <= r.client[d].received \div ReqSize
               /\ r.client[d].handle = "none" =>
                    /\ r.client[d].received = 0 /\ r.client[d].taken = 0
                    /\ ~r.client[d].is_paused
    <3>1. CASE d = c
      <4>1. first + n <= s.client[c].received \div ReqSize /\ r.client[d].handle # "none"
        BY <1>2, <1>4, <1>5, <1>19, <3>1 DEF Open
      <4> QED
        BY <1>19, <3>1, <4>1 DEF Sound, Buffered, first
    <3>2. CASE d # c
      BY <1>8, <3>2 DEF Sound, Buffered
    <3> QED
      BY <3>1, <3>2
  <2> QED
    BY <2>1 DEF Buffered
<1>23. Counted(r, W, h)
  <2>1. ASSUME NEW d \in Clients
        PROVE  r.client[d].ref_count = One(r.client[d].handle \in {"open", "closing"})
                 + Cardinality(TasksOf(r.tasks, d)) + Cardinality(Of(d, W)) + h[d]
    <3>1. s.client[d].ref_count = One(s.client[d].handle \in {"open", "closing"})
                 + Cardinality(TasksOf(s.tasks, d)) + Cardinality(Of(d, W)) + h[d]
      BY DEF Sound, Counted
    <3>2. /\ One(s.client[d].handle \in {"open", "closing"}) \in Int
          /\ Cardinality(TasksOf(s.tasks, d)) \in Int /\ Cardinality(Of(d, W)) \in Int
          /\ h[d] \in Int
      BY FS_Subset, FS_CardinalityType DEF Sound, One, TasksOf, Of
    <3>3. CASE d = c
      BY <1>5, <1>6, <1>7, <1>8, <1>17, <3>1, <3>2, <3>3
    <3>4. CASE d # c
      BY <1>6, <1>8, <1>17, <3>1, <3>4
    <3> QED
      BY <3>3, <3>4
  <2>2. r.active = Cardinality(r.tasks)
    BY <1>6, <1>17 DEF Sound, Counted
  <2> QED
    BY <2>1, <2>2 DEF Counted
<1>24. Sound(r, W, h)
  <2>1. IsFiniteSet(r.tasks)
    BY <1>6, <1>17
  <2> QED
    BY <1>18, <1>20, <1>21, <1>22, <1>23, <2>1 DEF Sound
<1>25. Drained(r, c)
  <2>1. Waiting(r.client, c) = Waiting(s.client, c) - n
    BY <1>2, <1>3, <1>5, <1>7, <1>8 DEF Waiting, first
  <2> QED
    BY <1>4, <1>5, <1>7, <1>8, <2>1 DEF Drained
<1>26. r.client[c].is_paused => s.client[c].is_paused \/ r.active = MaxQueries
  BY <1>1, <1>3, <1>4, <1>5, <1>6, <1>7, <1>8
<1>27. r.active >= s.active /\ \A d \in Clients : Open(r, d) <=> Open(s, d)
  BY <1>1, <1>5, <1>6, <1>19 DEF Open
<1> QED
  BY <1>6, <1>8, <1>24, <1>25, <1>26, <1>27 DEF r

\* A query ends: its reference passes to the running callback, and its request
\* is not in progress any more.
LEMMA Finishing ==
  ASSUME NEW s, NEW W, NEW h \in [Clients -> Int], Sound(s, W, h), NEW t \in s.tasks
  PROVE  LET r == Finish(s, t)
         IN  /\ Sound(r, W, [h EXCEPT ![t.req[1]] = @ + 1])
             /\ r.client = s.client /\ r.active < MaxQueries
             /\ \A u \in r.tasks : u.req # t.req
<1> DEFINE r == Finish(s, t)
<1> DEFINE c == t.req[1]
<1>1. /\ s \in LoopState /\ s.client \in [Clients -> Client] /\ s.list \in Seq(Clients)
      /\ s.active \in 0..MaxQueries /\ s.tasks \subseteq Task
      /\ IsFiniteSet(s.tasks) /\ W \subseteq Request
  BY Fields DEF Sound
<1>2. /\ r.client = s.client /\ r.list = s.list /\ r.active = s.active - 1
      /\ r.tasks = s.tasks \ {t}
      /\ r = [client |-> r.client, list |-> r.list, active |-> r.active, tasks |-> r.tasks]
  <2>1. r = [s EXCEPT !.active = s.active - 1, !.tasks = s.tasks \ {t}]
    BY DEF Finish
  <2> HIDE DEF r
  <2> QED
    BY <1>1, <2>1 DEF LoopState
<1> HIDE DEF r
<1>3. /\ IsFiniteSet(s.tasks \ {t}) /\ Cardinality(s.tasks \ {t}) = Cardinality(s.tasks) - 1
      /\ Cardinality(s.tasks) \in Nat /\ Cardinality(s.tasks) > 0
      /\ Cardinality(TasksOf(s.tasks \ {t}, c)) = Cardinality(TasksOf(s.tasks, c)) - 1
      /\ \A d : d # c => TasksOf(s.tasks \ {t}, d) = TasksOf(s.tasks, d)
  BY <1>1, OneTaskLess
<1>4. s.active = Cardinality(s.tasks) /\ c \in Clients
  BY <1>1 DEF Sound, Counted, Task, Request
<1>5. r \in LoopState /\ r.active < MaxQueries
  <2>1. r.active \in 0..MaxQueries /\ r.active < MaxQueries
    BY <1>1, <1>2, <1>3, <1>4, QueryConstants
  <2> QED
    BY <1>1, <1>2, <2>1 DEF LoopState
<1>6. Listing(r) /\ Numbered(r, W) /\ Buffered(r)
  BY <1>2 DEF Sound, Listing, Open, Numbered, Buffered
<1>7. ASSUME NEW d \in Clients
      PROVE  r.client[d].ref_count = One(r.client[d].handle \in {"open", "closing"})
                 + Cardinality(TasksOf(r.tasks, d)) + Cardinality(Of(d, W))
                 + [h EXCEPT ![c] = @ + 1][d]
  <2>1. s.client[d].ref_count = One(s.client[d].handle \in {"open", "closing"})
                 + Cardinality(TasksOf(s.tasks, d)) + Cardinality(Of(d, W)) + h[d]
    BY DEF Sound, Counted
  <2>2. /\ One(s.client[d].handle \in {"open", "closing"}) \in Int
        /\ Cardinality(TasksOf(s.tasks, d)) \in Int /\ Cardinality(Of(d, W)) \in Int
    BY FS_Subset, FS_CardinalityType DEF Sound, One, TasksOf, Of
  <2>3. [h EXCEPT ![c] = @ + 1][d] = h[d] + (IF d = c THEN 1 ELSE 0) /\ h[d] \in Int
    OBVIOUS
  <2> HIDE DEF c
  <2>4. CASE d = c
    BY <1>2, <1>3, <2>1, <2>2, <2>3, <2>4
  <2>5. CASE d # c
    BY <1>2, <1>3, <2>1, <2>2, <2>3, <2>5
  <2> QED
    BY <2>4, <2>5
<1>8. Counted(r, W, [h EXCEPT ![c] = @ + 1])
  BY <1>2, <1>3, <1>4, <1>7 DEF Counted
<1>9. \A u \in r.tasks : u.req # t.req
  BY <1>2 DEF Sound, Numbered
<1>10. Sound(r, W, [h EXCEPT ![c] = @ + 1])
  BY <1>2, <1>3, <1>5, <1>6, <1>8 DEF Sound
<1> QED
  BY <1>2, <1>5, <1>9, <1>10 DEF r

\* A response is handed to uv_write: it takes over a reference.
LEMMA Writing ==
  ASSUME NEW s, NEW W, NEW h \in [Clients -> Int], Sound(s, W, h),
         NEW q \in Request, q \notin W, q[2] <= s.client[q[1]].taken,
         \A u \in s.tasks : u.req # q
  PROVE  Sound(s, W \cup {q}, [h EXCEPT ![q[1]] = @ - 1])
<1> DEFINE c == q[1]
<1> DEFINE X == W \cup {q}
<1>1. IsFiniteSet(W) /\ W \subseteq Request /\ c \in Clients
  BY DEF Sound, Request
<1>2. IsFiniteSet(X) /\ X \subseteq Request
  BY <1>1, FS_AddElement
<1>3. Numbered(s, X)
  BY DEF Sound, Numbered
<1>4. ASSUME NEW d \in Clients
      PROVE  s.client[d].ref_count = One(s.client[d].handle \in {"open", "closing"})
                 + Cardinality(TasksOf(s.tasks, d)) + Cardinality(Of(d, X))
                 + [h EXCEPT ![c] = @ - 1][d]
  <2>1. s.client[d].ref_count = One(s.client[d].handle \in {"open", "closing"})
                 + Cardinality(TasksOf(s.tasks, d)) + Cardinality(Of(d, W)) + h[d]
    BY DEF Sound, Counted
  <2>2. /\ One(s.client[d].handle \in {"open", "closing"}) \in Int
        /\ Cardinality(TasksOf(s.tasks, d)) \in Int /\ Cardinality(Of(d, W)) \in Int
        /\ IsFiniteSet(Of(d, W))
    BY FS_Subset, FS_CardinalityType DEF Sound, One, TasksOf, Of
  <2>3. [h EXCEPT ![c] = @ - 1][d] = h[d] - (IF d = c THEN 1 ELSE 0) /\ h[d] \in Int
    OBVIOUS
  <2>4. Cardinality(Of(d, X)) = Cardinality(Of(d, W)) + (IF d = c THEN 1 ELSE 0)
    <3>1. CASE d = c
      <4>1. Of(d, X) = Of(d, W) \cup {q} /\ q \notin Of(d, W)
        BY <3>1 DEF Of
      <4>2. Cardinality(Of(d, W) \cup {q}) = Cardinality(Of(d, W)) + 1
        BY <2>2, <4>1, FS_AddElement
      <4>3. Cardinality(Of(d, X)) = Cardinality(Of(d, W) \cup {q})
        BY <4>1
      <4> QED
        BY <3>1, <4>2, <4>3
    <3>2. CASE d # c
      <4>1. Of(d, X) = Of(d, W)
        BY <3>2 DEF Of
      <4>2. Cardinality(Of(d, X)) = Cardinality(Of(d, W))
        BY <4>1
      <4> QED
        BY <2>2, <3>2, <4>2
    <3> QED
      BY <3>1, <3>2
  <2> HIDE DEF c, X
  <2> QED
    BY <2>1, <2>2, <2>3, <2>4
<1>5. Counted(s, X, [h EXCEPT ![c] = @ - 1])
  BY <1>4 DEF Sound, Counted
<1> QED
  BY <1>2, <1>3, <1>5 DEF Sound

\* uv_read_start: the client is no longer paused.
LEMMA Unpausing ==
  ASSUME NEW s, NEW W, NEW h, Sound(s, W, h), NEW c \in Clients
  PROVE  LET r == [s EXCEPT !.client[c].is_paused = FALSE]
         IN  /\ Sound(r, W, h) /\ r.list = s.list /\ r.active = s.active
             /\ \A d \in Clients : Open(r, d) <=> Open(s, d)
             /\ \A d \in Clients \ {c} : r.client[d] = s.client[d]
             /\ ~r.client[c].is_paused
<1> DEFINE r == [s EXCEPT !.client[c].is_paused = FALSE]
<1> DEFINE v == [s.client[c] EXCEPT !.is_paused = FALSE]
<1>1. /\ s \in LoopState /\ s.client[c] \in Client
      /\ s.client \in [Clients -> Client] /\ s.list \in Seq(Clients)
      /\ s.active \in 0..MaxQueries /\ s.tasks \subseteq Task
  BY Fields DEF Sound
<1>2. /\ v \in Client /\ v.handle = s.client[c].handle /\ v.ref_count = s.client[c].ref_count
      /\ v.received = s.client[c].received /\ v.taken = s.client[c].taken /\ ~v.is_paused
  BY <1>1 DEF Client
<1>3. /\ r.client = [s.client EXCEPT ![c] = v] /\ r.list = s.list
      /\ r.active = s.active /\ r.tasks = s.tasks
      /\ r = [client |-> r.client, list |-> r.list, active |-> r.active, tasks |-> r.tasks]
  <2>1. r = [s EXCEPT !.client = [s.client EXCEPT ![c] = v]]
    BY <1>1
  <2> HIDE DEF v, r
  <2> QED
    BY <1>1, <2>1 DEF LoopState
<1> HIDE DEF v, r
<1>4. /\ r.client \in [Clients -> Client] /\ r.client[c] = v
      /\ \A d \in Clients : d # c => r.client[d] = s.client[d]
  BY <1>1, <1>2, <1>3
<1>5. r \in LoopState
  BY <1>1, <1>3, <1>4 DEF LoopState
<1>6. \A d \in Clients : /\ r.client[d].taken = s.client[d].taken
                         /\ r.client[d].received = s.client[d].received
                         /\ r.client[d].handle = s.client[d].handle
                         /\ r.client[d].ref_count = s.client[d].ref_count
                         /\ ~s.client[d].is_paused => ~r.client[d].is_paused
  BY <1>2, <1>4
<1>7. Numbered(r, W)
  <2>1. \A t \in s.tasks : t.req[1] \in Clients
    BY <1>1 DEF Task, Request
  <2>2. \A w \in W : w[1] \in Clients
    BY DEF Sound, Request
  <2> QED
    BY <1>3, <1>6, <2>1, <2>2 DEF Sound, Numbered
<1>8. Buffered(r) /\ Listing(r) /\ Counted(r, W, h)
  BY <1>3, <1>6 DEF Sound, Buffered, Listing, Open, Counted
<1>9. Sound(r, W, h)
  BY <1>3, <1>5, <1>7, <1>8 DEF Sound
<1> QED
  BY <1>2, <1>3, <1>4, <1>6, <1>9 DEF Open, r

---------------------------------------------------------------------------
(* The loop of after_query_cb over the list.                               *)

\* One client of the list is resumed if that is possible; then it is paused only
\* at the limit, and so are those before it.
LEMMA Resuming ==
  ASSUME NEW s, NEW W, NEW h \in [Clients -> Int], Sound(s, W, h), NEW c \in Clients,
         \A d \in Clients : Drained(s, d)
  PROVE  LET r == Resume(s, c)
         IN  /\ Sound(r, W, h) /\ r.list = s.list
             /\ \A d \in Clients : Open(r, d) <=> Open(s, d)
             /\ \A d \in Clients : Drained(r, d)
             /\ \A d \in Clients : PausedFull(s, d) => PausedFull(r, d)
             /\ PausedFull(r, c)
<1> DEFINE r == Resume(s, c)
<1>1. s.active \in 0..MaxQueries /\ MaxQueries \in Nat /\ Room(s.active) = MaxQueries - s.active
  BY Fields, RoomLeft, QueryConstants DEF Sound
<1>2. CASE ~(s.client[c].is_paused /\ s.client[c].handle = "open" /\ Room(s.active) > 0)
  <2>1. r = s
    BY <1>2 DEF Resume
  <2>2. PausedFull(s, c)
    BY <1>1, <1>2 DEF PausedFull, Open
  <2> HIDE DEF r
  <2>3. /\ Sound(r, W, h) /\ r.list = s.list
        /\ \A d \in Clients : Open(r, d) <=> Open(s, d)
        /\ \A d \in Clients : Drained(r, d)
        /\ \A d \in Clients : PausedFull(s, d) => PausedFull(r, d)
        /\ PausedFull(r, c)
    BY <2>1, <2>2
  <2> QED
    BY <2>3 DEF r
<1>3. CASE s.client[c].is_paused /\ s.client[c].handle = "open" /\ Room(s.active) > 0
  <2> DEFINE u == [s EXCEPT !.client[c].is_paused = FALSE]
  <2>1. /\ Sound(u, W, h) /\ u.list = s.list /\ u.active = s.active
        /\ \A d \in Clients : Open(u, d) <=> Open(s, d)
        /\ \A d \in Clients \ {c} : u.client[d] = s.client[d]
        /\ ~u.client[c].is_paused
    BY Unpausing
  <2>2. r = DispatchQueries(u, c) /\ Open(s, c)
    BY <1>3 DEF Resume, Open
  <2> HIDE DEF u
  <2>3. Open(u, c)
    BY <2>1, <2>2
  <2> DEFINE q == DispatchQueries(u, c)
  <2>4. /\ Sound(q, W, h) /\ q.list = u.list /\ q.active >= u.active
        /\ \A d \in Clients : Open(q, d) <=> Open(u, d)
        /\ \A d \in Clients \ {c} : q.client[d] = u.client[d]
        /\ Drained(q, c)
        /\ q.client[c].is_paused => u.client[c].is_paused \/ q.active = MaxQueries
    BY <2>1, <2>3, Dispatching
  <2> HIDE DEF q, r
  <2>5. r = q
    BY <2>2 DEF q
  <2>6. \A d \in Clients : Drained(q, d)
    <3>1. ASSUME NEW d \in Clients \ {c} PROVE Drained(q, d)
      BY <2>1, <2>4 DEF Drained, Open, Waiting
    <3> QED
      BY <2>4, <3>1
  <2>7. PausedFull(q, c)
    BY <2>1, <2>4 DEF PausedFull
  <2>8. ASSUME NEW d \in Clients, PausedFull(s, d) PROVE PausedFull(q, d)
    <3>1. CASE d = c
      BY <2>7, <3>1
    <3>2. CASE d # c
      <4>1. ~(Open(s, d) /\ s.client[d].is_paused)
        BY <1>1, <1>3, <2>8 DEF PausedFull
      <4> QED
        BY <2>1, <2>4, <3>2, <4>1 DEF PausedFull
    <3> QED
      BY <3>1, <3>2
  <2>9. /\ Sound(r, W, h) /\ r.list = s.list
        /\ \A d \in Clients : Open(r, d) <=> Open(s, d)
        /\ \A d \in Clients : Drained(r, d)
        /\ \A d \in Clients : PausedFull(s, d) => PausedFull(r, d)
        /\ PausedFull(r, c)
    BY <2>1, <2>4, <2>5, <2>6, <2>7, <2>8
  <2> QED
    BY <2>9 DEF r
<1> QED
  BY <1>2, <1>3

\* The passes of the loop are well defined, as many as there are clients.
LEMMA Passes ==
  ASSUME NEW s, NEW n \in Nat
  PROVE  \E f : f = [i \in 0..n |-> IF i = 0 THEN s ELSE Resume(f[i - 1], s.list[i])]
<1> DEFINE G(m) == \E f : f = [i \in 0..m |-> IF i = 0 THEN s ELSE Resume(f[i - 1], s.list[i])]
<1> DEFINE Bad == {m \in Nat : ~G(m)}
<1> DEFINE R == OpToRel(<, Nat)
<1>1. SUFFICES ASSUME Bad # {} PROVE FALSE
  OBVIOUS
<1>2. Bad \subseteq Nat
  OBVIOUS
<1> HIDE DEF Bad
<1>3. \E m \in Bad : \A k \in Bad : ~(<<k, m>> \in R)
  BY <1>1, <1>2, NatLessThanWellFounded, WFMin
<1>4. PICK m \in Bad : \A k \in Bad : ~(<<k, m>> \in R)
  BY <1>3
<1>5. m \in Nat
  BY <1>2
<1>6. CASE m = 0
  <2>1. [i \in 0..m |-> s]
          = [i \in 0..m |-> IF i = 0 THEN s ELSE Resume([j \in 0..m |-> s][i - 1], s.list[i])]
    BY <1>6
  <2>2. G(m)
    BY <2>1
  <2> QED
    BY <2>2 DEF Bad
<1>7. CASE m # 0
  <2>1. m - 1 \in Nat /\ m - 1 < m
    BY <1>5, <1>7
  <2>2. <<m - 1, m>> \in R
    BY <1>5, <2>1, Zenon DEF OpToRel
  <2>3. G(m - 1)
    BY <1>4, <2>1, <2>2 DEF Bad
  <2>4. PICK g : g = [i \in 0..(m - 1) |-> IF i = 0 THEN s ELSE Resume(g[i - 1], s.list[i])]
    BY <2>3
  <2> DEFINE f == [i \in 0..m |-> IF i < m THEN g[i] ELSE Resume(g[m - 1], s.list[m])]
  <2>5. ASSUME NEW i \in 0..m
        PROVE  f[i] = IF i = 0 THEN s ELSE Resume(f[i - 1], s.list[i])
    <3>1. CASE i = 0
      <4>1. 0 \in 0..(m - 1) /\ g[0] = s
        BY <1>5, <1>7, <2>4
      <4> QED
        BY <1>5, <1>7, <3>1, <4>1
    <3>2. CASE i # 0 /\ i < m
      <4>1. i \in 0..(m - 1) /\ i - 1 \in 0..m /\ i - 1 < m
        BY <1>5, <3>2
      <4>2. g[i] = Resume(g[i - 1], s.list[i])
        BY <2>4, <3>2, <4>1
      <4> QED
        BY <3>2, <4>1, <4>2
    <3>3. CASE i # 0 /\ i = m
      <4>1. m - 1 \in 0..m /\ m - 1 < m /\ ~(m < m)
        BY <1>5, <3>3
      <4> QED
        BY <3>3, <4>1
    <3> QED
      BY <1>5, <3>1, <3>2, <3>3
  <2>6. f = [i \in 0..m |-> f[i]]
    OBVIOUS
  <2> HIDE DEF f
  <2>7. f = [i \in 0..m |-> IF i = 0 THEN s ELSE Resume(f[i - 1], s.list[i])]
    BY <2>5, <2>6
  <2>8. G(m)
    BY <2>7
  <2> QED
    BY <2>8 DEF Bad
<1> QED
  BY <1>6, <1>7

\* After the loop, no client waits without need.
LEMMA ResumingAll ==
  ASSUME NEW s, NEW W, NEW h \in [Clients -> Int], Sound(s, W, h),
         \A d \in Clients : Drained(s, d)
  PROVE  LET r == ResumeAll(s)
         IN  /\ Sound(r, W, h)
             /\ \A d \in Clients : Drained(r, d) /\ PausedFull(r, d)
<1> DEFINE n == Len(s.list)
<1> DEFINE after == CHOOSE f : f = [i \in 0..n |-> IF i = 0 THEN s
                                                     ELSE Resume(f[i - 1], s.list[i])]
<1>1. n \in Nat /\ \A i \in 1..n : s.list[i] \in Clients
  BY Fields DEF Sound
<1>2. ResumeAll(s) = after[n]
  BY DEF ResumeAll
<1>3. after = [i \in 0..n |-> IF i = 0 THEN s ELSE Resume(after[i - 1], s.list[i])]
  <2> HIDE DEF n
  <2>1. \E f : f = [i \in 0..n |-> IF i = 0 THEN s ELSE Resume(f[i - 1], s.list[i])]
    BY <1>1, Passes
  <2> QED
    BY <2>1
<1> HIDE DEF after, n
<1> DEFINE Done(m) == /\ Sound(after[m], W, h) /\ after[m].list = s.list
                      /\ \A d \in Clients : Open(after[m], d) <=> Open(s, d)
                      /\ \A d \in Clients : Drained(after[m], d)
                      /\ \A i \in 1..m : PausedFull(after[m], s.list[i])
<1> DEFINE Bad == {m \in 0..n : ~Done(m)}
<1> DEFINE R == OpToRel(<, Nat)
<1>4. Done(0)
  <2>1. after[0] = s
    BY <1>1, <1>3
  <2> QED
    BY <2>1
<1>5. ASSUME NEW m \in 1..n, Done(m - 1) PROVE Done(m)
  <2> DEFINE u == after[m - 1]
  <2> DEFINE c == s.list[m]
  <2> DEFINE r == Resume(u, c)
  <2>1. after[m] = r /\ c \in Clients
    BY <1>1, <1>3
  <2>2. Sound(u, W, h) /\ \A d \in Clients : Drained(u, d)
    BY <1>5
  <2>3. u.list = s.list /\ (\A d \in Clients : Open(u, d) <=> Open(s, d))
        /\ \A i \in 1..(m - 1) : PausedFull(u, s.list[i])
    BY <1>5
  <2> HIDE DEF u, c, Done
  <2>4. /\ Sound(r, W, h) /\ r.list = u.list
        /\ \A d \in Clients : Open(r, d) <=> Open(u, d)
        /\ \A d \in Clients : Drained(r, d)
        /\ \A d \in Clients : PausedFull(u, d) => PausedFull(r, d)
        /\ PausedFull(r, c)
    BY <2>1, <2>2, Resuming
  <2> HIDE DEF r
  <2>5. ASSUME NEW i \in 1..m PROVE PausedFull(r, s.list[i])
    <3>1. CASE i = m
      BY <2>4, <3>1 DEF c
    <3>2. CASE i # m
      <4>1. i \in 1..(m - 1) /\ s.list[i] \in Clients
        BY <1>1, <3>2
      <4> QED
        BY <2>3, <2>4, <4>1
    <3> QED
      BY <3>1, <3>2
  <2> QED
    BY <2>1, <2>3, <2>4, <2>5 DEF Done
<1> HIDE DEF Done
<1>6. Bad = {}
  <2>1. SUFFICES ASSUME Bad # {} PROVE FALSE
    OBVIOUS
  <2>2. Bad \subseteq Nat /\ Bad \subseteq 0..n
    BY <1>1
  <2> HIDE DEF Bad
  <2>3. \E m \in Bad : \A k \in Bad : ~(<<k, m>> \in R)
    BY <2>1, <2>2, NatLessThanWellFounded, WFMin
  <2>4. PICK m \in Bad : \A k \in Bad : ~(<<k, m>> \in R)
    BY <2>3
  <2>5. m \in 1..n
    BY <1>4, <2>2 DEF Bad
  <2>6. m - 1 \in Nat /\ m \in Nat /\ m - 1 < m /\ m - 1 \in 0..n
    BY <1>1, <2>5
  <2>7. <<m - 1, m>> \in R
    BY <2>6, Zenon DEF OpToRel
  <2>8. Done(m - 1)
    BY <2>4, <2>6, <2>7 DEF Bad
  <2> QED
    BY <1>5, <2>5, <2>8 DEF Bad
<1>7. Done(n)
  <2>1. n \in 0..n
    BY <1>1
  <2> QED
    BY <1>6, <2>1
<1> DEFINE r == after[n]
<1>8. /\ Sound(r, W, h) /\ \A d \in Clients : Open(r, d) <=> Open(s, d)
      /\ \A d \in Clients : Drained(r, d)
      /\ \A i \in 1..n : PausedFull(r, s.list[i])
  BY <1>7 DEF Done
<1>9. ASSUME NEW d \in Clients PROVE PausedFull(r, d)
  <2>1. CASE Open(s, d)
    <3>1. \E i \in 1..n : s.list[i] = d
      BY <2>1 DEF Sound, Listing, n
    <3> QED
      BY <1>8, <3>1
  <2>2. CASE ~Open(s, d)
    BY <1>8, <2>2 DEF PausedFull
  <2> QED
    BY <2>1, <2>2
<1> QED
  BY <1>2, <1>8, <1>9

---------------------------------------------------------------------------
(* The steps.                                                              *)

\* The properties the runs check, from the invariant.
LEMMA QueryProperties ==
  ASSUME QueryInv
  PROVE  TypeOK /\ RefCountExact /\ ActiveCountExact /\ ListExact /\ PausedOnlyWhenFull
<1>1. /\ client \in [Clients -> Client] /\ query_clients \in Seq(Clients)
      /\ active_queries_count \in 0..MaxQueries /\ tasks \subseteq Task
      /\ Loop.client = client /\ Loop.list = query_clients
      /\ Loop.active = active_queries_count /\ Loop.tasks = tasks
  BY Fields DEF QueryInv, Sound, Loop
<1>2. TypeOK
  BY <1>1 DEF QueryInv, Sound, TypeOK
<1>3. RefCountExact
  <2>1. ASSUME NEW c \in Clients
        PROVE  client[c].ref_count = One(client[c].handle \in {"open", "closing"})
                 + Cardinality(TasksOf(tasks, c)) + Cardinality(Of(c, writes))
    <3>1. client[c].ref_count = One(client[c].handle \in {"open", "closing"})
            + Cardinality(TasksOf(tasks, c)) + Cardinality(Of(c, writes)) + Resting[c]
      BY <1>1 DEF QueryInv, Sound, Counted
    <3>2. /\ One(client[c].handle \in {"open", "closing"}) \in Int
          /\ Cardinality(TasksOf(tasks, c)) \in Int /\ Cardinality(Of(c, writes)) \in Int
      BY <1>1, FS_Subset, FS_CardinalityType DEF QueryInv, Sound, One, TasksOf, Of
    <3>3. Resting[c] = 0
      BY DEF Resting
    <3> QED
      BY <3>1, <3>2, <3>3
  <2> QED
    BY <2>1 DEF RefCountExact, One, TasksOf
<1>4. ActiveCountExact
  BY <1>1 DEF QueryInv, Sound, Counted, ActiveCountExact
<1>5. ListExact
  BY <1>1, LenProperties DEF QueryInv, Sound, Listing, ListExact, IsInjective, ToSet, Open
<1>6. PausedOnlyWhenFull
  BY <1>1 DEF QueryInv, Drained, PausedFull, Open, PausedOnlyWhenFull
<1> QED
  BY <1>2, <1>3, <1>4, <1>5, <1>6

\* Init.
LEMMA QueryInit == Init => QueryInv
<1> SUFFICES ASSUME Init PROVE QueryInv
  OBVIOUS
<1> USE DEF Init
<1>1. /\ Loop.client = [c \in Clients |-> NoClient] /\ Loop.list = <<>> /\ Loop.active = 0
      /\ Loop.tasks = {} /\ writes = {}
  BY DEF Loop
<1>2. NoClient \in Client
  BY DEF NoClient, Client
<1>3. Loop \in LoopState
  BY <1>2, QueryConstants DEF Loop, LoopState
<1>4. IsFiniteSet({}) /\ Cardinality({}) = 0
  BY FS_EmptySet
<1>5. /\ Listing(Loop) /\ Numbered(Loop, writes)
  BY <1>1 DEF Listing, Numbered, Open, NoClient
<1>6. Buffered(Loop)
  <2>1. 0 <= 0 \div ReqSize /\ 0 <= MaxRequests * ReqSize
    BY Complete, QueryConstants
  <2> QED
    BY <1>1, <2>1 DEF Buffered, NoClient
<1>7. Counted(Loop, writes, Resting)
  <2>1. ASSUME NEW c \in Clients
        PROVE  Cardinality(TasksOf({}, c)) = 0 /\ Cardinality(Of(c, {})) = 0
    <3>1. TasksOf({}, c) = {} /\ Of(c, {}) = {}
      BY DEF TasksOf, Of
    <3> QED
      BY <1>4, <3>1
  <2> QED
    BY <1>1, <1>4, <2>1 DEF Counted, NoClient, Resting, One
<1>8. Sound(Loop, writes, Resting)
  BY <1>1, <1>3, <1>4, <1>5, <1>6, <1>7 DEF Sound
<1>9. \A c \in Clients : Drained(Loop, c) /\ PausedFull(Loop, c)
  BY <1>1 DEF Drained, PausedFull, Open, NoClient
<1> QED
  BY <1>8, <1>9 DEF QueryInv

\* A callback that ends in state r.
LEMMA Committing ==
  ASSUME NEW r \in LoopState, Commit(r)
  PROVE  Loop' = r
BY Fields DEF Commit, Loop

\* An end of stream or an error.
LEMMA StepClientGone ==
  ASSUME QueryInv, NEW c \in Clients, OnClientGone(c)
  PROVE  QueryInv'
<1> DEFINE r == Close(Loop, c)
<1>1. Sound(Loop, writes, Resting) /\ \A d \in Clients : Drained(Loop, d) /\ PausedFull(Loop, d)
  BY DEF QueryInv
<1>2. /\ Sound(r, writes, Resting)
      /\ \A d \in Clients : Drained(r, d) /\ PausedFull(r, d)
  BY <1>1, Closing
<1>3. Commit(r) /\ UNCHANGED <<writes, listening, answered, dropped>>
  BY DEF OnClientGone
<1> HIDE DEF r
<1>4. Loop' = r
  BY <1>2, <1>3, Committing DEF Sound
<1> QED
  BY <1>2, <1>3, <1>4 DEF QueryInv

\* A new client has one reference, that of its handle, and no request.
LEMMA Accepting ==
  ASSUME NEW s, NEW W, Sound(s, W, Resting), NEW c \in Clients, s.client[c].handle = "none",
         NEW v \in Client, v.handle \in {"open", "closing"}, v.ref_count = 1,
         v.received = 0, v.taken = 0, ~v.is_paused,
         NEW r \in LoopState, r.client = [s.client EXCEPT ![c] = v],
         r.active = s.active, r.tasks = s.tasks, Listing(r)
  PROVE  /\ Sound(r, W, Resting)
         /\ \A d \in Clients : Drained(s, d) => Drained(r, d)
         /\ \A d \in Clients : PausedFull(s, d) => PausedFull(r, d)
<1>1. /\ s \in LoopState /\ s.client[c] \in Client
      /\ s.client \in [Clients -> Client] /\ s.tasks \subseteq Task
      /\ s.client[c].received = 0 /\ s.client[c].taken = 0
  BY Fields DEF Sound, Buffered
<1>2. /\ r.client[c] = v
      /\ \A d \in Clients : d # c => r.client[d] = s.client[d]
  BY <1>1
<1>3. /\ \A t \in s.tasks : t.req[1] \in Clients /\ t.req[1] # c
      /\ \A w \in W : w[1] \in Clients /\ w[1] # c
  BY <1>1 DEF Sound, Numbered, Task, Request
<1>4. Numbered(r, W)
  BY <1>2, <1>3 DEF Sound, Numbered
<1>5. Buffered(r)
  <2>1. 0 \div ReqSize \in Nat /\ 0 <= MaxRequests * ReqSize
    BY Complete, QueryConstants
  <2>2. ASSUME NEW d \in Clients
        PROVE  /\ r.client[d].received <= MaxRequests * ReqSize
               /\ r.client[d].taken <= r.client[d].received \div ReqSize
               /\ r.client[d].handle = "none" =>
                    /\ r.client[d].received = 0 /\ r.client[d].taken = 0
                    /\ ~r.client[d].is_paused
    <3>1. CASE d = c
      BY <1>2, <2>1, <3>1
    <3>2. CASE d # c
      BY <1>2, <3>2 DEF Sound, Buffered
    <3> QED
      BY <3>1, <3>2
  <2> QED
    BY <2>2 DEF Buffered
<1>6. Counted(r, W, Resting)
  <2>1. ASSUME NEW d \in Clients
        PROVE  r.client[d].ref_count = One(r.client[d].handle \in {"open", "closing"})
                 + Cardinality(TasksOf(r.tasks, d)) + Cardinality(Of(d, W)) + Resting[d]
    <3>1. CASE d = c
      <4>1. TasksOf(s.tasks, c) = {} /\ Of(c, W) = {}
        BY <1>3 DEF TasksOf, Of
      <4>2. Cardinality(TasksOf(s.tasks, c)) = 0 /\ Cardinality(Of(c, W)) = 0
        BY <4>1, FS_EmptySet
      <4> QED
        BY <1>2, <3>1, <4>2 DEF Resting, One
    <3>2. CASE d # c
      BY <1>2, <3>2 DEF Sound, Counted
    <3> QED
      BY <3>1, <3>2
  <2> QED
    BY <2>1 DEF Sound, Counted
<1>7. Sound(r, W, Resting)
  BY <1>4, <1>5, <1>6 DEF Sound
<1>8. ASSUME NEW d \in Clients
      PROVE  /\ Drained(s, d) => Drained(r, d)
             /\ PausedFull(s, d) => PausedFull(r, d)
  <2>1. CASE d = c
    <3>1. 0 \div ReqSize = 0
      BY QueryConstants
    <3> QED
      BY <1>2, <2>1, <3>1 DEF Drained, PausedFull, Waiting
  <2>2. CASE d # c
    BY <1>2, <2>2 DEF Drained, PausedFull, Waiting, Open
  <2> QED
    BY <2>1, <2>2
<1> QED
  BY <1>7, <1>8

\* The fields of the event loop's state between callbacks.
LEMMA LoopFields ==
  ASSUME QueryInv
  PROVE  /\ client \in [Clients -> Client] /\ query_clients \in Seq(Clients)
         /\ active_queries_count \in 0..MaxQueries /\ tasks \subseteq Task
         /\ Loop.client = client /\ Loop.list = query_clients
         /\ Loop.active = active_queries_count /\ Loop.tasks = tasks
         /\ Sound(Loop, writes, Resting)
         /\ \A d \in Clients : Drained(Loop, d) /\ PausedFull(Loop, d)
         /\ Len(query_clients) \in Nat
         /\ \A i \in 1..Len(query_clients) : query_clients[i] \in Clients
BY Fields DEF QueryInv, Sound, Loop

\* A connection is accepted.
LEMMA StepConnection ==
  ASSUME QueryInv, NEW c \in Clients, OnReadConnection(c)
  PROVE  QueryInv'
<1> DEFINE opened == [client[c] EXCEPT !.handle = "open", !.ref_count = 1]
<1> DEFINE closed == [client[c] EXCEPT !.handle = "closing", !.ref_count = 1]
<1>1. /\ client \in [Clients -> Client] /\ query_clients \in Seq(Clients)
      /\ active_queries_count \in 0..MaxQueries /\ tasks \subseteq Task
      /\ Loop.client = client /\ Loop.list = query_clients
      /\ Loop.active = active_queries_count /\ Loop.tasks = tasks
      /\ Sound(Loop, writes, Resting)
      /\ \A d \in Clients : Drained(Loop, d) /\ PausedFull(Loop, d)
      /\ Len(query_clients) \in Nat
      /\ \A i \in 1..Len(query_clients) : query_clients[i] \in Clients
  BY LoopFields
<1>2. /\ client[c] \in Client /\ client[c].handle = "none" /\ client[c].received = 0
      /\ client[c].taken = 0 /\ ~client[c].is_paused
  BY <1>1 DEF OnReadConnection, Sound, Buffered
<1>3. /\ opened \in Client /\ opened.handle = "open" /\ opened.ref_count = 1
      /\ opened.received = 0 /\ opened.taken = 0 /\ ~opened.is_paused
      /\ closed \in Client /\ closed.handle = "closing" /\ closed.ref_count = 1
      /\ closed.received = 0 /\ closed.taken = 0 /\ ~closed.is_paused
  <2>1. client[c] \in Client
    BY <1>2
  <2>2. opened \in Client /\ closed \in Client
    <3> DEFINE o == [client[c] EXCEPT !.handle = "open"]
    <3> DEFINE k == [client[c] EXCEPT !.handle = "closing"]
    <3>1. o \in Client /\ k \in Client
      BY <2>1 DEF Client
    <3>2. opened = [o EXCEPT !.ref_count = 1] /\ closed = [k EXCEPT !.ref_count = 1]
      OBVIOUS
    <3> HIDE DEF o, k, opened, closed
    <3> QED
      BY <3>1, <3>2 DEF Client
  <2>3. /\ opened.handle = "open" /\ opened.ref_count = 1
        /\ opened.received = client[c].received /\ opened.taken = client[c].taken
        /\ opened.is_paused = client[c].is_paused
        /\ closed.handle = "closing" /\ closed.ref_count = 1
        /\ closed.received = client[c].received /\ closed.taken = client[c].taken
        /\ closed.is_paused = client[c].is_paused
    BY <2>1 DEF Client
  <2> HIDE DEF opened, closed
  <2> QED
    BY <1>2, <2>2, <2>3
<1>4. UNCHANGED <<writes, listening, answered, dropped>>
  BY DEF OnReadConnection
<1>5. \/ /\ client' = [client EXCEPT ![c] = opened] /\ query_clients' = <<c>> \o query_clients
         /\ active_queries_count' = active_queries_count /\ tasks' = tasks
      \/ /\ client' = [client EXCEPT ![c] = closed] /\ query_clients' = query_clients
         /\ active_queries_count' = active_queries_count /\ tasks' = tasks
  BY <1>1 DEF OnReadConnection, Commit, Loop
<1> HIDE DEF opened, closed
<1>6. /\ Loop'.client = client' /\ Loop'.list = query_clients'
      /\ Loop'.active = active_queries_count' /\ Loop'.tasks = tasks'
  BY DEF Loop
<1>7. \A i \in 1..Len(query_clients) : query_clients[i] # c
  BY <1>1, <1>2 DEF Sound, Listing, Open
<1>8. CASE /\ client' = [client EXCEPT ![c] = opened] /\ query_clients' = <<c>> \o query_clients
           /\ active_queries_count' = active_queries_count /\ tasks' = tasks
  <2>1. /\ query_clients' \in Seq(Clients) /\ Len(query_clients') = Len(query_clients) + 1
        /\ query_clients'[1] = c
        /\ \A i \in 1..Len(query_clients) : query_clients'[i + 1] = query_clients[i]
    <3>1. <<c>> \in Seq(Clients) /\ Len(<<c>>) = 1 /\ <<c>>[1] = c
      OBVIOUS
    <3> QED
      BY <1>1, <1>8, <3>1, ConcatProperties
  <2>2. client' \in [Clients -> Client]
    BY <1>1, <1>3, <1>8
  <2>3. Loop' \in LoopState
    BY <1>1, <1>8, <2>1, <2>2 DEF Loop, LoopState
  <2>4. \A i \in 1..Len(query_clients') :
          query_clients'[i] = IF i = 1 THEN c ELSE query_clients[i - 1]
    BY <1>1, <2>1
  <2>5. \A i, j \in 1..Len(query_clients') : query_clients'[i] = query_clients'[j] => i = j
    <3>1. \A i, j \in 1..Len(query_clients) : query_clients[i] = query_clients[j] => i = j
      BY <1>1 DEF Sound, Listing
    <3> SUFFICES ASSUME NEW i \in 1..Len(query_clients'), NEW j \in 1..Len(query_clients'),
                        query_clients'[i] = query_clients'[j]
                 PROVE  i = j
      OBVIOUS
    <3>2. /\ i # 1 => i - 1 \in 1..Len(query_clients)
          /\ j # 1 => j - 1 \in 1..Len(query_clients)
      BY <1>1, <2>1
    <3>3. i = 1 <=> j = 1
      BY <1>7, <2>4, <3>2
    <3>4. CASE i # 1 /\ j # 1
      <4>1. i - 1 = j - 1
        BY <2>4, <3>1, <3>2, <3>4
      <4> QED
        BY <1>1, <2>1, <4>1
    <3> QED
      BY <3>3, <3>4
  <2>6. ASSUME NEW d \in Clients
        PROVE  Open(Loop', d) <=> \E i \in 1..Len(query_clients') : query_clients'[i] = d
    <3>1. CASE d = c
      <4>1. Open(Loop', d) /\ 1 \in 1..Len(query_clients')
        BY <1>1, <1>3, <1>6, <1>8, <2>1, <3>1 DEF Open
      <4> QED
        BY <2>1, <3>1, <4>1
    <3>2. CASE d # c
      <4>1. Open(Loop', d) <=> Open(Loop, d)
        BY <1>1, <1>6, <1>8, <3>2 DEF Open
      <4>2. Open(Loop, d) <=> \E i \in 1..Len(query_clients) : query_clients[i] = d
        BY <1>1 DEF Sound, Listing
      <4>3. ASSUME NEW i \in 1..Len(query_clients), query_clients[i] = d
            PROVE  \E j \in 1..Len(query_clients') : query_clients'[j] = d
        <5>1. i + 1 \in 1..Len(query_clients') /\ query_clients'[i + 1] = d
          BY <1>1, <2>1, <4>3
        <5> QED
          BY <5>1
      <4>4. ASSUME NEW j \in 1..Len(query_clients'), query_clients'[j] = d
            PROVE  \E i \in 1..Len(query_clients) : query_clients[i] = d
        <5>1. j - 1 \in 1..Len(query_clients) /\ query_clients[j - 1] = d
          BY <1>1, <2>1, <2>4, <3>2, <4>4
        <5> QED
          BY <5>1
      <4> QED
        BY <4>1, <4>2, <4>3, <4>4
    <3> QED
      BY <3>1, <3>2
  <2>7. Listing(Loop')
    BY <1>6, <2>5, <2>6 DEF Listing
  <2>8. /\ Sound(Loop', writes, Resting)
        /\ \A d \in Clients : Drained(Loop', d) /\ PausedFull(Loop', d)
    <3>1. /\ Loop.client[c].handle = "none" /\ Loop'.client = [Loop.client EXCEPT ![c] = opened]
          /\ Loop'.active = Loop.active /\ Loop'.tasks = Loop.tasks
          /\ opened.handle \in {"open", "closing"}
      BY <1>1, <1>2, <1>3, <1>6, <1>8
    <3> DEFINE s == Loop
    <3> DEFINE r == Loop'
    <3>2. /\ Sound(s, writes, Resting) /\ s.client[c].handle = "none" /\ r \in LoopState
          /\ r.client = [s.client EXCEPT ![c] = opened] /\ r.active = s.active
          /\ r.tasks = s.tasks /\ Listing(r)
      BY <1>1, <2>3, <2>7, <3>1
    <3> HIDE DEF s, r
    <3>3. /\ Sound(r, writes, Resting)
          /\ \A d \in Clients : Drained(s, d) => Drained(r, d)
          /\ \A d \in Clients : PausedFull(s, d) => PausedFull(r, d)
      BY <1>3, <3>1, <3>2, Accepting
    <3> QED
      BY <1>1, <3>3 DEF s, r
  <2> QED
    BY <1>4, <2>8 DEF QueryInv
<1>9. CASE /\ client' = [client EXCEPT ![c] = closed] /\ query_clients' = query_clients
           /\ active_queries_count' = active_queries_count /\ tasks' = tasks
  <2>1. client' \in [Clients -> Client]
    BY <1>1, <1>3, <1>9
  <2>2. Loop' \in LoopState
    BY <1>1, <1>9, <2>1 DEF Loop, LoopState
  <2>3. \A d \in Clients : Open(Loop', d) <=> Open(Loop, d)
    BY <1>1, <1>2, <1>3, <1>6, <1>9 DEF Open
  <2>4. Listing(Loop')
    BY <1>1, <1>6, <1>9, <2>3 DEF Sound, Listing
  <2>5. /\ Sound(Loop', writes, Resting)
        /\ \A d \in Clients : Drained(Loop', d) /\ PausedFull(Loop', d)
    <3>1. /\ Loop.client[c].handle = "none" /\ Loop'.client = [Loop.client EXCEPT ![c] = closed]
          /\ Loop'.active = Loop.active /\ Loop'.tasks = Loop.tasks
          /\ closed.handle \in {"open", "closing"}
      BY <1>1, <1>2, <1>3, <1>6, <1>9
    <3> DEFINE s == Loop
    <3> DEFINE r == Loop'
    <3>2. /\ Sound(s, writes, Resting) /\ s.client[c].handle = "none" /\ r \in LoopState
          /\ r.client = [s.client EXCEPT ![c] = closed] /\ r.active = s.active
          /\ r.tasks = s.tasks /\ Listing(r)
      BY <1>1, <2>2, <2>4, <3>1
    <3> HIDE DEF s, r
    <3>3. /\ Sound(r, writes, Resting)
          /\ \A d \in Clients : Drained(s, d) => Drained(r, d)
          /\ \A d \in Clients : PausedFull(s, d) => PausedFull(r, d)
      BY <1>3, <3>1, <3>2, Accepting
    <3> QED
      BY <1>1, <3>3 DEF s, r
  <2> QED
    BY <1>4, <2>5 DEF QueryInv
<1> QED
  BY <1>5, <1>8, <1>9

\* Bytes arrive: they are added to the buffer, then requests are dispatched.
LEMMA StepClientQuery ==
  ASSUME QueryInv, NEW c \in Clients, NEW n \in Nat, OnClientQuery(c, n)
  PROVE  QueryInv'
<1> DEFINE s == [Loop EXCEPT !.client[c].received = @ + n]
<1> DEFINE v == [client[c] EXCEPT !.received = @ + n]
<1> DEFINE r == DispatchQueries(s, c)
<1>1. /\ client \in [Clients -> Client] /\ query_clients \in Seq(Clients)
      /\ active_queries_count \in 0..MaxQueries /\ tasks \subseteq Task
      /\ Loop.client = client /\ Loop.list = query_clients
      /\ Loop.active = active_queries_count /\ Loop.tasks = tasks
      /\ Sound(Loop, writes, Resting)
      /\ \A d \in Clients : Drained(Loop, d) /\ PausedFull(Loop, d)
  BY LoopFields
<1>2. /\ Reading(c) /\ client[c].received + n <= MaxRequests * ReqSize
      /\ Commit(r) /\ UNCHANGED <<writes, listening, answered, dropped>>
  BY DEF OnClientQuery
<1>3. /\ client[c] \in Client /\ client[c].received \in Nat
  BY <1>1 DEF Client
<1>4. /\ v \in Client /\ v.handle = client[c].handle /\ v.ref_count = client[c].ref_count
      /\ v.received = client[c].received + n /\ v.taken = client[c].taken
      /\ v.is_paused = client[c].is_paused
  <2>1. client[c] \in Client /\ client[c].received + n \in Nat
    BY <1>3
  <2> QED
    BY <2>1 DEF Client
<1>5. /\ s.client = [client EXCEPT ![c] = v] /\ s.list = query_clients
      /\ s.active = active_queries_count /\ s.tasks = tasks
      /\ s = [client |-> s.client, list |-> s.list, active |-> s.active, tasks |-> s.tasks]
  <2>1. s = [Loop EXCEPT !.client = [client EXCEPT ![c] = v]]
    BY <1>1
  <2> HIDE DEF v, s
  <2> QED
    BY <1>1, <2>1 DEF Loop
<1> HIDE DEF s, v, r
<1>6. /\ s.client \in [Clients -> Client] /\ s.client[c] = v
      /\ \A d \in Clients : d # c => s.client[d] = client[d]
  BY <1>1, <1>4, <1>5
<1>7. s \in LoopState
  BY <1>1, <1>5, <1>6 DEF LoopState
<1>8. \A d \in Clients : /\ s.client[d].taken = client[d].taken
                         /\ s.client[d].is_paused = client[d].is_paused
                         /\ s.client[d].handle = client[d].handle
                         /\ s.client[d].ref_count = client[d].ref_count
  BY <1>4, <1>6
<1>9. Numbered(s, writes)
  <2>1. \A t \in tasks : t.req[1] \in Clients
    BY <1>1 DEF Task, Request
  <2>2. \A w \in writes : w[1] \in Clients
    BY <1>1 DEF Sound, Request
  <2> QED
    BY <1>1, <1>5, <1>8, <2>1, <2>2 DEF Sound, Numbered
<1>10. Buffered(s)
  <2>1. ASSUME NEW d \in Clients
        PROVE  /\ s.client[d].received <= MaxRequests * ReqSize
               /\ s.client[d].taken <= s.client[d].received \div ReqSize
               /\ s.client[d].handle = "none" =>
                    /\ s.client[d].received = 0 /\ s.client[d].taken = 0
                    /\ ~s.client[d].is_paused
    <3>1. CASE d = c
      <4>1. client[c].received \div ReqSize <= (client[c].received + n) \div ReqSize
        BY <1>3, Complete
      <4>2. client[c].taken <= client[c].received \div ReqSize /\ client[c].taken \in Nat
        BY <1>1, <1>3 DEF Sound, Buffered, Client
      <4>3. /\ client[c].received \div ReqSize \in Nat
            /\ (client[c].received + n) \div ReqSize \in Nat
        BY <1>3, Complete
      <4>4. client[c].handle = "open"
        BY <1>2 DEF Reading
      <4> QED
        BY <1>2, <1>4, <1>6, <3>1, <4>1, <4>2, <4>3, <4>4
    <3>2. CASE d # c
      BY <1>1, <1>6, <3>2 DEF Sound, Buffered
    <3> QED
      BY <3>1, <3>2
  <2> QED
    BY <2>1 DEF Buffered
<1>11. Listing(s) /\ Counted(s, writes, Resting)
  BY <1>1, <1>5, <1>8 DEF Sound, Listing, Open, Counted
<1>12. Sound(s, writes, Resting)
  BY <1>1, <1>5, <1>7, <1>9, <1>10, <1>11 DEF Sound
<1>13. Open(s, c) /\ ~s.client[c].is_paused /\ Resting \in [Clients -> Int]
  BY <1>2, <1>8 DEF Open, Reading, Resting
<1>14. /\ Sound(r, writes, Resting) /\ r.active >= s.active
       /\ \A d \in Clients : Open(r, d) <=> Open(s, d)
       /\ \A d \in Clients \ {c} : r.client[d] = s.client[d]
       /\ Drained(r, c)
       /\ r.client[c].is_paused => s.client[c].is_paused \/ r.active = MaxQueries
  BY <1>12, <1>13, Dispatching DEF r
<1>15. r.active \in 0..MaxQueries
  BY <1>14, Fields DEF Sound
<1>16. ASSUME NEW d \in Clients PROVE Drained(r, d) /\ PausedFull(r, d)
  <2>1. CASE d = c
    BY <1>13, <1>14, <2>1 DEF PausedFull
  <2>2. CASE d # c
    <3>1. r.client[d] = client[d]
      BY <1>6, <1>14, <2>2
    <3>2. Drained(Loop, d) /\ PausedFull(Loop, d)
      BY <1>1
    <3> QED
      BY <1>1, <1>5, <1>14, <1>15, <3>1, <3>2, QueryConstants
        DEF Drained, PausedFull, Open, Waiting
  <2> QED
    BY <2>1, <2>2
<1>17. Loop' = r
  BY <1>2, <1>14, Committing DEF Sound
<1> QED
  BY <1>2, <1>14, <1>16, <1>17 DEF QueryInv

\* client_retain and client_release.
LEMMA Retaining ==
  ASSUME NEW s, NEW W, NEW h \in [Clients -> Int], Sound(s, W, h), NEW c \in Clients
  PROVE  Sound(ClientRetain(s, c), W, [h EXCEPT ![c] = @ + 1]) /\ Calm(s, ClientRetain(s, c))
<1>1. ClientRetain(s, c) = Hold(s, c, 1)
  BY DEF ClientRetain, Hold
<1>2. 1 \in Int
  OBVIOUS
<1>3. Sound(Hold(s, c, 1), W, [h EXCEPT ![c] = @ + 1]) /\ Calm(s, Hold(s, c, 1))
  BY <1>2, Holding, Zenon
<1> QED
  BY <1>1, <1>3

\* The same for a reference that is dropped.
LEMMA Releasing ==
  ASSUME NEW s, NEW W, NEW h \in [Clients -> Int], Sound(s, W, h), NEW c \in Clients
  PROVE  Sound(ClientRelease(s, c), W, [h EXCEPT ![c] = @ - 1]) /\ Calm(s, ClientRelease(s, c))
<1> DEFINE r == ClientRelease(s, c)
<1>1. s.client[c].ref_count \in Int /\ h[c] \in Int
  BY Fields DEF Sound, Client
<1>2. r = Hold(s, c, -1)
  BY <1>1 DEF ClientRelease, Hold
<1>3. [h EXCEPT ![c] = @ + (-1)] = [h EXCEPT ![c] = @ - 1]
  BY <1>1
<1> HIDE DEF r
<1>4. Sound(Hold(s, c, -1), W, [h EXCEPT ![c] = @ + (-1)]) /\ Calm(s, Hold(s, c, -1))
  <2>1. -1 \in Int
    OBVIOUS
  <2> QED
    BY <2>1, Holding, Zenon
<1> QED
  BY <1>2, <1>3, <1>4 DEF r

\* A write ends: its reference passes to the running callback.
LEMMA Written ==
  ASSUME NEW s, NEW W, NEW h \in [Clients -> Int], Sound(s, W, h), NEW q \in W
  PROVE  Sound(s, W \ {q}, [h EXCEPT ![q[1]] = @ + 1])
<1> DEFINE c == q[1]
<1> DEFINE X == W \ {q}
<1>1. IsFiniteSet(W) /\ W \subseteq Request /\ c \in Clients
  BY DEF Sound, Request
<1>2. IsFiniteSet(X) /\ X \subseteq Request
  BY <1>1, FS_RemoveElement
<1>3. Numbered(s, X)
  BY DEF Sound, Numbered
<1>4. ASSUME NEW d \in Clients
      PROVE  s.client[d].ref_count = One(s.client[d].handle \in {"open", "closing"})
                 + Cardinality(TasksOf(s.tasks, d)) + Cardinality(Of(d, X))
                 + [h EXCEPT ![c] = @ + 1][d]
  <2>1. s.client[d].ref_count = One(s.client[d].handle \in {"open", "closing"})
                 + Cardinality(TasksOf(s.tasks, d)) + Cardinality(Of(d, W)) + h[d]
    BY DEF Sound, Counted
  <2>2. /\ One(s.client[d].handle \in {"open", "closing"}) \in Int
        /\ Cardinality(TasksOf(s.tasks, d)) \in Int /\ Cardinality(Of(d, W)) \in Int
        /\ IsFiniteSet(Of(d, W))
    BY FS_Subset, FS_CardinalityType DEF Sound, One, TasksOf, Of
  <2>3. [h EXCEPT ![c] = @ + 1][d] = h[d] + (IF d = c THEN 1 ELSE 0) /\ h[d] \in Int
    OBVIOUS
  <2>4. Cardinality(Of(d, X)) = Cardinality(Of(d, W)) - (IF d = c THEN 1 ELSE 0)
    <3>1. CASE d = c
      <4>1. Of(d, X) = Of(d, W) \ {q} /\ q \in Of(d, W)
        BY <3>1 DEF Of
      <4>2. Cardinality(Of(d, W) \ {q}) = Cardinality(Of(d, W)) - 1
        BY <2>2, <4>1, FS_RemoveElement
      <4>3. Cardinality(Of(d, X)) = Cardinality(Of(d, W) \ {q})
        BY <4>1
      <4> QED
        BY <3>1, <4>2, <4>3
    <3>2. CASE d # c
      <4>1. Of(d, X) = Of(d, W)
        BY <3>2 DEF Of
      <4>2. Cardinality(Of(d, X)) = Cardinality(Of(d, W))
        BY <4>1
      <4> QED
        BY <2>2, <3>2, <4>2
    <3> QED
      BY <3>1, <3>2
  <2> HIDE DEF c, X
  <2> QED
    BY <2>1, <2>2, <2>3, <2>4
<1>5. Counted(s, X, [h EXCEPT ![c] = @ + 1])
  BY <1>4 DEF Sound, Counted
<1> QED
  BY <1>2, <1>3, <1>5 DEF Sound

\* Taking a reference and dropping one leaves the callback with none.
LEMMA Balance ==
  ASSUME NEW c \in Clients
  PROVE  /\ Resting \in [Clients -> Int] /\ [Resting EXCEPT ![c] = @ + 1] \in [Clients -> Int]
         /\ [Resting EXCEPT ![c] = @ - 1] \in [Clients -> Int]
         /\ [[Resting EXCEPT ![c] = @ + 1] EXCEPT ![c] = @ + 1] \in [Clients -> Int]
         /\ [[Resting EXCEPT ![c] = @ + 1] EXCEPT ![c] = @ - 1] = Resting
         /\ [[Resting EXCEPT ![c] = @ - 1] EXCEPT ![c] = @ + 1] = Resting
         /\ [[[Resting EXCEPT ![c] = @ + 1] EXCEPT ![c] = @ + 1] EXCEPT ![c] = @ - 1]
              = [Resting EXCEPT ![c] = @ + 1]
BY DEF Resting

\* A response was sent, or could not be.
LEMMA StepRespComplete ==
  ASSUME QueryInv, NEW w \in writes, OnQueryRespComplete(w)
  PROVE  QueryInv'
<1> DEFINE c == w[1]
<1>1. Sound(Loop, writes, Resting) /\ \A d \in Clients : Drained(Loop, d) /\ PausedFull(Loop, d)
  BY DEF QueryInv
<1>2. c \in Clients
  BY <1>1 DEF Sound, Request
<1>3. PICK s \in {Loop, Close(Loop, c)} : Commit(ClientRelease(s, c))
  BY DEF OnQueryRespComplete
<1>4. UNCHANGED <<listening, answered, dropped>> /\ writes' = writes \ {w}
  BY DEF OnQueryRespComplete
<1>5. Sound(s, writes, Resting) /\ \A d \in Clients : Drained(s, d) /\ PausedFull(s, d)
  BY <1>1, <1>2, <1>3, Closing
<1> DEFINE r == ClientRelease(s, c)
<1> HIDE DEF c
<1>6. /\ Sound(r, writes, [Resting EXCEPT ![c] = @ - 1])
      /\ \A d \in Clients : Drained(r, d) /\ PausedFull(r, d)
  BY <1>2, <1>5, Balance, Releasing DEF Calm
<1> HIDE DEF r
<1>7. Sound(r, writes \ {w}, [[Resting EXCEPT ![c] = @ - 1] EXCEPT ![c] = @ + 1])
  BY <1>2, <1>6, Balance, Written DEF c
<1>8. Sound(r, writes \ {w}, Resting)
  BY <1>2, <1>7, Balance
<1>9. Loop' = r
  BY <1>3, <1>6, Committing DEF Sound, r
<1> QED
  BY <1>4, <1>6, <1>8, <1>9 DEF QueryInv

\* The handle of c is closed.
Closed(s, c) == [s EXCEPT !.client[c].handle = "closed"]

\* The handle of a closing client is closed; its reference passes to the callback.
LEMMA HandleClosed ==
  ASSUME NEW s, NEW W, NEW h \in [Clients -> Int], Sound(s, W, h), NEW c \in Clients,
         s.client[c].handle = "closing"
  PROVE  Sound(Closed(s, c), W, [h EXCEPT ![c] = @ + 1]) /\ Calm(s, Closed(s, c))
<1> DEFINE r == Closed(s, c)
<1> DEFINE v == [s.client[c] EXCEPT !.handle = "closed"]
<1>1. /\ s \in LoopState /\ s.client[c] \in Client
      /\ s.client \in [Clients -> Client] /\ s.list \in Seq(Clients)
      /\ s.active \in 0..MaxQueries /\ s.tasks \subseteq Task
  BY Fields DEF Sound
<1>2. /\ v \in Client /\ v.handle = "closed" /\ v.ref_count = s.client[c].ref_count
      /\ v.received = s.client[c].received /\ v.taken = s.client[c].taken
      /\ v.is_paused = s.client[c].is_paused
  <2>1. s.client[c] \in Client
    BY <1>1
  <2> QED
    BY <2>1 DEF Client
<1>3. /\ r.client = [s.client EXCEPT ![c] = v] /\ r.list = s.list
      /\ r.active = s.active /\ r.tasks = s.tasks
      /\ r = [client |-> r.client, list |-> r.list, active |-> r.active, tasks |-> r.tasks]
  <2>1. r = [s EXCEPT !.client = [s.client EXCEPT ![c] = v]]
    BY <1>1 DEF Closed
  <2> HIDE DEF v, r
  <2> QED
    BY <1>1, <2>1 DEF LoopState
<1> HIDE DEF v, r
<1>4. /\ r.client \in [Clients -> Client] /\ r.client[c] = v
      /\ \A d \in Clients : d # c => r.client[d] = s.client[d]
  BY <1>1, <1>2, <1>3
<1>5. r \in LoopState
  BY <1>1, <1>3, <1>4 DEF LoopState
<1>6. \A d \in Clients : /\ r.client[d].taken = s.client[d].taken
                         /\ r.client[d].received = s.client[d].received
                         /\ r.client[d].is_paused = s.client[d].is_paused
                         /\ r.client[d].handle = "none" => s.client[d].handle = "none"
                         /\ r.client[d].ref_count = s.client[d].ref_count
                         /\ Open(r, d) <=> Open(s, d)
  BY <1>2, <1>4 DEF Open
<1>7. Numbered(r, W)
  <2>1. \A t \in s.tasks : t.req[1] \in Clients
    BY <1>1 DEF Task, Request
  <2>2. \A w \in W : w[1] \in Clients
    BY DEF Sound, Request
  <2> QED
    BY <1>3, <1>6, <2>1, <2>2 DEF Sound, Numbered
<1>8. Buffered(r) /\ Listing(r)
  <2>1. Buffered(r)
    BY <1>6 DEF Sound, Buffered
  <2>2. Listing(r)
    BY <1>3, <1>6 DEF Sound, Listing
  <2> QED
    BY <2>1, <2>2
<1>9. Counted(r, W, [h EXCEPT ![c] = @ + 1])
  <2>1. ASSUME NEW d \in Clients
        PROVE  r.client[d].ref_count = One(r.client[d].handle \in {"open", "closing"})
                 + Cardinality(TasksOf(r.tasks, d)) + Cardinality(Of(d, W))
                 + [h EXCEPT ![c] = @ + 1][d]
    <3>1. [h EXCEPT ![c] = @ + 1][d] = h[d] + (IF d = c THEN 1 ELSE 0) /\ h[d] \in Int
      OBVIOUS
    <3>2. s.client[d].ref_count = One(s.client[d].handle \in {"open", "closing"})
                 + Cardinality(TasksOf(s.tasks, d)) + Cardinality(Of(d, W)) + h[d]
      BY DEF Sound, Counted
    <3>3. Cardinality(TasksOf(s.tasks, d)) \in Int /\ Cardinality(Of(d, W)) \in Int
      BY FS_Subset, FS_CardinalityType DEF Sound, TasksOf, Of
    <3>4. /\ One(r.client[d].handle \in {"open", "closing"}) \in Int
          /\ One(s.client[d].handle \in {"open", "closing"})
               = One(r.client[d].handle \in {"open", "closing"}) + (IF d = c THEN 1 ELSE 0)
      BY <1>2, <1>4 DEF One
    <3> QED
      BY <1>3, <1>6, <3>1, <3>2, <3>3, <3>4
  <2> QED
    BY <1>3, <2>1 DEF Sound, Counted
<1>10. Sound(r, W, [h EXCEPT ![c] = @ + 1])
  BY <1>3, <1>5, <1>7, <1>8, <1>9 DEF Sound
<1> QED
  BY <1>3, <1>6, <1>10 DEF Calm, Drained, PausedFull, Waiting, r

\* on_client_close drops the reference of the handle.
LEMMA StepClientClose ==
  ASSUME QueryInv, NEW c \in Clients, OnClientClose(c)
  PROVE  QueryInv'
<1> DEFINE s == Closed(Loop, c)
<1> DEFINE r == ClientRelease(s, c)
<1>1. Sound(Loop, writes, Resting) /\ \A d \in Clients : Drained(Loop, d) /\ PausedFull(Loop, d)
  BY DEF QueryInv
<1>2. /\ Loop.client[c].handle = "closing" /\ Commit(r)
      /\ UNCHANGED <<writes, listening, answered, dropped>>
  BY DEF OnClientClose, Closed, Loop
<1>3. Sound(s, writes, [Resting EXCEPT ![c] = @ + 1]) /\ Calm(Loop, s)
  BY <1>1, <1>2, Balance, HandleClosed
<1> HIDE DEF s
<1>4. /\ Sound(r, writes, [[Resting EXCEPT ![c] = @ + 1] EXCEPT ![c] = @ - 1])
      /\ Calm(s, r)
  BY <1>3, Balance, Releasing
<1> HIDE DEF r
<1>5. Sound(r, writes, Resting) /\ \A d \in Clients : Drained(r, d) /\ PausedFull(r, d)
  BY <1>1, <1>3, <1>4, Balance DEF Calm
<1>6. Loop' = r
  BY <1>2, <1>5, Committing DEF Sound
<1> QED
  BY <1>2, <1>5, <1>6 DEF QueryInv

\* The end of a query: its response, its place, and the paused clients.
LEMMA StepAfterQuery ==
  ASSUME QueryInv, NEW t \in tasks, AfterQuery(t)
  PROVE  QueryInv'
<1> DEFINE c == t.req[1]
<1> DEFINE sendable == client[c].handle = "open" /\ t.state = "done"
<1>1. /\ Sound(Loop, writes, Resting) /\ \A d \in Clients : Drained(Loop, d) /\ PausedFull(Loop, d)
      /\ Loop.tasks = tasks /\ tasks \subseteq Task
  BY LoopFields
<1>2. t.req \in Request /\ c \in Clients /\ t.req \notin writes
  BY <1>1 DEF Task, Request, Sound, Numbered
<1> DEFINE Sent(queued) == IF sendable THEN SendResponse(Loop, c, queued) ELSE Loop
<1>3. PICK queued \in IF sendable THEN BOOLEAN ELSE {FALSE} :
        /\ Commit(ClientRelease(ResumeAll(Finish(Sent(queued), t)), c))
        /\ writes' = IF queued THEN writes \cup {t.req} ELSE writes
        /\ answered' = IF queued THEN answered \cup {t.req} ELSE answered
  BY DEF AfterQuery
<1>4. /\ dropped' = IF t.state = "no_memory" THEN dropped \cup {t.req} ELSE dropped
      /\ UNCHANGED listening
  BY DEF AfterQuery
<1> DEFINE u == Sent(queued)
<1> DEFINE h == IF queued THEN [Resting EXCEPT ![c] = @ + 1] ELSE Resting
<1> HIDE DEF c
<1>5. Sound(u, writes, h) /\ (\A d \in Clients : Drained(u, d)) /\ u.tasks = tasks
  <2>1. CASE ~sendable
    BY <1>1, <1>3, <2>1
  <2>2. CASE sendable /\ queued
    <3>1. u = ClientRetain(Loop, c)
      BY <2>2 DEF SendResponse
    <3>2. u.tasks = Loop.tasks
      BY <3>1 DEF ClientRetain, Loop
    <3>3. /\ Sound(ClientRetain(Loop, c), writes, [Resting EXCEPT ![c] = @ + 1])
          /\ Calm(Loop, ClientRetain(Loop, c))
      BY <1>1, <1>2, Balance, Retaining
    <3> QED
      BY <1>1, <2>2, <3>1, <3>2, <3>3 DEF Calm
  <2>3. CASE sendable /\ ~queued
    <3> DEFINE a == ClientRetain(Loop, c)
    <3> DEFINE b == ClientRelease(a, c)
    <3>1. u = Close(b, c)
      BY <2>3 DEF SendResponse
    <3>2. Sound(a, writes, [Resting EXCEPT ![c] = @ + 1]) /\ Calm(Loop, a)
      BY <1>1, <1>2, Balance, Retaining
    <3>3. a.tasks = tasks /\ b.tasks = a.tasks
      BY DEF ClientRetain, ClientRelease, Loop
    <3> HIDE DEF a
    <3>4. /\ Sound(b, writes, [[Resting EXCEPT ![c] = @ + 1] EXCEPT ![c] = @ - 1])
          /\ Calm(a, b)
      BY <1>2, <3>2, Balance, Releasing
    <3> HIDE DEF b
    <3>5. Sound(b, writes, Resting) /\ \A d \in Clients : Drained(b, d)
      BY <1>1, <1>2, <3>2, <3>4, Balance DEF Calm
    <3>6. /\ Sound(Close(b, c), writes, Resting)
          /\ \A d \in Clients : Drained(b, d) => Drained(Close(b, c), d)
      BY <1>2, <3>5, Closing
    <3>7. Close(b, c).tasks = b.tasks
      <4>1. b \in LoopState
        BY <3>5 DEF Sound
      <4> QED
        BY <4>1 DEF Close, LoopState
    <3> QED
      BY <2>3, <3>1, <3>3, <3>5, <3>6, <3>7
  <2> QED
    BY <1>3, <2>1, <2>2, <2>3
<1>6. h \in [Clients -> Int] /\ [h EXCEPT ![c] = @ + 1] \in [Clients -> Int]
  BY <1>2, Balance
<1> HIDE DEF u, Sent
<1> DEFINE s == Finish(u, t)
<1>7. /\ Sound(s, writes, [h EXCEPT ![c] = @ + 1]) /\ s.client = u.client
      /\ \A v \in s.tasks : v.req # t.req
  BY <1>5, <1>6, Finishing DEF c
<1>8. \A d \in Clients : Drained(s, d)
  BY <1>5, <1>7 DEF Drained, Open
<1>9. Sound(s, writes', [Resting EXCEPT ![c] = @ + 1])
  <2>1. CASE queued
    <3>1. t.req[2] <= s.client[t.req[1]].taken
      BY <1>5, <1>7 DEF Sound, Numbered
    <3> DEFINE g == [h EXCEPT ![c] = @ + 1]
    <3> HIDE DEF s, g, h
    <3>2. Sound(s, writes, g) /\ g \in [Clients -> Int]
      BY <1>6, <1>7 DEF g
    <3>3. Sound(s, writes \cup {t.req}, [g EXCEPT ![c] = @ - 1])
      BY <1>2, <1>7, <3>1, <3>2, Writing DEF c
    <3>4. [g EXCEPT ![c] = @ - 1] = [Resting EXCEPT ![c] = @ + 1]
      BY <1>2, <2>1, Balance DEF g, h
    <3> QED
      BY <1>3, <2>1, <3>3, <3>4
  <2>2. CASE ~queued
    BY <1>3, <1>7, <2>2
  <2> QED
    BY <2>1, <2>2
<1> HIDE DEF s
<1> DEFINE q == ResumeAll(s)
<1>10. /\ Sound(q, writes', [Resting EXCEPT ![c] = @ + 1])
       /\ \A d \in Clients : Drained(q, d) /\ PausedFull(q, d)
  BY <1>2, <1>8, <1>9, Balance, ResumingAll
<1> HIDE DEF q
<1> DEFINE r == ClientRelease(q, c)
<1>11. /\ Sound(r, writes', [[Resting EXCEPT ![c] = @ + 1] EXCEPT ![c] = @ - 1])
       /\ Calm(q, r)
  BY <1>2, <1>10, Balance, Releasing
<1> HIDE DEF r
<1>12. Sound(r, writes', Resting) /\ \A d \in Clients : Drained(r, d) /\ PausedFull(r, d)
  BY <1>2, <1>10, <1>11, Balance DEF Calm
<1>13. Loop' = r
  BY <1>3, <1>12, Committing DEF Sound, r, q, s, u
<1>14. (answered \cup dropped)' \subseteq Request /\ listening' \in BOOLEAN
  BY <1>2, <1>3, <1>4 DEF QueryInv
<1> QED
  BY <1>12, <1>13, <1>14 DEF QueryInv

\* A worker finishes a search: nothing is counted differently.
LEMMA StepBackgroundQuery ==
  ASSUME QueryInv, NEW t \in tasks, BackgroundQuery(t)
  PROVE  QueryInv'
<1>1. /\ client \in [Clients -> Client] /\ query_clients \in Seq(Clients)
      /\ active_queries_count \in 0..MaxQueries /\ tasks \subseteq Task
      /\ Loop.client = client /\ Loop.list = query_clients
      /\ Loop.active = active_queries_count /\ Loop.tasks = tasks
      /\ Sound(Loop, writes, Resting)
      /\ \A d \in Clients : Drained(Loop, d) /\ PausedFull(Loop, d)
  BY LoopFields
<1>2. /\ t.state = "queued"
      /\ UNCHANGED <<client, query_clients, active_queries_count, writes,
                     listening, answered, dropped>>
  BY DEF BackgroundQuery
<1>3. PICK result \in {"done", "no_memory"} :
        tasks' = (tasks \ {t}) \cup {[t EXCEPT !.state = result]}
  BY DEF BackgroundQuery
<1> DEFINE v == [t EXCEPT !.state = result]
<1>4. v \in Task /\ v.req = t.req /\ v.state # "queued"
  <2>1. t \in Task
    BY <1>1
  <2> QED
    BY <2>1 DEF Task
<1> HIDE DEF v
<1>5. /\ tasks' = (tasks \ {t}) \cup {v} /\ tasks' \subseteq Task
      /\ \A u \in tasks : u.req = t.req => u = t
  BY <1>1, <1>3, <1>4 DEF Sound, Numbered, v
<1>6. v \notin tasks
  BY <1>2, <1>4, <1>5
<1>7. /\ Loop'.client = Loop.client /\ Loop'.list = Loop.list
      /\ Loop'.active = Loop.active /\ Loop'.tasks = tasks'
      /\ Loop' \in LoopState
  BY <1>1, <1>2, <1>5 DEF Loop, LoopState
<1>8. /\ IsFiniteSet(tasks')
      /\ Cardinality(tasks') = Cardinality(tasks)
      /\ \A d : Cardinality(TasksOf(tasks', d)) = Cardinality(TasksOf(tasks, d))
  <2> DEFINE T == tasks \ {t}
  <2>1. IsFiniteSet(tasks)
    BY <1>1 DEF Sound
  <2>2. /\ IsFiniteSet(T) /\ Cardinality(T) = Cardinality(tasks) - 1
        /\ Cardinality(tasks) \in Nat
        /\ Cardinality(TasksOf(T, t.req[1])) = Cardinality(TasksOf(tasks, t.req[1])) - 1
        /\ \A d : d # t.req[1] => TasksOf(T, d) = TasksOf(tasks, d)
    BY <2>1, OneTaskLess
  <2>3. IsFiniteSet({v}) /\ Cardinality({v}) = 1
    BY FS_Singleton
  <2>4. NewTasksOf({v}, T, t.req[1])
    BY <1>4, <1>6 DEF NewTasksOf
  <2>5. MoreTasksOf(T \cup {v}, T, t.req[1], Cardinality({v}))
    <3> HIDE DEF T
    <3> QED
      BY <2>2, <2>3, <2>4, MoreTasks
  <2>6. tasks' = T \cup {v}
    BY <1>5
  <2> HIDE DEF T
  <2>7. MoreTasksOf(tasks', T, t.req[1], 1)
    BY <2>3, <2>5, <2>6
  <2>8. IsFiniteSet(TasksOf(tasks, t.req[1])) /\ Cardinality(TasksOf(tasks, t.req[1])) \in Nat
    BY <2>1, FS_Subset, FS_CardinalityType DEF TasksOf
  <2>9. ASSUME NEW d PROVE Cardinality(TasksOf(tasks', d)) = Cardinality(TasksOf(tasks, d))
    <3>1. CASE d = t.req[1]
      BY <2>2, <2>7, <2>8, <3>1 DEF MoreTasksOf
    <3>2. CASE d # t.req[1]
      <4>1. TasksOf(tasks', d) = TasksOf(T, d) /\ TasksOf(T, d) = TasksOf(tasks, d)
        BY <2>2, <2>7, <3>2 DEF MoreTasksOf
      <4>2. TasksOf(tasks', d) = TasksOf(tasks, d)
        BY <4>1
      <4> QED
        BY <4>2
    <3> QED
      BY <3>1, <3>2
  <2> QED
    BY <2>2, <2>7, <2>9 DEF MoreTasksOf
<1>9. Numbered(Loop', writes)
  <2>1. /\ \A u \in tasks' : \E w \in tasks : u.req = w.req
        /\ \A u \in tasks' : u = v \/ (u \in tasks /\ u # t)
    BY <1>4, <1>5
  <2>2. \A u, w \in tasks' : u.req = w.req => u = w
    BY <1>1, <1>4, <1>5, <2>1 DEF Sound, Numbered
  <2> QED
    BY <1>1, <1>7, <2>1, <2>2 DEF Sound, Numbered
<1>10. Listing(Loop') /\ Buffered(Loop')
  BY <1>1, <1>7 DEF Sound, Listing, Open, Buffered
<1>11. Counted(Loop', writes, Resting)
  BY <1>1, <1>7, <1>8 DEF Sound, Counted
<1>12. Sound(Loop', writes, Resting)
  BY <1>1, <1>7, <1>8, <1>9, <1>10, <1>11 DEF Sound
<1>13. \A d \in Clients : Drained(Loop', d) /\ PausedFull(Loop', d)
  BY <1>1, <1>7 DEF Drained, PausedFull, Open
<1> QED
  BY <1>2, <1>12, <1>13 DEF QueryInv

\* The server closes: its list is emptied, and no client is open any more.
LEMMA StepServerClose ==
  ASSUME QueryInv, ServerClose
  PROVE  QueryInv'
<1>1. /\ client \in [Clients -> Client] /\ query_clients \in Seq(Clients)
      /\ active_queries_count \in 0..MaxQueries /\ tasks \subseteq Task
      /\ Loop.client = client /\ Loop.list = query_clients
      /\ Loop.active = active_queries_count /\ Loop.tasks = tasks
      /\ Sound(Loop, writes, Resting)
      /\ \A d \in Clients : Drained(Loop, d) /\ PausedFull(Loop, d)
      /\ Len(query_clients) \in Nat
  BY LoopFields
<1>2. /\ \A c \in Clients : client'[c] = IF c \in ToSet(query_clients)
                                         THEN [client[c] EXCEPT !.handle = "closing"]
                                         ELSE client[c]
      /\ client' = [c \in Clients |-> client'[c]]
      /\ query_clients' = <<>> /\ listening' = FALSE
      /\ UNCHANGED <<active_queries_count, tasks, writes, answered, dropped>>
  BY DEF ServerClose
<1>3. \A c \in Clients : c \in ToSet(query_clients) <=> client[c].handle = "open"
  BY <1>1, LenProperties DEF Sound, Listing, Open, ToSet
<1>4. ASSUME NEW c \in Clients
      PROVE  /\ client'[c] \in Client /\ client'[c].handle # "open"
             /\ client'[c].received = client[c].received /\ client'[c].taken = client[c].taken
             /\ client'[c].is_paused = client[c].is_paused
             /\ client'[c].ref_count = client[c].ref_count
             /\ client'[c].handle = "none" => client[c].handle = "none"
             /\ One(client'[c].handle \in {"open", "closing"})
                  = One(client[c].handle \in {"open", "closing"})
  <2>1. client[c] \in Client
    BY <1>1
  <2>2. CASE client[c].handle = "open"
    <3>1. client'[c] = [client[c] EXCEPT !.handle = "closing"]
      BY <1>2, <1>3, <2>2
    <3> QED
      BY <2>1, <2>2, <3>1 DEF Client, One
  <2>3. CASE client[c].handle # "open"
    BY <1>2, <1>3, <2>1, <2>3
  <2> QED
    BY <2>2, <2>3
<1>5. client' \in [Clients -> Client]
  BY <1>2, <1>4
<1>6. /\ Loop'.client = client' /\ Loop'.list = <<>> /\ Loop'.active = Loop.active
      /\ Loop'.tasks = Loop.tasks
      /\ Loop' \in LoopState
  BY <1>1, <1>2, <1>5 DEF Loop, LoopState
<1>7. Listing(Loop')
  BY <1>4, <1>6 DEF Listing, Open
<1>8. Numbered(Loop', writes)
  <2>1. \A t \in tasks : t.req[1] \in Clients
    BY <1>1 DEF Task, Request
  <2>2. \A w \in writes : w[1] \in Clients
    BY <1>1 DEF Sound, Request
  <2> QED
    BY <1>1, <1>4, <1>6, <2>1, <2>2 DEF Sound, Numbered
<1>9. Buffered(Loop')
  BY <1>1, <1>4, <1>6 DEF Sound, Buffered
<1>10. Counted(Loop', writes, Resting)
  BY <1>1, <1>4, <1>6 DEF Sound, Counted
<1>11. Sound(Loop', writes, Resting)
  BY <1>1, <1>6, <1>7, <1>8, <1>9, <1>10 DEF Sound
<1>12. \A d \in Clients : Drained(Loop', d) /\ PausedFull(Loop', d)
  BY <1>4, <1>6 DEF Drained, PausedFull, Open
<1> QED
  BY <1>2, <1>11, <1>12 DEF QueryInv

\* Every step keeps the invariant.
LEMMA QueryStep == QueryInv /\ [Next]_vars => QueryInv'
<1> SUFFICES ASSUME QueryInv, [Next]_vars PROVE QueryInv'
  OBVIOUS
<1>1. ASSUME NEW c \in Clients, OnReadConnection(c) PROVE QueryInv'
  BY <1>1, StepConnection
<1>2. ASSUME NEW c \in Clients, OnClientGone(c) PROVE QueryInv'
  BY <1>2, StepClientGone
<1>3. ASSUME NEW c \in Clients, OnClientClose(c) PROVE QueryInv'
  BY <1>3, StepClientClose
<1>4. ASSUME NEW c \in Clients, NEW n \in 1..(MaxRequests * ReqSize), OnClientQuery(c, n)
      PROVE  QueryInv'
  <2>1. n \in Nat
    BY QueryConstants
  <2> QED
    BY <1>4, <2>1, StepClientQuery
<1>5. ASSUME NEW t \in tasks, BackgroundQuery(t) PROVE QueryInv'
  BY <1>5, StepBackgroundQuery
<1>6. ASSUME NEW t \in tasks, AfterQuery(t) PROVE QueryInv'
  BY <1>6, StepAfterQuery
<1>7. ASSUME NEW w \in writes, OnQueryRespComplete(w) PROVE QueryInv'
  BY <1>7, StepRespComplete
<1>8. CASE ServerClose
  BY <1>8, StepServerClose
<1>9. CASE UNCHANGED vars
  <2>1. Loop' = Loop /\ UNCHANGED <<writes, listening, answered, dropped>>
    BY <1>9 DEF vars, Loop
  <2> QED
    BY <2>1 DEF QueryInv
<1> QED
  BY <1>1, <1>2, <1>3, <1>4, <1>5, <1>6, <1>7, <1>8, <1>9 DEF Next, Stopped

---------------------------------------------------------------------------
(* The theorems.                                                           *)

\* The invariant holds in every state.
LEMMA QueryInvariance == Spec => []QueryInv
BY QueryInit, QueryStep, PTL DEF Spec

\* Every variable has its type, and the limit on running queries is kept.
THEOREM QueryTypeCorrect == Spec => []TypeOK
<1>1. QueryInv => TypeOK
  BY QueryProperties
<1> QED
  BY <1>1, QueryInvariance, PTL

\* A client is freed exactly when its handle is closed and no query and no
\* response uses it: client_retain and client_release are balanced over every
\* order of callbacks.
THEOREM ClientsAreCounted == Spec => []RefCountExact
<1>1. QueryInv => RefCountExact
  BY QueryProperties
<1> QED
  BY <1>1, QueryInvariance, PTL

\* No place under GLOBAL_MAX_QUERIES leaks, whatever happens to the clients.
THEOREM PlacesAreCounted == Spec => []ActiveCountExact
<1>1. QueryInv => ActiveCountExact
  BY QueryProperties
<1> QED
  BY <1>1, QueryInvariance, PTL

\* The list at query_clients_head has exactly the open clients, each once.
THEOREM ListIsExact == Spec => []ListExact
<1>1. QueryInv => ListExact
  BY QueryProperties
<1> QED
  BY <1>1, QueryInvariance, PTL

\* after_query_cb leaves no client paused while a place is free, nor a request
\* in the buffer of a client that is not paused.
THEOREM NobodyWaitsForNothing == Spec => []PausedOnlyWhenFull
<1>1. QueryInv => PausedOnlyWhenFull
  BY QueryProperties
<1> QED
  BY <1>1, QueryInvariance, PTL
====
