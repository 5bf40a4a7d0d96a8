--------------------------- MODULE ReadPathProofs ---------------------------
(***************************************************************************)
(* A read under range routing misses nothing but ties, for every number of *)
(* clusters, every key space and every set of keys.                        *)
(***************************************************************************)
EXTENDS ReadPath, TLAPS

---------------------------------------------------------------------------
(* Routing.                                                                *)

\* The parts of the key space are not empty.
LEMMA ChunkSizePositive == ChunkSize \in Nat \ {0}
<1>1. ChunkSize = (MaxKeyspace + NumClusters - 1) \div NumClusters
  BY DEF ChunkSize
<1>2. MaxKeyspace + NumClusters - 1 >= NumClusters /\ NumClusters > 0
  BY ReadConstants
<1> QED
  BY <1>1, <1>2, ReadConstants

\* Division with a positive divisor: the quotient's multiple is the last one
\* not above the dividend.
LEMMA Division ==
  ASSUME NEW n \in Nat, NEW d \in Nat \ {0}
  PROVE  /\ n \div d \in Nat
         /\ (n \div d) * d <= n
         /\ n < (n \div d + 1) * d
OBVIOUS

\* A multiple grows with its factor.
LEMMA Multiples ==
  ASSUME NEW m \in Nat, NEW n \in Nat, NEW d \in Nat, m <= n
  PROVE  m * d <= n * d
OBVIOUS

\* Every id has a cluster.
LEMMA InsertClusterType ==
  ASSUME NEW id \in Nat
  PROVE  InsertCluster(id) \in Clusters
<1>1. Chunk(id) \in Nat
  BY ChunkSizePositive, Division DEF Chunk
<1> QED
  BY <1>1, ReadConstants DEF InsertCluster, Clusters

\* get_node_insert and get_node_query agree: the cluster an id is inserted into
\* is asked by every query whose range of ids holds it.
LEMMA RoutingAgrees ==
  ASSUME NEW id \in Nat, NEW q \in [min : Key, max : Key],
         q.min.id <= id, id <= q.max.id
  PROVE  Overlaps(q, InsertCluster(id))
<1> DEFINE n == IF id = 0 THEN 0 ELSE id - 1
           i == InsertCluster(id)
<1>0. ChunkSize \in Nat \ {0} /\ n \in Nat /\ n + 1 >= id /\ Chunk(id) = n \div ChunkSize
  BY ChunkSizePositive DEF Chunk
<1>1. /\ Chunk(id) \in Nat
      /\ Chunk(id) * ChunkSize <= n
      /\ n < (Chunk(id) + 1) * ChunkSize
  BY <1>0, Division
<1>2. i \in Nat /\ i <= Chunk(id) /\ (i = NumClusters - 1 \/ i = Chunk(id))
  BY <1>1, ReadConstants DEF InsertCluster
<1>3. q.min.id \in Nat /\ q.max.id \in Nat
  BY ReadConstants DEF Key
<1>4. i = NumClusters - 1 \/ q.min.id <= (i + 1) * ChunkSize
  <2>1. CASE i = Chunk(id)
    <3>1. (Chunk(id) + 1) * ChunkSize \in Nat
      BY <1>0, <1>1
    <3> QED
      BY <2>1, <3>1, <1>0, <1>1, <1>3
  <2> QED
    BY <2>1, <1>2
<1>5. i = 0 \/ q.max.id >= i * ChunkSize + 1
  <2>1. SUFFICES ASSUME i # 0
                 PROVE  q.max.id >= i * ChunkSize + 1
    OBVIOUS
  <2>2. i * ChunkSize <= Chunk(id) * ChunkSize
    BY <1>0, <1>1, <1>2, Multiples
  <2>3. i * ChunkSize \in Nat /\ Chunk(id) * ChunkSize \in Nat
    BY <1>0, <1>1, <1>2
  <2>4. id # 0
    <3>1. SUFFICES ASSUME id = 0 PROVE FALSE
      OBVIOUS
    <3>2. i * ChunkSize >= 1 * ChunkSize
      BY <2>1, <1>0, <1>2, Multiples
    <3> QED
      BY <3>1, <3>2, <2>2, <2>3, <1>0, <1>1
  <2> QED
    BY <2>2, <2>3, <2>4, <1>0, <1>1, <1>3
<1> QED
  BY <1>4, <1>5 DEF Overlaps

---------------------------------------------------------------------------
(* The inductive invariant.                                                *)

\* Every cluster whose part the query overlaps has been asked.
AskedWhereNeeded ==
  outcome # "idle" => \A c \in Clusters : Overlaps(query, c) => futures[c].state # "none"

\* Nothing is returned before it is asked for.
NothingYet == outcome = "idle" => \A c \in Clusters : records[c] = {} /\ futures[c] = NotAsked

\* The records there were when the read began are there still.
BeforeKept == before \subseteq stored

\* A record the read should return was returned, or one just before it was, with
\* which a page ended, or it is still to come.
Accounted(k) ==
  LET c == InsertCluster(k.id)
  IN  \/ k \in records[c]
      \/ \E j \in records[c] : j.id = k.id /\ j.ts < k.ts
      \/ futures[c].state = "asked" /\ Leq(futures[c].from, k)

\* At the end of a read no future is outstanding.
NoneOutstanding == outcome = "returned" => \A c \in Clusters : futures[c].state # "asked"

IInv ==
  /\ TypeOK
  /\ AskedWhereNeeded
  /\ NothingYet
  /\ BeforeKept
  /\ PagesDoNotOverlap
  /\ NoneOutstanding
  /\ outcome # "idle" => \A k \in Expected : Accounted(k)

\* A key is an id and a timestamp that are naturals.
LEMMA KeyType ==
  ASSUME NEW k \in Key
  PROVE  k.id \in Nat /\ k.ts \in Nat
BY ReadConstants DEF Key

\* What a server answers: records of its own cluster, in the range asked for, up
\* to a last one whose id is in the header; all of them if none was cut off.
LEMMA ResponseShape ==
  ASSUME TypeOK, NEW c \in Clusters, NEW from \in [id : Nat, ts : Nat], NEW to \in Key,
         NEW response \in Responses(c, from, to)
  PROVE  /\ response.limit_reached \in BOOLEAN
         /\ response.max_id \in Nat
         /\ response.records \subseteq Matching(c, from, to)
         /\ \/ response.records = {} /\ (response.limit_reached \/ Matching(c, from, to) = {})
            \/ \E last \in response.records :
                 /\ response.max_id = last.id
                 /\ response.records = {k \in Matching(c, from, to) : Leq(k, last)}
                 /\ response.limit_reached \/ response.records = Matching(c, from, to)
<1> DEFINE found == Matching(c, from, to)
           UpTo(last) == {k \in found : Leq(k, last)}
<1>1. found \subseteq Key
  BY DEF Matching, TypeOK
<1>2. CASE \E l \in {b \in BOOLEAN : b \/ found = {}} :
             response = [records |-> {}, limit_reached |-> l, max_id |-> 1]
  BY <1>2
<1>3. CASE \E x \in {y \in [last : found, limit : BOOLEAN] : y.limit \/ UpTo(y.last) = found} :
             response = [records |-> UpTo(x.last), limit_reached |-> x.limit, max_id |-> x.last.id]
  <2>1. PICK x \in [last : found, limit : BOOLEAN] :
          /\ x.limit \/ UpTo(x.last) = found
          /\ response = [records |-> UpTo(x.last), limit_reached |-> x.limit, max_id |-> x.last.id]
    BY <1>3
  <2>2. x.last \in found /\ x.last.id \in Nat /\ x.last.ts \in Nat /\ x.limit \in BOOLEAN
    BY <2>1, <1>1, KeyType
  <2>3. x.last \in UpTo(x.last)
    BY <2>2 DEF Leq
  <2>4. /\ response.records = UpTo(x.last)
        /\ response.limit_reached = x.limit
        /\ response.max_id = x.last.id
    BY <2>1
  <2> QED
    BY <2>1, <2>2, <2>3, <2>4
<1> QED
  BY <1>2, <1>3 DEF Responses

\* The invariant holds at the start.
LEMMA InitInv == Init => IInv
<1> SUFFICES ASSUME Init PROVE IInv
  OBVIOUS
<1>1. NotAsked \in Future
  BY DEF NotAsked, Future
<1>2. TypeOK
  BY <1>1 DEF Init, TypeOK
<1>3. PagesDoNotOverlap
  BY DEF Init, PagesDoNotOverlap, NotAsked
<1> QED
  BY <1>2, <1>3 DEF Init, IInv, AskedWhereNeeded, NothingYet, BeforeKept, NoneOutstanding

\* read asks every cluster from the beginning of the range.
LEMMA ReadInv == IInv /\ Read => IInv'
<1> SUFFICES ASSUME IInv, Read PROVE IInv'
  OBVIOUS
<1>0. query \in [min : Key, max : Key] /\ query.min \in Key /\ query.max \in Key
  BY DEF IInv, TypeOK
<1>1. [state |-> "asked", from |-> query.min, max_id |-> query.min.id] \in Future /\ NotAsked \in Future
  BY <1>0, ReadConstants DEF Future, NotAsked, Key
<1>2. TypeOK'
  BY <1>1 DEF IInv, TypeOK, Read
<1>3. AskedWhereNeeded'
  BY DEF IInv, AskedWhereNeeded, Read, Overlaps
<1>4. NothingYet' /\ NoneOutstanding' /\ BeforeKept'
  BY DEF NothingYet, NoneOutstanding, BeforeKept, Read
<1>5. PagesDoNotOverlap'
  BY DEF IInv, NothingYet, PagesDoNotOverlap, Read
<1>6. ASSUME NEW k \in Expected' PROVE Accounted(k)'
  <2>1. k \in Key /\ k.id \in Nat /\ Leq(query.min, k) /\ Leq(k, query.max)
    BY <1>6, KeyType DEF Expected, InRange, Read, IInv, TypeOK
  <2>2. query.min.id <= k.id /\ k.id <= query.max.id
    BY <2>1, <1>0, KeyType DEF Leq
  <2>3. InsertCluster(k.id) \in Clusters /\ Overlaps(query, InsertCluster(k.id))
    BY <2>1, <2>2, <1>0, InsertClusterType, RoutingAgrees
  <2>4. /\ futures'[InsertCluster(k.id)].state = "asked"
        /\ futures'[InsertCluster(k.id)].from = query.min
    BY <2>3 DEF Read
  <2> QED
    BY <2>1, <2>4 DEF Accounted, Read
<1> QED
  BY <1>2, <1>3, <1>4, <1>5, <1>6 DEF IInv

\* A page that arrives moves its cluster's query past the records of the page.
LEMMA PageInv ==
  ASSUME IInv, NEW c \in Clusters, PageArrives(c)
  PROVE  IInv'
<1> DEFINE from == futures[c].from
<1>0. PICK response \in Responses(c, from, query.max) :
        /\ ~Invalid(c, response)
        /\ records' = [records EXCEPT ![c] = @ \cup response.records]
        /\ futures' = [futures EXCEPT ![c] =
                         IF Continues(response) THEN NextPage(response.max_id)
                         ELSE LastPage(from, response.max_id)]
  BY DEF PageArrives
<1>1. /\ outcome = "running" /\ futures[c].state = "asked"
      /\ UNCHANGED <<stored, before, query, outcome>>
  BY DEF PageArrives
<1>2. /\ TypeOK /\ query.max \in Key /\ query.min \in Key
      /\ from \in [id : Nat, ts : Nat] /\ futures[c] \in Future
      /\ records \in [Clusters -> SUBSET Key] /\ futures \in [Clusters -> Future]
  BY DEF IInv, TypeOK, Future
<1>3. /\ response.limit_reached \in BOOLEAN
      /\ response.max_id \in Nat
      /\ response.records \subseteq Matching(c, from, query.max)
      /\ \/ response.records = {} /\ (response.limit_reached \/ Matching(c, from, query.max) = {})
         \/ \E last \in response.records :
              /\ response.max_id = last.id
              /\ response.records = {k \in Matching(c, from, query.max) : Leq(k, last)}
              /\ response.limit_reached \/ response.records = Matching(c, from, query.max)
  BY <1>2, ResponseShape
<1>4. Matching(c, from, query.max) \subseteq Key
  BY <1>2 DEF Matching, TypeOK
<1>5. /\ NextPage(response.max_id) \in Future
      /\ LastPage(from, response.max_id) \in Future
  BY <1>2, <1>3 DEF NextPage, LastPage, Future
<1>6. /\ records'[c] = records[c] \cup response.records
      /\ futures'[c] = IF Continues(response) THEN NextPage(response.max_id)
                       ELSE LastPage(from, response.max_id)
      /\ \A d \in Clusters \ {c} : records'[d] = records[d] /\ futures'[d] = futures[d]
  BY <1>0, <1>2
<1>7. TypeOK'
  <2>1. futures' \in [Clusters -> Future]
    BY <1>0, <1>2, <1>5
  <2>2. records' \in [Clusters -> SUBSET Key]
    BY <1>0, <1>2, <1>3, <1>4
  <2> QED
    BY <2>1, <2>2, <1>1, <1>2 DEF TypeOK
<1>8. futures'[c].state # "none"
  BY <1>6 DEF NextPage, LastPage
<1>9. AskedWhereNeeded' /\ NothingYet' /\ BeforeKept' /\ NoneOutstanding'
  <2>1. AskedWhereNeeded'
    BY <1>1, <1>6, <1>8 DEF IInv, AskedWhereNeeded, Overlaps
  <2> QED
    BY <2>1, <1>1 DEF IInv, NothingYet, BeforeKept, NoneOutstanding
<1>10. CASE response.records = {}
  <2>1. ~response.limit_reached /\ Matching(c, from, query.max) = {} /\ ~Continues(response)
    BY <1>10, <1>0, <1>3 DEF Invalid, Continues
  <2>2. futures'[c].state = "done" /\ records'[c] = records[c]
    BY <2>1, <1>6, <1>10 DEF LastPage
  <2>3. PagesDoNotOverlap'
    BY <2>2, <1>6 DEF IInv, PagesDoNotOverlap
  <2>4. ASSUME NEW k \in Expected' PROVE Accounted(k)'
    <3>1. /\ k \in Expected /\ Accounted(k) /\ k \in stored /\ Leq(k, query.max)
          /\ k.id \in Nat /\ InsertCluster(k.id) \in Clusters
      BY <1>1, <1>2, KeyType, InsertClusterType DEF IInv, Expected, BeforeKept, InRange, TypeOK
    <3>2. InsertCluster(k.id) = c => ~Leq(from, k)
      BY <3>1, <2>1 DEF Matching, InRange
    <3> QED
      BY <3>1, <3>2, <2>2, <1>6 DEF Accounted
  <2> QED
    BY <2>3, <2>4, <1>7, <1>9 DEF IInv
<1>11. CASE \E last \in response.records :
              /\ response.max_id = last.id
              /\ response.records = {k \in Matching(c, from, query.max) : Leq(k, last)}
              /\ response.limit_reached \/ response.records = Matching(c, from, query.max)
  <2>0. PICK last \in response.records :
          /\ response.max_id = last.id
          /\ response.records = {k \in Matching(c, from, query.max) : Leq(k, last)}
          /\ response.limit_reached \/ response.records = Matching(c, from, query.max)
    BY <1>11
  <2>1. last \in Key /\ last.id \in Nat /\ last.ts \in Nat /\ Leq(from, last)
    BY <2>0, <1>3, <1>4, KeyType DEF Matching, InRange
  <2>2. PagesDoNotOverlap'
    <3>1. SUFFICES ASSUME NEW d \in Clusters, futures'[d].state = "asked",
                          NEW k \in records'[d]
                   PROVE  ~Leq(futures'[d].from, k)
      BY DEF PagesDoNotOverlap, Leq
    <3>2. CASE d # c
      BY <3>1, <3>2, <1>6 DEF IInv, PagesDoNotOverlap
    <3>3. CASE d = c
      <4>1. futures'[c].from.id = last.id + 1
        BY <3>1, <3>3, <1>6, <2>0 DEF NextPage, LastPage
      <4>2. k \in Key /\ k.id \in Nat /\ k.ts \in Nat
        BY <3>1, <1>7, KeyType DEF TypeOK
      <4>3. k.id <= last.id
        <5>1. CASE k \in response.records
          BY <5>1, <4>2, <2>0, <2>1 DEF Leq
        <5>2. CASE k \in records[c]
          <6>1. ~Leq(from, k)
            BY <5>2, <1>1 DEF IInv, PagesDoNotOverlap
          <6> QED
            BY <6>1, <4>2, <2>1, <1>2 DEF Leq
        <5> QED
          BY <5>1, <5>2, <3>1, <3>3, <1>6
      <4> QED
        BY <4>1, <4>2, <4>3, <2>1, <3>3 DEF Leq
    <3> QED
      BY <3>2, <3>3
  <2>3. ASSUME NEW k \in Expected' PROVE Accounted(k)'
    <3>1. /\ Accounted(k) /\ k \in stored /\ Leq(k, query.max)
          /\ k \in Key /\ k.id \in Nat /\ k.ts \in Nat /\ InsertCluster(k.id) \in Clusters
      BY <1>1, <1>2, KeyType, InsertClusterType DEF IInv, Expected, BeforeKept, InRange, TypeOK
    <3>2. CASE InsertCluster(k.id) # c
      BY <3>1, <3>2, <1>6 DEF Accounted
    <3>3. CASE InsertCluster(k.id) = c /\ ~Leq(from, k)
      BY <3>1, <3>3, <1>6 DEF Accounted
    <3>4. CASE InsertCluster(k.id) = c /\ Leq(from, k)
      <4>1. k \in Matching(c, from, query.max)
        BY <3>1, <3>4 DEF Matching, InRange
      <4>2. CASE Leq(k, last)
        BY <4>1, <4>2, <2>0, <3>4, <1>6 DEF Accounted
      <4>3. CASE ~Leq(k, last) /\ k.id = last.id
        <5>1. last.ts < k.ts
          BY <4>3, <3>1, <2>1 DEF Leq
        <5>2. last \in records'[c]
          BY <2>0, <1>6
        <5> QED
          BY <5>1, <5>2, <4>3, <3>4 DEF Accounted
      <4>4. CASE ~Leq(k, last) /\ k.id # last.id
        <5>1. k.id > last.id /\ k.id <= query.max.id /\ query.max.id \in Nat
          BY <4>4, <3>1, <2>1, <1>2, KeyType DEF Leq
        <5>2. response.limit_reached
          BY <4>1, <4>4, <2>0
        <5>3. Continues(response)
          <6>1. response.max_id < query.max.id
            BY <5>1, <3>1, <2>0, <2>1
          <6> QED
            BY <5>2, <6>1 DEF Continues
        <5>4. futures'[c].state = "asked" /\ futures'[c].from = [id |-> last.id + 1, ts |-> 0]
          BY <5>3, <1>6, <2>0 DEF NextPage
        <5>5. Leq(futures'[c].from, k)
          BY <5>4, <5>1, <3>1, <2>1 DEF Leq
        <5> QED
          BY <5>4, <5>5, <3>4 DEF Accounted
      <4> QED
        BY <4>2, <4>3, <4>4
    <3> QED
      BY <3>2, <3>3, <3>4
  <2> QED
    BY <2>2, <2>3, <1>7, <1>9 DEF IInv
<1> QED
  BY <1>3, <1>10, <1>11

\* Every step keeps the invariant.
LEMMA InvStep == IInv /\ [Next]_vars => IInv'
<1> SUFFICES ASSUME IInv, [Next]_vars PROVE IInv'
  OBVIOUS
<1>1. CASE Read
  BY <1>1, ReadInv
<1>2. ASSUME NEW c \in Clusters, PageArrives(c) PROVE IInv'
  BY <1>2, PageInv
<1>3. ASSUME UNCHANGED <<stored, before, query, futures, records>>,
             outcome = "running", outcome' \in {"returned", "raised"},
             outcome' = "returned" => \A c \in Clusters : futures[c].state # "asked"
      PROVE  IInv'
  BY <1>3 DEF IInv, TypeOK, AskedWhereNeeded, NothingYet, BeforeKept, PagesDoNotOverlap,
              NoneOutstanding, Expected, Accounted, Overlaps
<1>4. ASSUME NEW c \in Clusters, PageFails(c) PROVE IInv'
  BY <1>3, <1>4 DEF PageFails
<1>5. CASE Return
  BY <1>3, <1>5 DEF Return
<1>6. ASSUME NEW k \in Key, Insert(k) PROVE IInv'
  BY <1>6 DEF Insert, IInv, TypeOK, AskedWhereNeeded, NothingYet, BeforeKept, PagesDoNotOverlap,
              NoneOutstanding, Expected, Accounted, Overlaps
<1>7. CASE UNCHANGED vars
  BY <1>7 DEF vars, IInv, TypeOK, AskedWhereNeeded, NothingYet, BeforeKept, PagesDoNotOverlap,
              NoneOutstanding, Expected, Accounted, Overlaps
<1> QED
  BY <1>1, <1>2, <1>4, <1>5, <1>6, <1>7 DEF Next, Over

---------------------------------------------------------------------------
(* The theorems.                                                           *)

\* The invariant always holds.
THEOREM Invariance == Spec => []IInv
BY InitInv, InvStep, PTL DEF Spec

\* Range routing loses nothing between writes and reads: whatever the number of
\* clusters and the key space, a stored record in the range of a query is in a
\* cluster that get_node_query chose.
THEOREM RoutingIsComplete == Spec => []NothingUnasked
<1>1. IInv => NothingUnasked
  <2>1. SUFFICES ASSUME IInv, outcome # "idle", NEW k \in stored,
                        InRange(k, query.min, query.max)
                 PROVE  futures[InsertCluster(k.id)].state # "none"
    BY DEF NothingUnasked
  <2>2. /\ query \in [min : Key, max : Key] /\ k \in Key
        /\ query.min.id \in Nat /\ query.max.id \in Nat /\ k.id \in Nat
    BY <2>1, KeyType DEF IInv, TypeOK
  <2>3. query.min.id <= k.id /\ k.id <= query.max.id
    BY <2>1, <2>2 DEF InRange, Leq
  <2>4. InsertCluster(k.id) \in Clusters /\ Overlaps(query, InsertCluster(k.id))
    BY <2>2, <2>3, InsertClusterType, RoutingAgrees
  <2> QED
    BY <2>1, <2>4 DEF IInv, AskedWhereNeeded
<1> QED
  BY <1>1, Invariance, PTL

\* No record is returned twice: the pages of a cluster are disjoint.
THEOREM PagesAreDisjoint == Spec => []PagesDoNotOverlap
<1>1. IInv => PagesDoNotOverlap
  BY DEF IInv
<1> QED
  BY <1>1, Invariance, PTL

\* A read that returns has every record of its range that was stored when it
\* began, up to the later timestamps of an id with which a page ended.
THEOREM ReadMissesOnlyTies == Spec => []OnlyTiesAreMissed
<1>1. IInv => OnlyTiesAreMissed
  <2>1. SUFFICES ASSUME IInv, outcome = "returned", NEW k \in Expected \ Returned
                 PROVE  \E j \in Returned : j.id = k.id /\ j.ts < k.ts
    BY DEF OnlyTiesAreMissed
  <2>2. k \in Key /\ InsertCluster(k.id) \in Clusters /\ Accounted(k)
    BY <2>1, KeyType, InsertClusterType DEF IInv, TypeOK, Expected
  <2>3. futures[InsertCluster(k.id)].state # "asked"
    BY <2>1, <2>2 DEF IInv, NoneOutstanding
  <2> QED
    BY <2>1, <2>2, <2>3 DEF Accounted, Returned
<1> QED
  BY <1>1, Invariance, PTL
====
