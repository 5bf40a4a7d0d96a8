------------------------ MODULE InsertServiceProofs ------------------------
(***************************************************************************)
(* Proofs about the insert ports of a cluster.  A callback works on a      *)
(* record (Loop) in several calls.  Good says of such a record, at any     *)
(* point of a callback, that a connection's references and its messages    *)
(* are accounted for; Settled adds what holds between callbacks.           *)
(***************************************************************************)
EXTENDS InsertService, FiniteSetTheorems, SequenceTheorems, WellFoundedInduction, TLAPS

---------------------------------------------------------------------------
(* The invariant.                                                          *)

One(P) == IF P THEN 1 ELSE 0

\* A log has finitely many entries, each with its index.
Logs == UNION {[D -> Entry] : D \in SUBSET (Nat \ {0})}

HasLast(L) == \E b \in Nat : \A i \in DOMAIN L : i <= b

LoopState == [conn : [Conns -> Conn], log : Logs,
              replies : [Conns -> Seq({"ack", "redirect"})]]

\* The entries of c that may still be applied, and those it waits for.
Pending(L, c) == {i \in DOMAIN L : L[i].conn = c /\ L[i].pending}
Awaited(L, c) == {i \in DOMAIN L : L[i].conn = c /\ L[i].waited}

Increasing(q) == \A i, j \in DOMAIN q : i < j => q[i] < q[j]
Below(p, q) == \A i \in DOMAIN p, j \in DOMAIN q : p[i] < q[j]
UpTo(q, n) == \A i \in DOMAIN q : q[i] <= n

\* Every message of q is later than those of c that were applied or may be, and
\* it has arrived.
Later(s, c, A, q) ==
  /\ q \in Seq(Message) /\ Increasing(q)
  /\ Below(A[c], q)
  /\ \A i \in Pending(s.log, c) : Below(s.log[i].msgs, q)
  /\ UpTo(q, s.conn[c].received \div 2)

\* The messages of c that were applied, those of its pending entries in their
\* order and those of its batch follow each other.
InOrder(s, c, A) ==
  /\ Increasing(A[c]) /\ UpTo(A[c], s.conn[c].received \div 2)
  /\ \A i \in Pending(s.log, c) :
       /\ Increasing(s.log[i].msgs) /\ Below(A[c], s.log[i].msgs)
       /\ UpTo(s.log[i].msgs, s.conn[c].received \div 2)
  /\ \A i, j \in Pending(s.log, c) : i < j => Below(s.log[i].msgs, s.log[j].msgs)
  /\ Later(s, c, A, s.conn[c].batch)

\* Those of the buffer follow the others.
InLine(s, c, A) ==
  Later(s, c, A, s.conn[c].buffer) /\ Below(s.conn[c].batch, s.conn[c].buffer)

RefsCounted(s, c) ==
  s.conn[c].ref_count = One(s.conn[c].handle \in {"open", "closing"})
                        + Cardinality(Awaited(s.log, c)) + s.conn[c].acks
                        + One(s.conn[c].redirecting)

AckCount(r) == Cardinality({i \in DOMAIN r : r[i] = "ack"})

\* The connection is listed only while it is open, is not redirected while its
\* reading waits for the engine, and has no past before it was accepted.
Dated(s, c) ==
  /\ s.conn[c].received <= 2 * MaxMessages
  /\ s.conn[c].listed => s.conn[c].handle = "open"
  /\ s.conn[c].is_paused => ~s.conn[c].redirecting
  /\ s.conn[c].handle = "none" => s.conn[c] = NoConn

Good(s, c, A) ==
  /\ Dated(s, c) /\ RefsCounted(s, c) /\ InOrder(s, c, A)
  /\ AckCount(s.replies[c]) <= Len(A[c])

\* NothingLeftBehind.
Tidy(s, c) ==
  s.conn[c].handle = "open" =>
    /\ s.conn[c].batch # <<>> => (s.conn[c].buffer # <<>> \/ Partial(s, c))
    /\ s.conn[c].buffer # <<>> => (s.conn[c].is_paused \/ s.conn[c].redirecting)

Settled(s, c, A) ==
  /\ Good(s, c, A)
  /\ s.conn[c].listed => InLine(s, c, A)
  /\ Tidy(s, c)

\* Only a server that overran its array of memtables has more than it has room for.
Sheltered ==
  /\ server \in [Nodes -> {"listening", "flushing", "closed", "undefined"}]
  /\ immutable_count \in [Nodes -> Nat]
  /\ \A n \in Nodes : immutable_count[n] > MaxImmutables => server[n] = "undefined"

InsertInv ==
  /\ Loop \in LoopState /\ HasLast(log)
  /\ applied \in [Conns -> Seq(Message)]
  /\ \A c \in Conns : Settled(Loop, c, applied)
  /\ Sheltered /\ raft_leaders \subseteq Nodes
  /\ leader \in Nodes \cup {NoNode}
  /\ elections \in Nat

---------------------------------------------------------------------------
(* Lemmas about sequences of messages.                                     *)

\* Messages are numbers and a batch is not empty.
LEMMA Messages == /\ Message \subseteq Int /\ MaxMessages \in Nat
                  /\ BatchSize \in Nat /\ BatchSize > 0
BY InsertConstants DEF Message

\* A sequence that follows another one in order can be appended to it.
LEMMA ConcatInOrder ==
  ASSUME NEW p \in Seq(Message), NEW q \in Seq(Message)
  PROVE  /\ p \o q \in Seq(Message) /\ Len(p \o q) = Len(p) + Len(q)
         /\ Increasing(p) /\ Increasing(q) /\ Below(p, q) => Increasing(p \o q)
         /\ \A x : Below(x, p) /\ Below(x, q) => Below(x, p \o q)
         /\ \A x : Below(p, x) /\ Below(q, x) => Below(p \o q, x)
         /\ \A n : UpTo(p, n) /\ UpTo(q, n) => UpTo(p \o q, n)
<1> DEFINE r == p \o q
<1>1. /\ Len(p) \in Nat /\ DOMAIN p = 1..Len(p)
      /\ Len(q) \in Nat /\ DOMAIN q = 1..Len(q)
  BY LenProperties
<1>2. /\ r \in Seq(Message) /\ Len(r) = Len(p) + Len(q)
      /\ \A i \in 1..(Len(p) + Len(q)) : r[i] = IF i <= Len(p) THEN p[i] ELSE q[i - Len(p)]
  BY ConcatProperties
<1>3. DOMAIN r = 1..(Len(p) + Len(q))
  BY <1>2, LenProperties
<1> HIDE DEF r
<1>4. \A i \in DOMAIN r :
        \/ i \in 1..Len(p) /\ r[i] = p[i]
        \/ i - Len(p) \in 1..Len(q) /\ i > Len(p) /\ r[i] = q[i - Len(p)]
  BY <1>1, <1>2, <1>3
<1>5. Increasing(p) /\ Increasing(q) /\ Below(p, q) => Increasing(r)
  <2> SUFFICES ASSUME Increasing(p), Increasing(q), Below(p, q),
                      NEW i \in DOMAIN r, NEW j \in DOMAIN r, i < j
               PROVE  r[i] < r[j]
    BY DEF Increasing
  <2>1. i \in Int /\ j \in Int
    BY <1>1, <1>3
  <2>2. CASE i \in 1..Len(p) /\ r[i] = p[i] /\ j \in 1..Len(p) /\ r[j] = p[j]
    BY <2>2, <1>1 DEF Increasing
  <2>3. CASE i \in 1..Len(p) /\ r[i] = p[i] /\ j - Len(p) \in 1..Len(q) /\ r[j] = q[j - Len(p)]
    BY <2>3, <1>1 DEF Below
  <2>4. CASE /\ i - Len(p) \in 1..Len(q) /\ r[i] = q[i - Len(p)]
             /\ j - Len(p) \in 1..Len(q) /\ r[j] = q[j - Len(p)]
    <3>1. i - Len(p) < j - Len(p)
      BY <2>1, <1>1
    <3> QED
      BY <2>4, <3>1, <1>1 DEF Increasing
  <2>5. CASE i - Len(p) \in 1..Len(q) /\ i > Len(p) /\ j \in 1..Len(p)
    BY <2>5, <2>1, <1>1
  <2> QED
    BY <1>4, <2>2, <2>3, <2>4, <2>5
<1>6. \A x : Below(x, p) /\ Below(x, q) => Below(x, r)
  <2> SUFFICES ASSUME NEW x, Below(x, p), Below(x, q), NEW i \in DOMAIN x, NEW j \in DOMAIN r
               PROVE  x[i] < r[j]
    BY DEF Below
  <2> QED
    BY <1>1, <1>4 DEF Below
<1>7. \A x : Below(p, x) /\ Below(q, x) => Below(r, x)
  BY <1>1, <1>4, Zenon DEF Below
<1>8. \A n : UpTo(p, n) /\ UpTo(q, n) => UpTo(r, n)
  BY <1>1, <1>4, Zenon DEF UpTo
<1> QED
  BY <1>2, <1>5, <1>6, <1>7, <1>8 DEF r

\* Q and rest are parts of msgs that follow each other.
Parts(msgs, Q, rest) ==
  /\ Q \in Seq(Seq(Message)) /\ rest \in Seq(Message)
  /\ \A k \in DOMAIN Q : Increasing(Q[k]) /\ Below(Q[k], rest)
  /\ \A k, l \in DOMAIN Q : k < l => Below(Q[k], Q[l])
  /\ \A k \in DOMAIN Q : \A i \in DOMAIN Q[k] : \E m \in DOMAIN msgs : Q[k][i] = msgs[m]
  /\ Increasing(rest)
  /\ \A i \in DOMAIN rest : \E m \in DOMAIN msgs : rest[i] = msgs[m]

\* r holds the elements of q at lo..hi.
IsSlice(r, q, lo, hi) ==
  /\ r \in Seq(Message) /\ Len(r) = IF lo <= hi THEN hi - lo + 1 ELSE 0
  /\ \A i \in DOMAIN r : \E m \in DOMAIN q : r[i] = q[m] /\ m \in lo..hi
  /\ Increasing(q) => Increasing(r)

\* The elements of a part of a sequence.
LEMMA Slice ==
  ASSUME NEW q \in Seq(Message), NEW lo \in Nat \ {0}, NEW hi \in Nat, hi <= Len(q)
  PROVE  IsSlice(SubSeq(q, lo, hi), q, lo, hi)
<1> DEFINE r == SubSeq(q, lo, hi)
<1>1. Len(q) \in Nat /\ DOMAIN q = 1..Len(q)
  BY LenProperties
<1>2. \A i \in lo..hi : q[i] \in Message
  BY <1>1, ElementOfSeq
<1>3. /\ r \in Seq(Message) /\ Len(r) = IF lo <= hi THEN hi - lo + 1 ELSE 0
      /\ \A i \in 1..(hi - lo + 1) : r[i] = q[lo + i - 1]
  BY <1>2, SubSeqProperties
<1>4. DOMAIN r = 1..Len(r)
  BY <1>3, LenProperties
<1> HIDE DEF r
<1>5. \A i \in DOMAIN r : /\ i + (lo - 1) \in DOMAIN q /\ r[i] = q[i + (lo - 1)]
                          /\ i + (lo - 1) \in lo..hi
  <2> SUFFICES ASSUME NEW i \in DOMAIN r
               PROVE  /\ i + (lo - 1) \in DOMAIN q /\ r[i] = q[i + (lo - 1)]
                      /\ i + (lo - 1) \in lo..hi
    OBVIOUS
  <2>1. i \in 1..(hi - lo + 1) /\ lo + i - 1 = i + (lo - 1)
    BY <1>3, <1>4
  <2> QED
    BY <2>1, <1>1, <1>3
<1>6. Increasing(q) => Increasing(r)
  <2> SUFFICES ASSUME Increasing(q), NEW i \in DOMAIN r, NEW j \in DOMAIN r, i < j
               PROVE  r[i] < r[j]
    BY DEF Increasing
  <2>1. i + (lo - 1) < j + (lo - 1)
    BY <1>3, <1>4
  <2> QED
    BY <2>1, <1>5 DEF Increasing
<1> QED
  BY <1>3, <1>5, <1>6 DEF r, IsSlice

\* Where the batches of a sequence begin and end.
LEMMA Multiples ==
  /\ \A k, l \in Nat : k < l => k * BatchSize <= (l - 1) * BatchSize
  /\ \A k \in Nat : k * BatchSize \in Nat
  /\ \A k \in Nat \ {0} : (k - 1) * BatchSize + BatchSize = k * BatchSize
  /\ \A n \in Nat : n \div BatchSize \in Nat /\ (n \div BatchSize) * BatchSize <= n
<1>1. BatchSize \in Nat /\ BatchSize > 0
  BY Messages
<1>2. ASSUME NEW k \in Nat, NEW d \in Nat
      PROVE  k * BatchSize <= (k + d) * BatchSize /\ k * BatchSize \in Nat
  <2>1. (k + d) * BatchSize = k * BatchSize + d * BatchSize
    BY <1>1
  <2>2. d * BatchSize \in Nat /\ k * BatchSize \in Nat
    BY <1>1
  <2> QED
    BY <2>1, <2>2
<1>3. ASSUME NEW k \in Nat, NEW l \in Nat, k < l
      PROVE  k * BatchSize <= (l - 1) * BatchSize
  <2>1. (l - 1) - k \in Nat /\ k + ((l - 1) - k) = l - 1
    BY <1>3
  <2> QED
    BY <1>2, <2>1
<1>4. ASSUME NEW k \in Nat \ {0}
      PROVE  (k - 1) * BatchSize + BatchSize = k * BatchSize
  BY <1>1
<1>5. ASSUME NEW n \in Nat
      PROVE  n \div BatchSize \in Nat /\ (n \div BatchSize) * BatchSize <= n
  BY <1>1
<1> QED
  BY <1>2, <1>3, <1>4, <1>5

Chunks(msgs) ==
  [i \in 1..(Len(msgs) \div BatchSize) |->
     SubSeq(msgs, (i - 1) * BatchSize + 1, i * BatchSize)]
Remainder(msgs) == SubSeq(msgs, (Len(msgs) \div BatchSize) * BatchSize + 1, Len(msgs))

\* The batches that are cut from a sequence, and what is left, are its parts.
LEMMA Cutting ==
  ASSUME NEW msgs \in Seq(Message), Increasing(msgs)
  PROVE  Parts(msgs, Chunks(msgs), Remainder(msgs))
<1> DEFINE full == Len(msgs) \div BatchSize
           Q == Chunks(msgs)
           rest == Remainder(msgs)
<1>1. /\ Len(msgs) \in Nat /\ DOMAIN msgs = 1..Len(msgs) /\ full \in Nat
      /\ full * BatchSize <= Len(msgs) /\ full * BatchSize \in Nat
  BY LenProperties, Multiples
<1>2. DOMAIN Q = 1..full /\ \A k \in 1..full : Q[k] = SubSeq(msgs, (k - 1) * BatchSize + 1, k * BatchSize)
  BY DEF Chunks
<1>3. ASSUME NEW k \in 1..full
      PROVE  /\ Q[k] \in Seq(Message) /\ Increasing(Q[k])
             /\ \A i \in DOMAIN Q[k] : \E m \in DOMAIN msgs :
                  /\ Q[k][i] = msgs[m]
                  /\ m \in ((k - 1) * BatchSize + 1)..(k * BatchSize)
  <2>1. /\ (k - 1) * BatchSize + 1 \in Nat \ {0} /\ k * BatchSize \in Nat
        /\ k * BatchSize <= full * BatchSize
    <3>1. k - 1 \in Nat /\ k \in Nat /\ full + 1 \in Nat /\ k < full + 1
      BY <1>1
    <3>2. (k - 1) * BatchSize \in Nat /\ k * BatchSize \in Nat
      BY <3>1, Multiples
    <3>3. k * BatchSize <= ((full + 1) - 1) * BatchSize
      BY <3>1, Multiples
    <3>4. (full + 1) - 1 = full
      BY <1>1
    <3> QED
      BY <3>2, <3>3, <3>4
  <2>2. k * BatchSize <= Len(msgs)
    BY <2>1, <1>1
  <2> QED
    <3> DEFINE lo == (k - 1) * BatchSize + 1
               hi == k * BatchSize
    <3>1. lo \in Nat \ {0} /\ hi \in Nat /\ hi <= Len(msgs) /\ Q[k] = SubSeq(msgs, lo, hi)
      BY <1>2, <2>1, <2>2
    <3> HIDE DEF lo, hi, Q
    <3>2. IsSlice(Q[k], msgs, lo, hi)
      BY <3>1, Slice
    <3> QED
      BY <3>2 DEF IsSlice, lo, hi
<1>4. /\ rest \in Seq(Message) /\ Increasing(rest)
      /\ \A i \in DOMAIN rest : \E m \in DOMAIN msgs :
           /\ rest[i] = msgs[m]
           /\ m \in (full * BatchSize + 1)..Len(msgs)
  <2>1. full * BatchSize + 1 \in Nat \ {0} /\ Len(msgs) <= Len(msgs)
    BY <1>1
  <2> QED
    <3>1. IsSlice(rest, msgs, full * BatchSize + 1, Len(msgs))
      BY <1>1, <2>1, Slice DEF Remainder
    <3> QED
      BY <3>1 DEF IsSlice
<1> HIDE DEF Q, rest, full
<1>5. ASSUME NEW k \in 1..full, NEW l \in 1..full, k < l
      PROVE  Below(Q[k], Q[l])
  <2> SUFFICES ASSUME NEW i \in DOMAIN Q[k], NEW j \in DOMAIN Q[l]
               PROVE  Q[k][i] < Q[l][j]
    BY DEF Below
  <2>1. PICK m \in DOMAIN msgs : Q[k][i] = msgs[m] /\ m \in ((k - 1) * BatchSize + 1)..(k * BatchSize)
    BY <1>3
  <2>2. PICK n \in DOMAIN msgs : Q[l][j] = msgs[n] /\ n \in ((l - 1) * BatchSize + 1)..(l * BatchSize)
    BY <1>3
  <2>3. k * BatchSize <= (l - 1) * BatchSize /\ k * BatchSize \in Nat /\ (l - 1) * BatchSize \in Nat
    <3>1. k \in Nat /\ l \in Nat /\ l - 1 \in Nat
      BY <1>1
    <3> QED
      BY <1>5, <3>1, Multiples
  <2>4. m < n
    <3> DEFINE a == k * BatchSize
               b == (l - 1) * BatchSize
    <3>1. m <= a /\ n >= b + 1 /\ m \in Nat /\ n \in Nat
      BY <2>1, <2>2, <1>1
    <3>2. a <= b /\ a \in Nat /\ b \in Nat
      BY <2>3
    <3> HIDE DEF a, b
    <3> QED
      BY <3>1, <3>2
  <2> QED
    BY <2>1, <2>2, <2>4 DEF Increasing
<1>6. ASSUME NEW k \in 1..full
      PROVE  Below(Q[k], rest)
  <2> SUFFICES ASSUME NEW i \in DOMAIN Q[k], NEW j \in DOMAIN rest
               PROVE  Q[k][i] < rest[j]
    BY DEF Below
  <2>1. PICK m \in DOMAIN msgs : Q[k][i] = msgs[m] /\ m \in ((k - 1) * BatchSize + 1)..(k * BatchSize)
    BY <1>3
  <2>2. PICK n \in DOMAIN msgs : rest[j] = msgs[n] /\ n \in (full * BatchSize + 1)..Len(msgs)
    BY <1>4
  <2>3. k * BatchSize <= full * BatchSize /\ k * BatchSize \in Nat
    <3>1. k \in Nat /\ full + 1 \in Nat /\ k < full + 1 /\ (full + 1) - 1 = full
      BY <1>1
    <3> QED
      BY <3>1, Multiples
  <2>4. m < n
    <3> DEFINE a == k * BatchSize
               b == full * BatchSize
    <3>1. m <= a /\ n >= b + 1 /\ m \in Nat /\ n \in Nat
      BY <2>1, <2>2, <1>1
    <3>2. a <= b /\ a \in Nat /\ b \in Nat
      BY <2>3, <1>1
    <3> HIDE DEF a, b
    <3> QED
      BY <3>1, <3>2
  <2> QED
    BY <2>1, <2>2, <2>4 DEF Increasing
<1>7. Q \in Seq(Seq(Message))
  <2>1. Q = [k \in 1..full |-> Q[k]]
    BY DEF Q, full, Chunks
  <2> QED
    BY <2>1, <1>1, <1>3, IsASeq
<1>8. DOMAIN Q = 1..full
  BY <1>2
<1> QED
  BY <1>3, <1>4, <1>5, <1>6, <1>7, <1>8 DEF Parts, Q, rest

\* The rest can be the last batch.
LEMMA CuttingAll ==
  ASSUME NEW msgs \in Seq(Message), Increasing(msgs)
  PROVE  Parts(msgs, Append(Chunks(msgs), Remainder(msgs)), <<>>)
<1> DEFINE Q == Chunks(msgs)
           rest == Remainder(msgs)
           R == Append(Q, rest)
<1>1. Parts(msgs, Q, rest)
  BY Cutting
<1> HIDE DEF Q, rest
<1>2. Q \in Seq(Seq(Message)) /\ rest \in Seq(Message)
  BY <1>1 DEF Parts
<1>3. /\ Len(Q) \in Nat /\ DOMAIN Q = 1..Len(Q) /\ DOMAIN R = 1..(Len(Q) + 1)
      /\ R \in Seq(Seq(Message))
      /\ \A i \in 1..Len(Q) : R[i] = Q[i]
      /\ R[Len(Q) + 1] = rest
  BY <1>2, LenProperties, AppendProperties
<1> HIDE DEF R
<1>4. \A k \in DOMAIN R :
        \/ k \in DOMAIN Q /\ R[k] = Q[k]
        \/ k = Len(Q) + 1 /\ R[k] = rest
  BY <1>3
<1>5. \A x : DOMAIN <<>> = {} /\ Below(x, <<>>) /\ Increasing(<<>>)
  BY DEF Below, Increasing
<1>6. <<>> \in Seq(Message)
  OBVIOUS
<1>7. \A k \in DOMAIN R : /\ Increasing(R[k]) /\ Below(R[k], <<>>)
                          /\ \A i \in DOMAIN R[k] : \E m \in DOMAIN msgs : R[k][i] = msgs[m]
  <2> SUFFICES ASSUME NEW k \in DOMAIN R
               PROVE  /\ Increasing(R[k])
                      /\ \A i \in DOMAIN R[k] : \E m \in DOMAIN msgs : R[k][i] = msgs[m]
    BY <1>5
  <2>1. CASE k \in DOMAIN Q /\ R[k] = Q[k]
    BY <2>1, <1>1 DEF Parts
  <2>2. CASE R[k] = rest
    BY <2>2, <1>1 DEF Parts
  <2> QED
    BY <1>4, <2>1, <2>2
<1>8. ASSUME NEW k \in DOMAIN R, NEW l \in DOMAIN R, k < l
      PROVE  Below(R[k], R[l])
  <2>1. k \in DOMAIN Q /\ R[k] = Q[k]
    BY <1>3, <1>8
  <2>2. CASE l \in DOMAIN Q /\ R[l] = Q[l]
    BY <2>1, <2>2, <1>1, <1>8, Zenon DEF Parts
  <2>3. CASE R[l] = rest
    BY <2>1, <2>3, <1>1, Zenon DEF Parts
  <2> QED
    BY <1>4, <2>2, <2>3
<1> QED
  BY <1>3, <1>5, <1>6, <1>7, <1>8 DEF Parts, R, Q, rest

\* The whole of a sequence can be a batch.
LEMMA Whole ==
  ASSUME NEW msgs \in Seq(Message), Increasing(msgs)
  PROVE  Parts(msgs, <<msgs>>, <<>>)
<1>1. /\ <<msgs>> \in Seq(Seq(Message)) /\ <<>> \in Seq(Message)
      /\ DOMAIN <<msgs>> = {1} /\ <<msgs>>[1] = msgs /\ DOMAIN <<>> = {}
  OBVIOUS
<1>2. Increasing(<<>>) /\ Below(msgs, <<>>)
  BY DEF Increasing, Below
<1> QED
  BY <1>1, <1>2 DEF Parts

---------------------------------------------------------------------------
(* Lemmas about the log.                                                   *)

\* What belongs to a log.
LEMMA InLog ==
  ASSUME NEW L \in Logs
  PROVE  /\ DOMAIN L \subseteq Nat \ {0}
         /\ \A i \in DOMAIN L :
              /\ L[i] \in Entry /\ L[i].conn \in Conns /\ L[i].msgs \in Seq(Message)
              /\ L[i].pending \in BOOLEAN /\ L[i].waited \in BOOLEAN
<1>1. PICK D \in SUBSET (Nat \ {0}) : L \in [D -> Entry]
  BY DEF Logs
<1>2. DOMAIN L = D /\ \A i \in D : L[i] \in Entry
  BY <1>1
<1>3. \A e \in Entry : /\ e.conn \in Conns /\ e.msgs \in Seq(Message)
                       /\ e.pending \in BOOLEAN /\ e.waited \in BOOLEAN
  BY DEF Entry
<1> QED
  BY <1>2, <1>3

\* A log has a last index.
LEMMA LastOf ==
  ASSUME NEW L \in Logs, HasLast(L)
  PROVE  /\ LastIndex(L) \in Nat /\ \A i \in DOMAIN L : i <= LastIndex(L)
         /\ IsFiniteSet(DOMAIN L)
<1> DEFINE S == {0} \cup DOMAIN L
           B == {b \in Nat : \A i \in S : i <= b}
           R == OpToRel(<, Nat)
<1>1. S \subseteq Nat /\ DOMAIN L \subseteq Nat
  BY InLog
<1>2. B # {} /\ B \subseteq Nat
  BY <1>1 DEF HasLast
<1>3. \E m \in B : \A k \in B : ~(<<k, m>> \in R)
  <2> HIDE DEF B, R
  <2> QED
    BY <1>2, NatLessThanWellFounded, WFMin DEF R
<1>4. PICK m \in B : \A k \in B : ~(<<k, m>> \in R)
  BY <1>3
<1>5. \A k \in B : ~(k < m)
  BY <1>2, <1>4, Zenon DEF OpToRel
<1>6. m \in Nat /\ \A i \in S : i <= m
  OBVIOUS
<1>7. m \in S
  <2>1. SUFFICES ASSUME m \notin S PROVE FALSE
    OBVIOUS
  <2>2. m # 0 /\ \A i \in S : i # m
    BY <2>1
  <2>3. m - 1 \in Nat /\ \A i \in S : i <= m - 1
    <3> HIDE DEF S, B
    <3> QED
      BY <1>1, <1>6, <2>2
  <2>4. m - 1 \in B
    BY <2>3
  <2> QED
    BY <2>4, <1>5, <1>6
<1>8. Max(S) \in S /\ \A y \in S : Max(S) >= y
  <2>1. \A y \in S : m >= y
    BY <1>1, <1>6
  <2> HIDE DEF S, B
  <2> QED
    BY <1>7, <2>1 DEF Max
<1>9. IsFiniteSet(DOMAIN L)
  <2>1. \A i \in DOMAIN L : i <= m
    BY <1>6
  <2> HIDE DEF B
  <2> QED
    BY <1>1, <1>6, <2>1, FS_BoundedSetOfNaturals
<1> QED
  BY <1>1, <1>8, <1>9 DEF LastIndex

\* Finitely many entries are waited for.
LEMMA AwaitedFinite ==
  ASSUME NEW L \in Logs, HasLast(L), NEW c
  PROVE  IsFiniteSet(Awaited(L, c)) /\ Cardinality(Awaited(L, c)) \in Nat
<1>1. IsFiniteSet(DOMAIN L) /\ Awaited(L, c) \subseteq DOMAIN L
  BY LastOf DEF Awaited
<1> QED
  BY <1>1, FS_Subset, FS_CardinalityType

\* M has no entry of c that can be applied but those L has.
Fewer(L, M, c) ==
  /\ Pending(M, c) \subseteq Pending(L, c)
  /\ \A i \in Pending(M, c) : M[i].msgs = L[i].msgs

\* M is L with the accepted ones of the batches Q of c.
IsExtension(M, L, c, Q, accepted) ==
  /\ M \in Logs /\ HasLast(M)
  /\ \A i \in DOMAIN L : i <= LastIndex(L) /\ M[i] = L[i]
  /\ \A j \in accepted : M[LastIndex(L) + j].msgs = Q[j]
  /\ Pending(M, c) \subseteq Pending(L, c) \cup {LastIndex(L) + j : j \in accepted}
  /\ Cardinality(Awaited(M, c)) = Cardinality(Awaited(L, c)) + Cardinality(accepted)
  /\ \A d \in Conns \ {c} : Fewer(L, M, d) /\ Awaited(M, d) = Awaited(L, d)

\* A set and its elements shifted are equally many.
LEMMA Shifted ==
  ASSUME NEW A \in SUBSET Nat, IsFiniteSet(A), NEW n \in Nat
  PROVE  LET B == {n + j : j \in A} IN IsFiniteSet(B) /\ Cardinality(B) = Cardinality(A)
<1> DEFINE B == {n + j : j \in A}
           f == [j \in A |-> n + j]
<1>1. f \in [A -> B] /\ (\A i, j \in A : f[i] = f[j] => i = j) /\ \A b \in B : \E j \in A : f[j] = b
  OBVIOUS
<1>2. ExistsBijection(A, B)
  BY <1>1 DEF ExistsBijection, Bijection, Injection, Surjection, IsInjective
<1> QED
  BY <1>2, FS_Bijection

\* Extend adds the accepted batches, and nothing else.
LEMMA Extending ==
  ASSUME NEW L \in Logs, HasLast(L), NEW c \in Conns, NEW Q \in Seq(Seq(Message)),
         NEW accepted \in SUBSET (1..Len(Q))
  PROVE  IsExtension(Extend(L, c, Q, accepted), L, c, Q, accepted)
<1> DEFINE M == Extend(L, c, Q, accepted)
           n == LastIndex(L)
           new == {n + j : j \in accepted}
<1>1. /\ DOMAIN L \subseteq Nat \ {0} /\ n \in Nat /\ IsFiniteSet(DOMAIN L)
      /\ \A i \in DOMAIN L : i <= n
  BY InLog, LastOf
<1>2. /\ Len(Q) \in Nat /\ accepted \subseteq Nat \ {0} /\ IsFiniteSet(accepted)
      /\ \A j \in accepted : Q[j] \in Seq(Message) /\ j <= Len(Q)
  <2>1. Len(Q) \in Nat /\ \A j \in 1..Len(Q) : Q[j] \in Seq(Message)
    BY LenProperties, ElementOfSeq
  <2>2. IsFiniteSet(1..Len(Q))
    BY <2>1, FS_Interval
  <2>3. IsFiniteSet(accepted)
    BY <2>2, FS_Subset
  <2> QED
    BY <2>1, <2>3
<1>3. /\ DOMAIN M = DOMAIN L \cup new /\ new \cap DOMAIN L = {}
      /\ \A i \in DOMAIN L : M[i] = L[i]
      /\ \A j \in accepted : M[n + j] = Proposal(c, Q[j])
  BY <1>1, <1>2 DEF Extend
<1>4. \A j \in accepted :
        /\ Proposal(c, Q[j]) \in Entry /\ Proposal(c, Q[j]).conn = c
        /\ Proposal(c, Q[j]).msgs = Q[j] /\ Proposal(c, Q[j]).waited = TRUE
  BY <1>2 DEF Proposal, Entry
<1> HIDE DEF M, n
<1>5. M \in Logs
  <2>1. \A i \in DOMAIN M : i \in Nat \ {0} /\ M[i] \in Entry
    <3>1. \A i \in DOMAIN L : i \in Nat \ {0} /\ M[i] \in Entry
      BY <1>1, <1>3, InLog
    <3>2. \A i \in new : i \in Nat \ {0} /\ M[i] \in Entry
      BY <1>1, <1>2, <1>3, <1>4
    <3> QED
      BY <1>3, <3>1, <3>2
  <2>2. M = [i \in DOMAIN M |-> M[i]]
    BY DEF M, Extend
  <2>3. M \in [DOMAIN M -> Entry] /\ DOMAIN M \in SUBSET (Nat \ {0})
    BY <2>1, <2>2
  <2> QED
    BY <2>3 DEF Logs
<1>6. HasLast(M)
  <2>1. n + Len(Q) \in Nat /\ \A i \in DOMAIN M : i <= n + Len(Q)
    <3>1. n + Len(Q) \in Nat /\ \A i \in DOMAIN L : i <= n + Len(Q)
      BY <1>1, <1>2
    <3>2. \A i \in new : i <= n + Len(Q)
      BY <1>1, <1>2
    <3> QED
      BY <1>3, <3>1, <3>2
  <2> QED
    BY <2>1 DEF HasLast
<1>7. Pending(M, c) \subseteq Pending(L, c) \cup new
  BY <1>3 DEF Pending
<1>8. ASSUME NEW d \in Conns \ {c}
      PROVE  Fewer(L, M, d) /\ Awaited(M, d) = Awaited(L, d)
  <2>1. \A i \in new : M[i].conn = c
    BY <1>3, <1>4
  <2> HIDE DEF new
  <2> QED
    BY <1>3, <2>1 DEF Fewer, Pending, Awaited
<1>9. Cardinality(Awaited(M, c)) = Cardinality(Awaited(L, c)) + Cardinality(accepted)
  <2>1. Awaited(M, c) = Awaited(L, c) \cup new /\ Awaited(L, c) \cap new = {}
    <3>1. \A i \in new : M[i].conn = c /\ M[i].waited
      <4> SUFFICES ASSUME NEW j \in accepted PROVE M[n + j].conn = c /\ M[n + j].waited
        OBVIOUS
      <4> QED
        BY <1>3, <1>4, Zenon
    <3> HIDE DEF new
    <3> QED
      BY <1>3, <3>1 DEF Awaited
  <2>2. IsFiniteSet(Awaited(L, c))
    BY AwaitedFinite
  <2>3. IsFiniteSet(new) /\ Cardinality(new) = Cardinality(accepted)
    BY <1>1, <1>2, Shifted
  <2> HIDE DEF new
  <2>4. Cardinality(Awaited(L, c) \cup new)
          = Cardinality(Awaited(L, c)) + Cardinality(new) - Cardinality({})
    BY <2>1, <2>2, <2>3, FS_Union
  <2>5. Cardinality({}) = 0 /\ Cardinality(Awaited(L, c)) \in Nat /\ Cardinality(new) \in Nat
    BY <2>2, <2>3, FS_EmptySet, FS_CardinalityType
  <2>6. Cardinality(Awaited(M, c)) = Cardinality(Awaited(L, c) \cup new)
    BY <2>1
  <2> QED
    BY <2>3, <2>4, <2>5, <2>6
<1>10. \A j \in accepted : M[n + j].msgs = Q[j]
  BY <1>3, <1>4
<1> QED
  BY <1>1, <1>3, <1>5, <1>6, <1>7, <1>8, <1>9, <1>10 DEF IsExtension, n, M

\* Forgetting an entry that is not pending and not waited for loses nothing.
LEMMA Forgetting ==
  ASSUME NEW L \in Logs, HasLast(L)
  PROVE  /\ Unsettled(L) \in Logs /\ HasLast(Unsettled(L))
         /\ \A c : /\ Pending(Unsettled(L), c) = Pending(L, c)
                   /\ Awaited(Unsettled(L), c) = Awaited(L, c)
         /\ \A i \in DOMAIN Unsettled(L) : i \in DOMAIN L /\ Unsettled(L)[i] = L[i]
<1> DEFINE M == Unsettled(L)
           D == {i \in DOMAIN L : L[i].pending \/ L[i].waited}
<1>1. M = [i \in D |-> L[i]] /\ DOMAIN M = D /\ \A i \in D : M[i] = L[i]
  BY DEF Unsettled, Restrict
<1>2. DOMAIN L \subseteq Nat \ {0} /\ \A i \in DOMAIN L : L[i] \in Entry
  BY InLog
<1> HIDE DEF M
<1>3. M \in [D -> Entry] /\ D \in SUBSET (Nat \ {0})
  BY <1>1, <1>2
<1>4. M \in Logs
  BY <1>3 DEF Logs
<1>5. HasLast(M)
  BY <1>1 DEF HasLast
<1>6. \A c : Pending(M, c) = Pending(L, c) /\ Awaited(M, c) = Awaited(L, c)
  BY <1>1 DEF Pending, Awaited
<1> QED
  BY <1>1, <1>4, <1>5, <1>6 DEF M

---------------------------------------------------------------------------
(* Lemmas about the states of the event loop.                              *)

Replies == Seq({"ack", "redirect"})

\* Nothing but what concerns c differs in r, except that entries of others may
\* no longer be applied.
Apart(s, r, c) ==
  /\ r \in LoopState /\ HasLast(r.log)
  /\ \A d \in Conns \ {c} :
       /\ r.conn[d] = s.conn[d] /\ r.replies[d] = s.replies[d]
       /\ Fewer(s.log, r.log, d) /\ Awaited(r.log, d) = Awaited(s.log, d)

\* s with c's record, the log and what was sent to c replaced.
Put(s, c, v, L, q) ==
  [conn |-> [s.conn EXCEPT ![c] = v], log |-> L, replies |-> [s.replies EXCEPT ![c] = q]]

\* The parts of a state of the event loop.
LEMMA Fields ==
  ASSUME NEW s \in LoopState
  PROVE  /\ s.conn \in [Conns -> Conn] /\ s.log \in Logs /\ s.replies \in [Conns -> Replies]
         /\ s = [conn |-> s.conn, log |-> s.log, replies |-> s.replies]
BY DEF LoopState, Replies

\* The fields of a client_t.
LEMMA ConnFields ==
  ASSUME NEW k \in Conn
  PROVE  /\ k.handle \in {"none", "open", "closing", "closed"} /\ k.node \in Nodes \cup {NoNode}
         /\ k.listed \in BOOLEAN /\ k.ref_count \in Int /\ k.received \in Nat
         /\ k.buffer \in Seq(Message) /\ k.batch \in Seq(Message) /\ k.is_paused \in BOOLEAN
         /\ k.redirecting \in BOOLEAN /\ k.acks \in Int
BY DEF Conn

\* The logs of two states do not differ for the other connections.
Others(L, M, c) == \A d \in Conns \ {c} : Fewer(L, M, d) /\ Awaited(M, d) = Awaited(L, d)

\* A log differs for nobody from itself.
LEMMA SameOthers ==
  ASSUME NEW L, NEW c
  PROVE  Others(L, L, c)
BY DEF Others, Fewer

\* What Put does.
IsPut(s, r, c, v, L, q) ==
  /\ Apart(s, r, c) /\ r.conn[c] = v /\ r.log = L /\ r.replies[c] = q
  /\ r.replies = [s.replies EXCEPT ![c] = q] /\ r.conn = [s.conn EXCEPT ![c] = v]

\* Put replaces what is c's and nothing else.
LEMMA Putting ==
  ASSUME NEW s \in LoopState, NEW c \in Conns, NEW v \in Conn, NEW L \in Logs, HasLast(L),
         NEW q \in Replies, Others(s.log, L, c)
  PROVE  IsPut(s, Put(s, c, v, L, q), c, v, L, q)
<1> DEFINE r == Put(s, c, v, L, q)
<1>1. s.conn \in [Conns -> Conn] /\ s.replies \in [Conns -> Replies]
  BY Fields
<1>2. /\ r.conn = [s.conn EXCEPT ![c] = v] /\ r.log = L
      /\ r.replies = [s.replies EXCEPT ![c] = q]
      /\ r = [conn |-> r.conn, log |-> r.log, replies |-> r.replies]
  BY DEF Put
<1> HIDE DEF r
<1>3. r.conn \in [Conns -> Conn] /\ r.replies \in [Conns -> Replies]
  BY <1>1, <1>2
<1>4. r \in LoopState
  BY <1>2, <1>3 DEF LoopState, Replies
<1>5. /\ r.conn[c] = v /\ r.replies[c] = q
      /\ \A d \in Conns \ {c} : r.conn[d] = s.conn[d] /\ r.replies[d] = s.replies[d]
  BY <1>1, <1>2
<1> QED
  BY <1>2, <1>4, <1>5 DEF Apart, Others, IsPut, r

\* The messages of c are the same in r, but fewer may still be applied.
SameMessages(s, r, c) ==
  /\ r.conn[c].batch = s.conn[c].batch /\ r.conn[c].received = s.conn[c].received
  /\ Fewer(s.log, r.log, c)

\* Messages that stay in their places stay in order.
LEMMA OrderKept ==
  ASSUME NEW s, NEW r, NEW c, NEW A, NEW B, A[c] = B[c], SameMessages(s, r, c)
  PROVE  /\ InOrder(s, c, A) => InOrder(r, c, B)
         /\ r.conn[c].buffer = s.conn[c].buffer /\ InLine(s, c, A) => InLine(r, c, B)
<1>1. \A q : Later(s, c, A, q) => Later(r, c, B, q)
  BY DEF SameMessages, Fewer, Later
<1>2. InOrder(s, c, A) => InOrder(r, c, B)
  <2> SUFFICES ASSUME InOrder(s, c, A) PROVE InOrder(r, c, B)
    OBVIOUS
  <2>1. Later(r, c, B, r.conn[c].batch)
    BY <1>1 DEF InOrder, SameMessages
  <2>2. \A i \in Pending(r.log, c) : i \in Pending(s.log, c) /\ r.log[i].msgs = s.log[i].msgs
    BY DEF SameMessages, Fewer
  <2> QED
    BY <2>1, <2>2 DEF InOrder, SameMessages
<1>3. r.conn[c].buffer = s.conn[c].buffer /\ InLine(s, c, A) => InLine(r, c, B)
  BY <1>1 DEF InLine, SameMessages
<1> QED
  BY <1>2, <1>3

\* A callback of c leaves the other connections settled.
LEMMA OthersSettled ==
  ASSUME NEW s, NEW r, NEW c, NEW A, NEW B, Apart(s, r, c), NEW d \in Conns \ {c},
         A[d] = B[d], Settled(s, d, A)
  PROVE  Settled(r, d, B)
<1>1. /\ r.conn[d] = s.conn[d] /\ r.replies[d] = s.replies[d]
      /\ Fewer(s.log, r.log, d) /\ Awaited(r.log, d) = Awaited(s.log, d)
  BY DEF Apart
<1>2. SameMessages(s, r, d)
  BY <1>1 DEF SameMessages
<1>3. /\ InOrder(s, d, A) => InOrder(r, d, B)
      /\ InLine(s, d, A) => InLine(r, d, B)
  BY <1>1, <1>2, OrderKept
<1>4. Dated(r, d) /\ RefsCounted(r, d) /\ Tidy(r, d)
  BY <1>1 DEF Settled, Good, Dated, RefsCounted, Tidy, Partial
<1> QED
  BY <1>1, <1>3, <1>4 DEF Settled, Good

\* What close_and_free_client leaves of c.
ClosedFields(s, r, c) ==
  /\ \A f \in {"node", "ref_count", "received", "buffer", "batch", "is_paused",
               "redirecting", "acks"} : r.conn[c][f] = s.conn[c][f]
  /\ IF s.conn[c].handle = "open" THEN r.conn[c].handle = "closing" /\ ~r.conn[c].listed
     ELSE r.conn[c] = s.conn[c]

\* close_and_free_client changes a handle, once.
LEMMA Closing ==
  ASSUME NEW s \in LoopState, HasLast(s.log), NEW c \in Conns
  PROVE  LET r == Close(s, c)
         IN  Apart(s, r, c) /\ r.log = s.log /\ r.replies = s.replies /\ ClosedFields(s, r, c)
<1> DEFINE r == Close(s, c)
           k == s.conn[c]
           v == [k EXCEPT !.handle = "closing", !.listed = FALSE]
<1>1. /\ s.conn \in [Conns -> Conn] /\ s.log \in Logs /\ s.replies \in [Conns -> Replies]
      /\ k \in Conn
  BY Fields
<1>2. CASE k.handle # "open"
  <2>1. r = s
    BY <1>2 DEF Close
  <2>2. Apart(s, s, c) /\ ClosedFields(s, s, c)
    BY <1>2 DEF Apart, Fewer, ClosedFields
  <2> QED
    BY <2>1, <2>2
<1>3. CASE k.handle = "open"
  <2>1. v = [[k EXCEPT !.handle = "closing"] EXCEPT !.listed = FALSE]
    BY <1>1 DEF Conn
  <2>2. [k EXCEPT !.handle = "closing"] \in Conn
    BY <1>1 DEF Conn
  <2>3. /\ v \in Conn /\ v.handle = "closing" /\ ~v.listed
        /\ v.node = k.node /\ v.ref_count = k.ref_count /\ v.received = k.received
        /\ v.buffer = k.buffer /\ v.batch = k.batch /\ v.is_paused = k.is_paused
        /\ v.redirecting = k.redirecting /\ v.acks = k.acks
    BY <1>1, <2>1, <2>2 DEF Conn
  <2>4. r = Put(s, c, v, s.log, s.replies[c])
    <3>1. r = [s EXCEPT !.conn = [s.conn EXCEPT ![c] = v]]
      BY <1>1, <1>3 DEF Close
    <3> HIDE DEF r, v
    <3>2. [s.replies EXCEPT ![c] = s.replies[c]] = s.replies
      BY <1>1
    <3>3. r = [conn |-> [s.conn EXCEPT ![c] = v], log |-> s.log, replies |-> s.replies]
      BY <3>1, Fields
    <3> QED
      BY <3>2, <3>3 DEF Put
  <2> HIDE DEF r, v
  <2>5. s.replies[c] \in Replies /\ Others(s.log, s.log, c)
    BY <1>1, SameOthers
  <2>6. /\ Apart(s, r, c) /\ r.log = s.log /\ r.conn[c] = v
        /\ r.replies = [s.replies EXCEPT ![c] = s.replies[c]]
    <3>1. IsPut(s, Put(s, c, v, s.log, s.replies[c]), c, v, s.log, s.replies[c])
      BY <1>1, <2>3, <2>5, Putting
    <3> QED
      BY <2>4, <3>1 DEF IsPut
  <2>7. r.replies = s.replies
    BY <1>1, <2>6
  <2>8. ClosedFields(s, r, c)
    BY <1>3, <2>3, <2>6 DEF ClosedFields
  <2> QED
    BY <2>6, <2>7, <2>8 DEF r
<1> QED
  BY <1>2, <1>3

\* Two steps that only concern c are one such step.
LEMMA ApartTransitive ==
  ASSUME NEW s, NEW r, NEW t, NEW c, Apart(s, r, c), Apart(r, t, c)
  PROVE  Apart(s, t, c)
BY DEF Apart, Fewer

\* s with c's record replaced.
Set(s, c, v) == [s EXCEPT !.conn = [s.conn EXCEPT ![c] = v]]

\* What Set does.
IsSet(s, r, c, v) ==
  /\ Apart(s, r, c) /\ r.conn[c] = v /\ r.log = s.log /\ r.replies = s.replies
  /\ r.conn = [s.conn EXCEPT ![c] = v]

\* Set replaces c's record and nothing else.
LEMMA Setting ==
  ASSUME NEW s \in LoopState, HasLast(s.log), NEW c \in Conns, NEW v \in Conn
  PROVE  IsSet(s, Set(s, c, v), c, v)
<1> DEFINE r == Set(s, c, v)
<1>1. /\ s.conn \in [Conns -> Conn] /\ s.log \in Logs /\ s.replies \in [Conns -> Replies]
      /\ s = [conn |-> s.conn, log |-> s.log, replies |-> s.replies]
  BY Fields
<1>2. /\ [s.replies EXCEPT ![c] = s.replies[c]] = s.replies
      /\ s.replies[c] \in Replies /\ Others(s.log, s.log, c)
  BY <1>1, SameOthers
<1>3. r = Put(s, c, v, s.log, s.replies[c])
  BY <1>1, <1>2 DEF Put, Set
<1>4. IsPut(s, Put(s, c, v, s.log, s.replies[c]), c, v, s.log, s.replies[c])
  BY <1>1, <1>2, Putting
<1> QED
  BY <1>2, <1>3, <1>4 DEF IsPut, IsSet

\* Part of what is later is later.
LEMMA PartLater ==
  ASSUME NEW s, NEW c, NEW A, NEW msgs, NEW q \in Seq(Message), Later(s, c, A, msgs),
         Increasing(q), \A i \in DOMAIN q : \E m \in DOMAIN msgs : q[i] = msgs[m]
  PROVE  Later(s, c, A, q)
<1>1. Below(A[c], q)
  BY DEF Later, Below
<1>2. \A i \in Pending(s.log, c) : Below(s.log[i].msgs, q)
  BY DEF Later, Below
<1>3. UpTo(q, s.conn[c].received \div 2)
  BY DEF Later, UpTo
<1> QED
  BY <1>1, <1>2, <1>3 DEF Later

\* The fields of c that a flush leaves alone.
Untouched(s, r, c) ==
  /\ r.conn[c].node = s.conn[c].node /\ r.conn[c].received = s.conn[c].received
  /\ r.conn[c].buffer = s.conn[c].buffer /\ r.conn[c].is_paused = s.conn[c].is_paused
  /\ r.conn[c].redirecting = s.conn[c].redirecting /\ r.conn[c].acks = s.conn[c].acks
  /\ r.conn[c].listed => s.conn[c].listed
  /\ r.conn[c].listed => r.conn[c].handle = "open"
  /\ s.conn[c].handle # "none" => r.conn[c].handle # "none"
  /\ r.conn[c].handle = "open" => s.conn[c].handle = "open"
  /\ One(r.conn[c].handle \in {"open", "closing"}) = One(s.conn[c].handle \in {"open", "closing"})

Proposed(s, c, Q, rest, accepted) == [Propose(s, c, Q, accepted) EXCEPT !.conn[c].batch = rest]

\* What a flush does.
IsProposed(s, r, c, Q, rest, accepted) ==
  /\ Apart(s, r, c) /\ r.replies = s.replies
  /\ r.log = Extend(s.log, c, Q, accepted)
  /\ r.conn[c].ref_count = s.conn[c].ref_count + Cardinality(accepted)
  /\ r.conn[c].batch = rest /\ Untouched(s, r, c)

\* What the record of c is after a flush.
LEMMA ProposedFields ==
  ASSUME NEW s \in LoopState, HasLast(s.log), NEW c \in Conns, Dated(s, c),
         NEW Q \in Seq(Seq(Message)), NEW rest \in Seq(Message),
         NEW accepted \in SUBSET (1..Len(Q))
  PROVE  IsProposed(s, Proposed(s, c, Q, rest, accepted), c, Q, rest, accepted)
<1> DEFINE k == s.conn[c]
           n == Cardinality(accepted)
           L == Extend(s.log, c, Q, accepted)
           u == [k EXCEPT !.ref_count = k.ref_count + n]
           p == [s EXCEPT !.conn[c].ref_count = @ + n, !.log = L]
           r == Proposed(s, c, Q, rest, accepted)
<1>1. /\ s.conn \in [Conns -> Conn] /\ s.log \in Logs /\ s.replies \in [Conns -> Replies]
      /\ k \in Conn /\ s = [conn |-> s.conn, log |-> s.log, replies |-> s.replies]
  BY Fields
<1>2. n \in Nat
  <2>1. Len(Q) \in Nat
    BY LenProperties
  <2>2. IsFiniteSet(1..Len(Q))
    BY <2>1, FS_Interval
  <2>3. IsFiniteSet(accepted)
    BY <2>2, FS_Subset
  <2> QED
    BY <2>3, FS_CardinalityType
<1>3. IsExtension(L, s.log, c, Q, accepted)
  BY <1>1, Extending
<1>4. L \in Logs /\ HasLast(L) /\ Others(s.log, L, c)
  BY <1>3 DEF IsExtension, Others
<1> HIDE DEF L, n
<1>5. /\ u \in Conn /\ u.ref_count = k.ref_count + n
      /\ u.handle = k.handle /\ u.node = k.node /\ u.listed = k.listed
      /\ u.received = k.received /\ u.buffer = k.buffer /\ u.batch = k.batch
      /\ u.is_paused = k.is_paused /\ u.redirecting = k.redirecting /\ u.acks = k.acks
  <2>1. k.ref_count + n \in Int
    BY <1>1, <1>2, ConnFields
  <2> QED
    BY <1>1, <2>1 DEF Conn
<1>6. Apart(s, p, c) /\ p.conn[c] = u /\ p.log = L /\ p.replies = s.replies
  <2>1. p = [conn |-> [s.conn EXCEPT ![c] = u], log |-> L, replies |-> s.replies]
    <3>1. p = [s EXCEPT !.conn = [s.conn EXCEPT ![c] = u], !.log = L]
      BY <1>1
    <3> HIDE DEF p, u
    <3> QED
      BY <1>1, <3>1
  <2> HIDE DEF p, u
  <2>2. [s.replies EXCEPT ![c] = s.replies[c]] = s.replies /\ s.replies[c] \in Replies
    BY <1>1
  <2>3. p = Put(s, c, u, L, s.replies[c])
    BY <2>1, <2>2 DEF Put
  <2>4. IsPut(s, Put(s, c, u, L, s.replies[c]), c, u, L, s.replies[c])
    BY <1>1, <1>4, <1>5, <2>2, Putting
  <2> QED
    BY <2>2, <2>3, <2>4 DEF IsPut
<1> HIDE DEF p, u
<1>7. PICK t : /\ t = IF n = Len(Q) THEN p ELSE Close(p, c)
               /\ r = [t EXCEPT !.conn[c].batch = rest]
  BY DEF Proposed, Propose, p, n, L
<1>8. /\ Apart(s, t, c) /\ t.log = L /\ t.replies = s.replies
      /\ ClosedFields(p, t, c) \/ t = p
  <2>1. CASE n = Len(Q)
    BY <1>6, <1>7, <2>1
  <2>2. CASE n # Len(Q)
    <3>1. p \in LoopState /\ HasLast(p.log)
      BY <1>6 DEF Apart
    <3>2. /\ Apart(p, Close(p, c), c) /\ Close(p, c).log = p.log
          /\ Close(p, c).replies = p.replies /\ ClosedFields(p, Close(p, c), c)
      BY <3>1, Closing
    <3>3. t = Close(p, c)
      BY <1>7, <2>2
    <3> HIDE DEF r
    <3> QED
      BY <1>6, <3>2, <3>3, ApartTransitive
  <2> QED
    BY <2>1, <2>2
<1>9. /\ \A f \in {"node", "ref_count", "received", "buffer", "batch", "is_paused",
                   "redirecting", "acks"} : t.conn[c][f] = u[f]
      /\ t.conn[c].listed => k.listed /\ k.handle = "open"
      /\ t.conn[c].listed => t.conn[c].handle = "open"
      /\ \/ t.conn[c].handle = k.handle
         \/ k.handle = "open" /\ t.conn[c].handle = "closing"
  BY <1>5, <1>6, <1>8 DEF ClosedFields, Dated
<1> DEFINE v == [t.conn[c] EXCEPT !.batch = rest]
<1>10. t \in LoopState /\ HasLast(t.log) /\ t.conn \in [Conns -> Conn] /\ t.conn[c] \in Conn
  <2>1. t \in LoopState /\ HasLast(t.log)
    BY <1>8 DEF Apart
  <2> QED
    BY <2>1, Fields
<1>11. /\ v \in Conn /\ v.batch = rest
       /\ v.ref_count = t.conn[c].ref_count
       /\ v.handle = t.conn[c].handle /\ v.node = t.conn[c].node /\ v.listed = t.conn[c].listed
       /\ v.received = t.conn[c].received /\ v.buffer = t.conn[c].buffer
       /\ v.is_paused = t.conn[c].is_paused /\ v.redirecting = t.conn[c].redirecting
       /\ v.acks = t.conn[c].acks
  BY <1>10 DEF Conn
<1>12. Apart(t, r, c) /\ r.conn[c] = v /\ r.log = t.log /\ r.replies = t.replies
  <2>1. r = Set(t, c, v)
    BY <1>7, <1>10 DEF Set
  <2> HIDE DEF r, v
  <2> QED
    BY <1>10, <1>11, <2>1, Setting DEF IsSet
<1> HIDE DEF r, v
<1>13. Apart(s, r, c) /\ r.log = L /\ r.replies = s.replies
  BY <1>8, <1>12, ApartTransitive
<1>14. Untouched(s, r, c)
  BY <1>5, <1>9, <1>11, <1>12 DEF Untouched
<1>15. r.conn[c].ref_count = k.ref_count + n /\ r.conn[c].batch = rest
  BY <1>5, <1>9, <1>11, <1>12
<1> QED
  BY <1>13, <1>14, <1>15 DEF r, L, n, IsProposed

\* A flush keeps the references counted and the messages in order.
LEMMA Proposing ==
  ASSUME NEW s \in LoopState, HasLast(s.log), NEW c \in Conns, NEW A, Good(s, c, A),
         s.conn[c].handle # "none",
         NEW msgs, Later(s, c, A, msgs), NEW Q, NEW rest, Parts(msgs, Q, rest),
         NEW accepted \in SUBSET (1..Len(Q)), NEW r, IsProposed(s, r, c, Q, rest, accepted)
  PROVE  /\ Good(r, c, A)
         /\ Later(s, c, A, s.conn[c].buffer) /\ Below(msgs, s.conn[c].buffer) => InLine(r, c, A)
<1> DEFINE n == LastIndex(s.log)
           L == s.log
           M == r.log
           seen == s.conn[c].received \div 2
<1>1. /\ L \in Logs /\ s.conn[c] \in Conn /\ Q \in Seq(Seq(Message)) /\ rest \in Seq(Message)
      /\ n \in Nat
  BY Fields, LastOf DEF Parts
<1>2. IsExtension(M, L, c, Q, accepted)
  BY <1>1, Extending DEF IsProposed
<1>3. /\ r.conn[c].received = s.conn[c].received /\ r.conn[c].buffer = s.conn[c].buffer
      /\ r.conn[c].batch = rest
  BY DEF IsProposed, Untouched
<1>4. \A j \in accepted : j \in DOMAIN Q /\ j \in Nat
  <2>1. Len(Q) \in Nat /\ DOMAIN Q = 1..Len(Q)
    BY <1>1, LenProperties
  <2> QED
    BY <2>1
<1>5. \A j \in DOMAIN Q : Later(s, c, A, Q[j])
  <2> SUFFICES ASSUME NEW j \in DOMAIN Q PROVE Later(s, c, A, Q[j])
    OBVIOUS
  <2>1. Q[j] \in Seq(Message)
    <3>1. j \in 1..Len(Q)
      BY <1>1, LenProperties
    <3> QED
      BY <1>1, <3>1, ElementOfSeq
  <2>2. Increasing(Q[j]) /\ \A i \in DOMAIN Q[j] : \E m \in DOMAIN msgs : Q[j][i] = msgs[m]
    BY DEF Parts
  <2> QED
    BY <2>1, <2>2, PartLater
<1>6. Later(s, c, A, rest)
  BY <1>1, PartLater DEF Parts
\* An entry of c that may be applied is an old one or has one of the batches.
<1>7. ASSUME NEW i \in Pending(M, c)
      PROVE  \/ i \in Pending(L, c) /\ M[i].msgs = L[i].msgs /\ i <= n /\ i \in Nat
             \/ \E j \in accepted : i = n + j /\ M[i].msgs = Q[j]
  <2>1. CASE i \in Pending(L, c)
    <3>1. i \in DOMAIN L
      BY <2>1 DEF Pending
    <3>2. i \in Nat
      BY <1>1, <3>1, InLog
    <3> QED
      BY <2>1, <3>1, <3>2, <1>2 DEF IsExtension
  <2>2. CASE i \in {n + j : j \in accepted}
    BY <2>2, <1>2 DEF IsExtension
  <2> QED
    BY <1>2, <2>1, <2>2 DEF IsExtension
<1> HIDE DEF n, L, M, seen
<1>8. /\ Increasing(A[c]) /\ UpTo(A[c], seen)
      /\ \A i \in Pending(L, c) : /\ Increasing(L[i].msgs) /\ Below(A[c], L[i].msgs)
                                  /\ UpTo(L[i].msgs, seen)
      /\ \A i, j \in Pending(L, c) : i < j => Below(L[i].msgs, L[j].msgs)
  BY DEF Good, InOrder, L, seen
<1>9. \A q : Later(s, c, A, q) =>
        /\ q \in Seq(Message) /\ Increasing(q) /\ Below(A[c], q) /\ UpTo(q, seen)
        /\ \A i \in Pending(L, c) : Below(L[i].msgs, q)
  BY DEF Later, L, seen
<1>10. \A i \in Pending(M, c) : /\ Increasing(M[i].msgs) /\ Below(A[c], M[i].msgs)
                                /\ UpTo(M[i].msgs, seen)
  BY <1>4, <1>5, <1>7, <1>8, <1>9
<1>11. ASSUME NEW i \in Pending(M, c), NEW j \in Pending(M, c), i < j
       PROVE  Below(M[i].msgs, M[j].msgs)
  <2>1. CASE i \in Pending(L, c) /\ j \in Pending(L, c) /\ M[i].msgs = L[i].msgs /\ M[j].msgs = L[j].msgs
    BY <2>1, <1>8, <1>11
  <2>2. CASE i \in Pending(L, c) /\ M[i].msgs = L[i].msgs /\ \E l \in accepted : M[j].msgs = Q[l]
    BY <2>2, <1>4, <1>5, <1>9
  <2>3. CASE (\E l \in accepted : i = n + l) /\ j <= n /\ j \in Nat
    BY <2>3, <1>1, <1>4, <1>11
  <2>4. CASE /\ \E l \in accepted : i = n + l /\ M[i].msgs = Q[l]
             /\ \E l \in accepted : j = n + l /\ M[j].msgs = Q[l]
    <3>1. PICK l \in accepted, m \in accepted : /\ i = n + l /\ M[i].msgs = Q[l]
                                                /\ j = n + m /\ M[j].msgs = Q[m]
      BY <2>4
    <3>2. l < m /\ l \in DOMAIN Q /\ m \in DOMAIN Q
      BY <3>1, <1>1, <1>4, <1>11
    <3> QED
      BY <3>1, <3>2 DEF Parts
  <2> QED
    BY <1>7, <2>1, <2>2, <2>3, <2>4
<1>12. \A q : Later(s, c, A, q) /\ (\A j \in DOMAIN Q : Below(Q[j], q)) => Later(r, c, A, q)
  <2> SUFFICES ASSUME NEW q, Later(s, c, A, q), \A j \in DOMAIN Q : Below(Q[j], q)
               PROVE  Later(r, c, A, q)
    OBVIOUS
  <2>1. \A i \in Pending(M, c) : Below(M[i].msgs, q)
    BY <1>4, <1>7, <1>9
  <2> QED
    BY <1>3, <1>9, <2>1 DEF Later, M, seen
<1>13. InOrder(r, c, A)
  <2>1. Later(r, c, A, rest)
    BY <1>6, <1>12 DEF Parts
  <2> QED
    BY <1>3, <1>8, <1>10, <1>11, <2>1 DEF InOrder, M, seen
<1>14. RefsCounted(r, c)
  <2>1. s.conn[c].ref_count = One(s.conn[c].handle \in {"open", "closing"})
          + Cardinality(Awaited(L, c)) + s.conn[c].acks + One(s.conn[c].redirecting)
    BY DEF Good, RefsCounted, L
  <2>2. /\ r.conn[c].ref_count = s.conn[c].ref_count + Cardinality(accepted)
        /\ r.conn[c].acks = s.conn[c].acks /\ r.conn[c].redirecting = s.conn[c].redirecting
        /\ One(r.conn[c].handle \in {"open", "closing"})
           = One(s.conn[c].handle \in {"open", "closing"})
    BY DEF IsProposed, Untouched
  <2>3. Cardinality(Awaited(M, c)) = Cardinality(Awaited(L, c)) + Cardinality(accepted)
    BY <1>2 DEF IsExtension
  <2>4. /\ Cardinality(Awaited(L, c)) \in Nat /\ Cardinality(accepted) \in Nat
        /\ s.conn[c].acks \in Int
        /\ One(s.conn[c].handle \in {"open", "closing"}) \in Int
        /\ One(s.conn[c].redirecting) \in Int
    <3>1. IsFiniteSet(DOMAIN L) /\ Len(Q) \in Nat
      BY <1>1, LastOf, LenProperties DEF L
    <3>2. Awaited(L, c) \subseteq DOMAIN L
      BY DEF Awaited
    <3>3. IsFiniteSet(1..Len(Q))
      BY <3>1, FS_Interval
    <3>4. IsFiniteSet(Awaited(L, c)) /\ IsFiniteSet(accepted)
      BY <3>1, <3>2, <3>3, FS_Subset
    <3>5. Cardinality(Awaited(L, c)) \in Nat /\ Cardinality(accepted) \in Nat
      BY <3>4, FS_CardinalityType
    <3> QED
      BY <1>1, <3>5, ConnFields DEF One
  <2>5. One(r.conn[c].redirecting) = One(s.conn[c].redirecting)
    BY <2>2
  <2> QED
    BY <2>1, <2>2, <2>3, <2>4, <2>5 DEF RefsCounted, M
<1>15. Dated(r, c)
  BY DEF Good, Dated, IsProposed, Untouched
<1>16. Good(r, c, A)
  BY <1>13, <1>14, <1>15 DEF Good, IsProposed
<1>17. ASSUME Later(s, c, A, s.conn[c].buffer), Below(msgs, s.conn[c].buffer)
       PROVE  InLine(r, c, A)
  <2> DEFINE q == s.conn[c].buffer
  <2>1. \A j \in DOMAIN Q : Below(Q[j], q)
    BY <1>17 DEF Parts, Below
  <2>2. Below(rest, q)
    BY <1>17 DEF Parts, Below
  <2> QED
    BY <1>3, <1>12, <1>17, <2>1, <2>2 DEF InLine
<1> QED
  BY <1>16, <1>17

\* What a callback that sends no acknowledgement may do to c: redirect its peer,
\* once, after which nothing more is read.
Tells(s, r, c) ==
  /\ r.conn[c].received = s.conn[c].received
  /\ r.conn[c].handle = "none" <=> s.conn[c].handle = "none"
  /\ r.conn[c].handle = "open" =>
       s.conn[c].handle = "open" /\ (s.conn[c].redirecting => r.conn[c].redirecting)
  /\ \/ r.replies[c] = s.replies[c]
     \/ /\ r.replies[c] = Append(s.replies[c], "redirect")
        /\ s.conn[c].handle = "open" /\ ~s.conn[c].redirecting
        /\ r.conn[c].handle = "open" => r.conn[c].redirecting

\* Two such steps are one: the second does not redirect if the first did.
LEMMA TellsTransitive ==
  ASSUME NEW s, NEW r, NEW t, NEW c, Tells(s, r, c), Tells(r, t, c)
  PROVE  Tells(s, t, c)
BY DEF Tells

\* Process and its parts leave c's affairs settled.
Finished(s, r, c, A) ==
  Apart(s, r, c) /\ Settled(r, c, A) /\ r.conn[c].handle # "none" /\ Tells(s, r, c)

\* close_and_free_client leaves c settled at any point of a callback.
LEMMA Shutting ==
  ASSUME NEW s \in LoopState, HasLast(s.log), NEW c \in Conns, NEW A, Good(s, c, A),
         s.conn[c].handle # "none"
  PROVE  Finished(s, Close(s, c), c, A)
<1> DEFINE r == Close(s, c)
<1>1. Apart(s, r, c) /\ r.log = s.log /\ r.replies = s.replies /\ ClosedFields(s, r, c)
  BY Closing
<1> HIDE DEF r
<1>2. /\ r.conn[c].ref_count = s.conn[c].ref_count /\ r.conn[c].received = s.conn[c].received
      /\ r.conn[c].buffer = s.conn[c].buffer /\ r.conn[c].batch = s.conn[c].batch
      /\ r.conn[c].is_paused = s.conn[c].is_paused /\ r.conn[c].acks = s.conn[c].acks
      /\ r.conn[c].redirecting = s.conn[c].redirecting
      /\ ~r.conn[c].listed /\ r.conn[c].handle \notin {"open", "none"}
      /\ One(r.conn[c].handle \in {"open", "closing"}) = One(s.conn[c].handle \in {"open", "closing"})
  BY <1>1 DEF ClosedFields, Good, Dated
<1>3. SameMessages(s, r, c)
  BY <1>1, <1>2 DEF SameMessages, Fewer
<1>4. InOrder(r, c, A)
  BY <1>3, OrderKept DEF Good
<1>5. Dated(r, c) /\ RefsCounted(r, c) /\ Tidy(r, c)
  BY <1>1, <1>2 DEF Good, Dated, RefsCounted, Tidy
<1>6. Tells(s, r, c)
  BY <1>1, <1>2 DEF Tells
<1> QED
  BY <1>1, <1>2, <1>4, <1>5, <1>6 DEF Finished, Settled, Good, r

\* What a flush leaves.
Flushed(s, r, c, A) ==
  /\ Apart(s, r, c) /\ Good(r, c, A) /\ Untouched(s, r, c) /\ r.conn[c].batch = <<>>
  /\ InLine(s, c, A) => InLine(r, c, A)
  /\ r.conn[c].handle # "none" /\ Tells(s, r, c)

\* batch_buffer_flush empties the batch and keeps the accounts of c.
LEMMA Flushing ==
  ASSUME NEW s \in LoopState, HasLast(s.log), NEW c \in Conns, NEW A, Good(s, c, A),
         s.conn[c].handle # "none", NEW r \in Flush(s, c)
  PROVE  Flushed(s, r, c, A)
<1> DEFINE q == s.conn[c].batch
<1>1. CASE q = <<>>
  <2>1. r = s
    BY <1>1 DEF Flush
  <2>2. Apart(s, s, c)
    BY DEF Apart, Fewer
  <2>3. Untouched(s, s, c)
    BY DEF Untouched, Good, Dated
  <2>4. Tells(s, s, c)
    BY DEF Tells
  <2> QED
    BY <1>1, <2>1, <2>2, <2>3, <2>4 DEF Flushed
<1>2. CASE q # <<>>
  <2>1. PICK accepted \in RaftResults(c, 1) : r = Proposed(s, c, <<q>>, <<>>, accepted)
    BY <1>2 DEF Flush, Proposed
  <2>2. Later(s, c, A, q) /\ q \in Seq(Message) /\ Increasing(q)
    BY DEF Good, InOrder, Later
  <2>3. Parts(q, <<q>>, <<>>)
    BY <2>2, Whole
  <2>4. /\ <<q>> \in Seq(Seq(Message)) /\ <<>> \in Seq(Message) /\ Len(<<q>>) = 1
    BY <2>2
  <2>5. accepted \in SUBSET (1..Len(<<q>>))
    BY <2>1, <2>4 DEF RaftResults
  <2>6. Dated(s, c)
    BY DEF Good
  <2> HIDE DEF q
  <2>7. IsProposed(s, r, c, <<q>>, <<>>, accepted)
    BY <2>1, <2>4, <2>5, <2>6, ProposedFields
  <2>8. /\ Good(r, c, A)
        /\ Later(s, c, A, s.conn[c].buffer) /\ Below(q, s.conn[c].buffer) => InLine(r, c, A)
    BY <2>2, <2>3, <2>5, <2>7, Proposing
  <2>9. r.conn[c].handle # "none" /\ Tells(s, r, c)
    BY <2>7 DEF IsProposed, Untouched, Tells
  <2> QED
    BY <2>7, <2>8, <2>9 DEF IsProposed, Flushed, InLine, q
<1> QED
  BY <1>1, <1>2

\* The messages before the first rejected one are the first of the buffer.
LEMMA AcceptablePrefix ==
  ASSUME NEW q \in Seq(Message)
  PROVE  IsSlice(Acceptable(q), q, 1, Len(Acceptable(q)))
<1> DEFINE S == {Len(q)} \cup {i - 1 : i \in {j \in DOMAIN q : q[j] \in Rejected}}
           m == Min(S)
<1>1. Len(q) \in Nat /\ DOMAIN q = 1..Len(q)
  BY LenProperties
<1>2. S \subseteq 0..Len(q) /\ S # {}
  BY <1>1
<1>3. m \in 0..Len(q)
  <2> DEFINE R == OpToRel(<, Nat)
  <2>1. S \subseteq Nat
    BY <1>1, <1>2
  <2> HIDE DEF S
  <2>2. \E x \in S : \A y \in S : ~(<<y, x>> \in R)
    BY <1>2, <2>1, NatLessThanWellFounded, WFMin
  <2>3. PICK x \in S : \A y \in S : ~(<<y, x>> \in R)
    BY <2>2
  <2>4. \A y \in S : ~(y < x)
    BY <2>1, <2>3, Zenon DEF OpToRel
  <2>5. \A y \in S : x =< y
    BY <2>1, <2>4
  <2>6. Min(S) \in S
    BY <2>5 DEF Min
  <2> QED
    BY <1>2, <2>6
<1>4. Acceptable(q) = SubSeq(q, 1, m)
  BY DEF Acceptable
<1> HIDE DEF m
<1>5. IsSlice(SubSeq(q, 1, m), q, 1, m)
  <2>1. 1 \in Nat \ {0} /\ m \in Nat /\ m <= Len(q)
    BY <1>1, <1>3
  <2> QED
    BY <2>1, Slice, Zenon
<1>6. Len(Acceptable(q)) = m
  BY <1>3, <1>4, <1>5 DEF IsSlice
<1> QED
  BY <1>4, <1>5, <1>6

\* The buffer is emptied.
LEMMA Emptying ==
  ASSUME NEW s \in LoopState, HasLast(s.log), NEW c \in Conns, NEW A, Good(s, c, A),
         s.conn[c].handle # "none",
         s.conn[c].handle = "open" /\ s.conn[c].batch # <<>> => Partial(s, c)
  PROVE  Finished(s, [s EXCEPT !.conn[c].buffer = <<>>], c, A)
<1> DEFINE k == s.conn[c]
           v == [k EXCEPT !.buffer = <<>>]
           r == [s EXCEPT !.conn[c].buffer = <<>>]
<1>1. s.conn \in [Conns -> Conn] /\ k \in Conn /\ <<>> \in Seq(Message)
  BY Fields
<1>2. /\ v \in Conn /\ v.buffer = <<>> /\ v.batch = k.batch
      /\ v.ref_count = k.ref_count /\ v.handle = k.handle /\ v.node = k.node
      /\ v.listed = k.listed /\ v.received = k.received /\ v.is_paused = k.is_paused
      /\ v.redirecting = k.redirecting /\ v.acks = k.acks
  BY <1>1 DEF Conn
<1>3. r = Set(s, c, v)
  BY <1>1 DEF Set
<1> HIDE DEF v, r
<1>4. Apart(s, r, c) /\ r.conn[c] = v /\ r.log = s.log /\ r.replies = s.replies
  BY <1>2, <1>3, Setting DEF IsSet
<1>5. SameMessages(s, r, c)
  BY <1>2, <1>4 DEF SameMessages, Fewer
<1>6. InOrder(r, c, A)
  BY <1>5, OrderKept DEF Good
<1>7. InLine(r, c, A)
  <2>1. <<>> \in Seq(Message) /\ DOMAIN <<>> = {}
    OBVIOUS
  <2> QED
    BY <1>2, <1>4, <2>1 DEF InLine, Later, Increasing, Below, UpTo
<1>8. Dated(r, c) /\ RefsCounted(r, c) /\ Tidy(r, c)
  BY <1>2, <1>4 DEF Good, Dated, RefsCounted, Tidy, Partial
<1>9. Tells(s, r, c)
  BY <1>2, <1>4 DEF Tells
<1> QED
  BY <1>2, <1>4, <1>6, <1>7, <1>8, <1>9 DEF Finished, Settled, Good, r

\* The batches of Take, and what it leaves in the batch.
LEMMA Taking ==
  ASSUME NEW s \in LoopState, HasLast(s.log), NEW c \in Conns, NEW A, Good(s, c, A),
         InLine(s, c, A), s.conn[c].handle # "none", NEW t \in Take(s, c)
  PROVE  Finished(s, t, c, A)
<1> DEFINE q == s.conn[c].buffer
           good == Acceptable(q)
           broken == good # q
           msgs == s.conn[c].batch \o good
           flushed == ~broken /\ ~Partial(s, c) /\ Remainder(msgs) # <<>>
           Q == IF flushed THEN Append(Chunks(msgs), Remainder(msgs)) ELSE Chunks(msgs)
           last == IF flushed THEN <<>> ELSE Remainder(msgs)
<1>0. PICK accepted \in RaftResults(c, Len(Q)) :
        LET r == Proposed(s, c, Q, last, accepted)
        IN  t = IF broken THEN Close(r, c) ELSE [r EXCEPT !.conn[c].buffer = <<>>]
  BY DEF Take, Chunks, Remainder, Proposed
<1> DEFINE r == Proposed(s, c, Q, last, accepted)
<1>1. /\ accepted \in RaftResults(c, Len(Q))
      /\ r = Proposed(s, c, Q, last, accepted)
      /\ t = IF broken THEN Close(r, c) ELSE [r EXCEPT !.conn[c].buffer = <<>>]
  BY <1>0
<1> HIDE DEF r
<1>2. q \in Seq(Message) /\ Later(s, c, A, q) /\ Below(s.conn[c].batch, q)
  BY DEF InLine, Later
<1>3. IsSlice(good, q, 1, Len(good))
  BY <1>2, AcceptablePrefix
<1>4. Later(s, c, A, good) /\ good \in Seq(Message) /\ Increasing(good)
  <2>1. good \in Seq(Message) /\ Increasing(good) /\ \A i \in DOMAIN good : \E m \in DOMAIN q : good[i] = q[m]
    BY <1>2, <1>3 DEF IsSlice, Later
  <2> QED
    BY <1>2, <2>1, PartLater
<1>5. Below(s.conn[c].batch, good)
  BY <1>2, <1>3 DEF IsSlice, Below
<1>6. Later(s, c, A, s.conn[c].batch) /\ s.conn[c].batch \in Seq(Message)
      /\ Increasing(s.conn[c].batch)
  BY DEF Good, InOrder, Later
<1> HIDE DEF good, q
<1>7. Later(s, c, A, msgs) /\ msgs \in Seq(Message) /\ Increasing(msgs)
  <2>1. msgs \in Seq(Message) /\ Increasing(msgs)
    BY <1>4, <1>5, <1>6, ConcatInOrder
  <2>2. \A x : Below(x, s.conn[c].batch) /\ Below(x, good) => Below(x, msgs)
    BY <1>4, <1>6, ConcatInOrder
  <2>3. \A n : UpTo(s.conn[c].batch, n) /\ UpTo(good, n) => UpTo(msgs, n)
    BY <1>4, <1>6, ConcatInOrder
  <2> HIDE DEF msgs
  <2> QED
    BY <1>4, <1>6, <2>1, <2>2, <2>3 DEF Later
<1> HIDE DEF msgs
<1>8. Parts(msgs, Q, last)
  BY <1>7, Cutting, CuttingAll
<1> HIDE DEF Q, last, flushed, broken
<1>9. Q \in Seq(Seq(Message)) /\ last \in Seq(Message)
  BY <1>8 DEF Parts
<1>10. accepted \in SUBSET (1..Len(Q)) /\ Dated(s, c)
  BY <1>1 DEF RaftResults, Good
<1>11. IsProposed(s, r, c, Q, last, accepted)
  BY <1>1, <1>9, <1>10, ProposedFields
<1>12. Good(r, c, A)
  BY <1>7, <1>8, <1>10, <1>11, Proposing
<1>13. Apart(s, r, c) /\ r \in LoopState /\ HasLast(r.log) /\ r.conn[c].handle # "none"
  BY <1>11 DEF IsProposed, Untouched, Apart
<1>14. Finished(r, t, c, A)
  <2>1. CASE broken
    BY <1>1, <1>12, <1>13, <2>1, Shutting
  <2>2. CASE ~broken
    <3>1. last # <<>> => Partial(s, c)
      BY <2>2 DEF last, flushed
    <3>2. r.conn[c].batch # <<>> => Partial(r, c)
      BY <3>1, <1>11 DEF IsProposed, Untouched, Partial
    <3> QED
      BY <1>1, <1>12, <1>13, <2>2, <3>2, Emptying
  <2> QED
    BY <2>1, <2>2
<1>15. Tells(s, r, c)
  BY <1>11 DEF IsProposed, Untouched, Tells
<1> QED
  BY <1>13, <1>14, <1>15, ApartTransitive, TellsTransitive DEF Finished

\* A redirection is not an acknowledgement.
LEMMA AcksBesideRedirect ==
  ASSUME NEW q \in Replies
  PROVE  /\ Append(q, "redirect") \in Replies
         /\ AckCount(Append(q, "redirect")) = AckCount(q) /\ AckCount(q) \in Nat
<1> DEFINE r == Append(q, "redirect")
           S == {i \in DOMAIN q : q[i] = "ack"}
<1>1. /\ Len(q) \in Nat /\ DOMAIN q = 1..Len(q) /\ r \in Replies
      /\ DOMAIN r = 1..(Len(q) + 1) /\ r[Len(q) + 1] = "redirect"
      /\ \A i \in 1..Len(q) : r[i] = q[i]
  BY LenProperties, AppendProperties DEF Replies
<1> HIDE DEF r
<1>2. {i \in DOMAIN r : r[i] = "ack"} = S
  BY <1>1
<1>3. IsFiniteSet(S) /\ Cardinality(S) \in Nat
  <2>1. IsFiniteSet(1..Len(q)) /\ S \subseteq 1..Len(q)
    BY <1>1, FS_Interval
  <2> HIDE DEF S
  <2> QED
    BY <2>1, FS_Subset, FS_CardinalityType
<1>4. AckCount(r) = Cardinality(S)
  BY <1>2 DEF AckCount
<1> QED
  BY <1>1, <1>3, <1>4 DEF AckCount, r

\* n bytes acknowledge n messages.
LEMMA AcksAdded ==
  ASSUME NEW q \in Replies, NEW n \in Nat
  PROVE  LET r == q \o [i \in 1..n |-> "ack"]
         IN  r \in Replies /\ AckCount(r) = AckCount(q) + n
<1> DEFINE a == [i \in 1..n |-> "ack"]
           r == q \o a
           S == {i \in DOMAIN q : q[i] = "ack"}
           T == {Len(q) + j : j \in 1..n}
<1>1. a \in Replies /\ Len(a) = n /\ \A j \in 1..n : a[j] = "ack"
  <2>1. a \in Replies
    BY IsASeq DEF Replies
  <2>2. DOMAIN a = 1..n
    OBVIOUS
  <2>3. Len(a) = n
    BY <2>1, <2>2, LenProperties DEF Replies
  <2> QED
    BY <2>1, <2>3
<1> HIDE DEF a
<1>2. /\ Len(q) \in Nat /\ DOMAIN q = 1..Len(q) /\ r \in Replies
      /\ Len(r) = Len(q) + n
      /\ \A i \in 1..(Len(q) + n) : r[i] = IF i <= Len(q) THEN q[i] ELSE a[i - Len(q)]
  BY <1>1, LenProperties, ConcatProperties, ZenonT(30) DEF Replies
<1>3. DOMAIN r = 1..(Len(q) + n)
  BY <1>2, LenProperties DEF Replies
<1> HIDE DEF r
<1>4. {i \in DOMAIN r : r[i] = "ack"} = S \cup T
  <2>1. \A i \in S \cup T : i \in DOMAIN r /\ r[i] = "ack"
    BY <1>1, <1>2, <1>3
  <2>2. ASSUME NEW i \in DOMAIN r, r[i] = "ack"
        PROVE  i \in S \cup T
    <3>1. CASE i <= Len(q)
      BY <1>2, <1>3, <2>2, <3>1
    <3>2. CASE i > Len(q)
      <4>1. i - Len(q) \in 1..n /\ i = Len(q) + (i - Len(q))
        BY <1>2, <1>3, <3>2
      <4> QED
        BY <4>1
    <3> QED
      BY <1>2, <1>3, <3>1, <3>2
  <2> QED
    BY <2>1, <2>2
<1>5. S \cap T = {}
  BY <1>2
<1>6. IsFiniteSet(S) /\ Cardinality(S) \in Nat
  <2>1. IsFiniteSet(1..Len(q)) /\ S \subseteq 1..Len(q)
    BY <1>2, FS_Interval
  <2> HIDE DEF S
  <2> QED
    BY <2>1, FS_Subset, FS_CardinalityType
<1>7. IsFiniteSet(T) /\ Cardinality(T) = n
  <2>1. IsFiniteSet(1..n) /\ Cardinality(1..n) = n /\ 1..n \in SUBSET Nat
    BY FS_Interval
  <2>2. IsFiniteSet(T) /\ Cardinality(T) = Cardinality(1..n)
    BY <1>2, <2>1, Shifted
  <2> QED
    BY <2>1, <2>2
<1> HIDE DEF S, T
<1>8. Cardinality(S \cup T) = Cardinality(S) + Cardinality(T) - Cardinality({})
  BY <1>5, <1>6, <1>7, FS_Union
<1>9. Cardinality({}) = 0
  BY FS_EmptySet
<1>10. AckCount(r) = Cardinality(S \cup T) /\ AckCount(q) = Cardinality(S)
  BY <1>4 DEF AckCount, S
<1> QED
  BY <1>2, <1>6, <1>7, <1>8, <1>9, <1>10 DEF a, r

\* A batch waits only behind what the buffer holds or the end of a message.
Behind(s, c) ==
  s.conn[c].handle = "open" /\ s.conn[c].batch # <<>>
    => s.conn[c].buffer # <<>> \/ Partial(s, c)

\* redirect_to_leader_and_close leaves c settled.
LEMMA Redirecting ==
  ASSUME NEW s \in LoopState, HasLast(s.log), NEW c \in Conns, NEW A, Good(s, c, A),
         s.conn[c].listed => InLine(s, c, A), s.conn[c].handle # "none", Behind(s, c),
         ~s.conn[c].is_paused, ~s.conn[c].redirecting, NEW r \in Redirect(s, c)
  PROVE  Finished(s, r, c, A)
<1> DEFINE k == s.conn[c]
           v == [k EXCEPT !.ref_count = @ + 1, !.redirecting = TRUE]
           q == Append(s.replies[c], "redirect")
           p == [ClientRetain(s, c) EXCEPT !.conn[c].redirecting = TRUE,
                                           !.replies[c] = Append(@, "redirect")]
<1>1. /\ s.conn \in [Conns -> Conn] /\ s.log \in Logs /\ s.replies \in [Conns -> Replies]
      /\ k \in Conn /\ s = [conn |-> s.conn, log |-> s.log, replies |-> s.replies]
      /\ s.replies[c] \in Replies
  BY Fields
<1>2. (r = p /\ k.handle = "open") \/ r = Close(s, c)
  BY DEF Redirect, WriteResults
<1>3. q \in Replies /\ AckCount(q) = AckCount(s.replies[c])
  BY <1>1, AcksBesideRedirect
<1>4. /\ v \in Conn /\ v.ref_count = k.ref_count + 1 /\ v.redirecting = TRUE
      /\ v.handle = k.handle /\ v.node = k.node /\ v.listed = k.listed
      /\ v.received = k.received /\ v.buffer = k.buffer /\ v.batch = k.batch
      /\ v.is_paused = k.is_paused /\ v.acks = k.acks
  <2> DEFINE u == [k EXCEPT !.ref_count = @ + 1]
  <2>1. k.ref_count + 1 \in Int
    BY <1>1, ConnFields
  <2>2. /\ u \in Conn /\ u.ref_count = k.ref_count + 1
        /\ u.handle = k.handle /\ u.node = k.node /\ u.listed = k.listed
        /\ u.received = k.received /\ u.buffer = k.buffer /\ u.batch = k.batch
        /\ u.is_paused = k.is_paused /\ u.acks = k.acks
    BY <1>1, <2>1 DEF Conn
  <2>3. v = [u EXCEPT !.redirecting = TRUE]
    BY <1>1 DEF Conn
  <2> HIDE DEF u, v
  <2> QED
    BY <2>2, <2>3 DEF Conn
<1>5. p = Put(s, c, v, s.log, q)
  <2> DEFINE w == ClientRetain(s, c)
             u == [k EXCEPT !.ref_count = @ + 1]
  <2>1. w = [conn |-> [s.conn EXCEPT ![c] = u], log |-> s.log, replies |-> s.replies]
    <3>1. w = [s EXCEPT !.conn = [s.conn EXCEPT ![c] = u]]
      BY <1>1 DEF ClientRetain
    <3> HIDE DEF w, u
    <3> QED
      BY <1>1, <3>1
  <2> HIDE DEF w, q
  <2>2. w.conn = [s.conn EXCEPT ![c] = u] /\ w.replies = s.replies /\ w.conn[c] = u
        /\ w.conn \in [Conns -> {w.conn[d] : d \in Conns}]
    BY <1>1, <2>1
  <2>3. v = [u EXCEPT !.redirecting = TRUE]
    BY <1>1 DEF Conn
  <2> HIDE DEF u, v
  <2>4. p = [w EXCEPT !.conn = [w.conn EXCEPT ![c] = v], !.replies = [w.replies EXCEPT ![c] = q]]
    BY <1>1, <2>2, <2>3 DEF w, q
  <2>5. p = [conn |-> [w.conn EXCEPT ![c] = v], log |-> s.log,
             replies |-> [s.replies EXCEPT ![c] = q]]
    <3> DEFINE x == [w.conn EXCEPT ![c] = v]
               y == [w.replies EXCEPT ![c] = q]
               a == [s.conn EXCEPT ![c] = u]
    <3>1. p = [w EXCEPT !.conn = x, !.replies = y]
      BY <2>4
    <3>2. y = [s.replies EXCEPT ![c] = q]
      BY <2>2
    <3>3. w = [conn |-> a, log |-> s.log, replies |-> s.replies]
      BY <2>1
    <3> HIDE DEF p, x, y, a
    <3>4. p = [conn |-> x, log |-> s.log, replies |-> y]
      BY <3>1, <3>3
    <3> QED
      BY <3>2, <3>4 DEF x
  <2>6. [w.conn EXCEPT ![c] = v] = [s.conn EXCEPT ![c] = v]
    BY <1>1, <2>2
  <2> QED
    BY <2>5, <2>6 DEF Put
<1> HIDE DEF p, q, v
<1>6. IsPut(s, Put(s, c, v, s.log, q), c, v, s.log, q)
  <2>1. Others(s.log, s.log, c)
    BY SameOthers
  <2> QED
    BY <1>1, <1>3, <1>4, <2>1, Putting
<1>7. Apart(s, p, c) /\ p.conn[c] = v /\ p.log = s.log /\ p.replies[c] = q
  BY <1>5, <1>6 DEF IsPut
<1>8. CASE r = p /\ k.handle = "open"
  <2>1. SameMessages(s, p, c)
    BY <1>4, <1>7 DEF SameMessages, Fewer
  <2>2. InOrder(p, c, A) /\ (p.conn[c].listed => InLine(p, c, A))
    BY <1>4, <1>7, <2>1, OrderKept DEF Good
  <2>3. RefsCounted(p, c)
    <3>1. k.ref_count = One(k.handle \in {"open", "closing"}) + Cardinality(Awaited(s.log, c))
                        + k.acks + One(k.redirecting)
      BY DEF Good, RefsCounted
    <3>2. One(k.redirecting) = 0 /\ One(v.redirecting) = 1
      BY <1>4 DEF One
    <3>3. One(k.handle \in {"open", "closing"}) \in Int /\ k.acks \in Int /\ k.ref_count \in Int
      BY <1>1, ConnFields DEF One
    <3>4. Cardinality(Awaited(s.log, c)) \in Int
      BY <1>1, AwaitedFinite
    <3> QED
      BY <1>4, <1>7, <3>1, <3>2, <3>3, <3>4 DEF RefsCounted
  <2>4. Dated(p, c) /\ Tidy(p, c)
    BY <1>4, <1>7, <1>8 DEF Good, Dated, Tidy, Behind, Partial
  <2>5. Tells(s, p, c)
    BY <1>4, <1>7, <1>8 DEF Tells, q
  <2> QED
    BY <1>3, <1>4, <1>7, <1>8, <2>2, <2>3, <2>4, <2>5 DEF Finished, Settled, Good
<1>9. CASE r = Close(s, c)
  BY <1>9, Shutting
<1> QED
  BY <1>2, <1>8, <1>9

\* What pausing or resuming c does.
Switched(s, r, c, A, b) ==
  /\ Apart(s, r, c) /\ Good(r, c, A) /\ (InLine(s, c, A) => InLine(r, c, A))
  /\ r.conn[c].is_paused = b /\ r.conn[c].redirecting = s.conn[c].redirecting
  /\ r.conn[c].handle = s.conn[c].handle /\ r.conn[c].batch = s.conn[c].batch
  /\ r.conn[c].buffer = s.conn[c].buffer /\ r.conn[c].received = s.conn[c].received
  /\ r.replies = s.replies /\ Tells(s, r, c)

\* is_paused can be set while c is not redirected, and reset.
LEMMA Switching ==
  ASSUME NEW s \in LoopState, HasLast(s.log), NEW c \in Conns, NEW A, Good(s, c, A),
         s.conn[c].handle # "none", NEW b \in BOOLEAN, b => ~s.conn[c].redirecting
  PROVE  Switched(s, [s EXCEPT !.conn[c].is_paused = b], c, A, b)
<1> DEFINE k == s.conn[c]
           v == [k EXCEPT !.is_paused = b]
           r == [s EXCEPT !.conn[c].is_paused = b]
<1>1. s.conn \in [Conns -> Conn] /\ k \in Conn
  BY Fields
<1>2. /\ v \in Conn /\ v.is_paused = b /\ v.batch = k.batch /\ v.buffer = k.buffer
      /\ v.ref_count = k.ref_count /\ v.handle = k.handle /\ v.node = k.node
      /\ v.listed = k.listed /\ v.received = k.received
      /\ v.redirecting = k.redirecting /\ v.acks = k.acks
  BY <1>1 DEF Conn
<1>3. r = Set(s, c, v)
  BY <1>1 DEF Set
<1> HIDE DEF v, r
<1>4. Apart(s, r, c) /\ r.conn[c] = v /\ r.log = s.log /\ r.replies = s.replies
  BY <1>2, <1>3, Setting DEF IsSet
<1>5. SameMessages(s, r, c)
  BY <1>2, <1>4 DEF SameMessages, Fewer
<1>6. InOrder(r, c, A) /\ (InLine(s, c, A) => InLine(r, c, A))
  BY <1>2, <1>4, <1>5, OrderKept DEF Good
<1>7. Dated(r, c) /\ RefsCounted(r, c)
  BY <1>2, <1>4 DEF Good, Dated, RefsCounted
<1>8. Tells(s, r, c)
  BY <1>2, <1>4 DEF Tells
<1> QED
  BY <1>2, <1>4, <1>6, <1>7, <1>8 DEF Switched, Good, r

\* process_insert_buffer leaves c settled.
LEMMA Processing ==
  ASSUME NEW s \in LoopState, HasLast(s.log), NEW c \in Conns, NEW A, Good(s, c, A),
         InLine(s, c, A), s.conn[c].handle # "none", Behind(s, c),
         ~s.conn[c].is_paused, ~s.conn[c].redirecting, NEW r \in Process(s, c)
  PROVE  Finished(s, r, c, A)
<1>1. CASE r = [s EXCEPT !.conn[c].is_paused = TRUE]
  <2> DEFINE p == [s EXCEPT !.conn[c].is_paused = TRUE]
  <2>1. Switched(s, p, c, A, TRUE)
    BY Switching
  <2> HIDE DEF p
  <2>2. Tidy(p, c)
    BY <2>1 DEF Switched, Behind, Tidy, Partial
  <2> QED
    BY <1>1, <2>1, <2>2 DEF Switched, Finished, Settled, p
<1>2. CASE r \in Redirect(s, c)
  BY <1>2, Redirecting
<1>3. CASE r \in Take(s, c)
  BY <1>3, Taking
<1> QED
  BY <1>1, <1>2, <1>3 DEF Process

---------------------------------------------------------------------------
(* The steps of a connection.                                              *)

\* A callback of c that leaves c settled keeps the invariant.
LEMMA Committing ==
  ASSUME InsertInv, NEW c \in Conns, NEW t, Apart(Loop, t, c), Settled(t, c, applied), Commit(t),
         UNCHANGED <<server, immutable_count, raftVars, applied>>
  PROVE  InsertInv'
<1>1. Loop' = t
  <2>1. t = [conn |-> t.conn, log |-> t.log, replies |-> t.replies]
    BY Fields DEF Apart
  <2> QED
    BY <2>1 DEF Commit, Loop
<1>2. t \in LoopState /\ HasLast(t.log) /\ t.log = log'
  BY DEF Apart, Commit
<1>3. \A d \in Conns : Settled(t, d, applied)
  <2> SUFFICES ASSUME NEW d \in Conns \ {c} PROVE Settled(t, d, applied)
    OBVIOUS
  <2>1. Settled(Loop, d, applied)
    BY DEF InsertInv
  <2> QED
    BY <2>1, OthersSettled
<1>4. \A d \in Conns : Settled(Loop', d, applied')
  BY <1>1, <1>3
<1>5. Sheltered'
  BY DEF InsertInv, Sheltered
<1> QED
  BY <1>1, <1>2, <1>4, <1>5 DEF InsertInv, raftVars

\* A step after which no peer has been sent an acknowledgement.
Talks == \A d \in Conns : Tells(Loop, Loop', d)

\* The callback of c is the only one that sends something.
LEMMA Talking ==
  ASSUME NEW c \in Conns, NEW t, Apart(Loop, t, c), Commit(t)
  PROVE  /\ Loop' = t /\ \A d \in Conns \ {c} : Tells(Loop, Loop', d)
         /\ Tells(Loop, t, c) => Talks
<1>1. Loop' = t
  <2>1. t = [conn |-> t.conn, log |-> t.log, replies |-> t.replies]
    BY Fields DEF Apart
  <2> QED
    BY <2>1 DEF Commit, Loop
<1>2. \A d \in Conns \ {c} : Tells(Loop, t, d)
  BY DEF Apart, Tells
<1> QED
  BY <1>1, <1>2 DEF Talks

\* What the invariant says of a connection.
LEMMA AtRest ==
  ASSUME InsertInv, NEW c \in Conns
  PROVE  /\ Loop \in LoopState /\ HasLast(Loop.log) /\ Settled(Loop, c, applied)
         /\ Good(Loop, c, applied) /\ (conn[c].listed => InLine(Loop, c, applied))
         /\ Tidy(Loop, c) /\ Dated(Loop, c) /\ RefsCounted(Loop, c) /\ InOrder(Loop, c, applied)
         /\ Loop.conn = conn /\ Loop.log = log /\ Loop.replies = replies
         /\ conn \in [Conns -> Conn] /\ conn[c] \in Conn /\ log \in Logs /\ HasLast(log)
         /\ replies \in [Conns -> Replies]
         /\ applied \in [Conns -> Seq(Message)]
<1>1. Loop.conn = conn /\ Loop.log = log /\ Loop.replies = replies
  BY DEF Loop
<1>2. Loop \in LoopState /\ HasLast(log) /\ Settled(Loop, c, applied)
      /\ applied \in [Conns -> Seq(Message)]
  BY DEF InsertInv
<1>3. conn \in [Conns -> Conn] /\ log \in Logs /\ replies \in [Conns -> Replies]
  BY <1>1, <1>2, Fields
<1> QED
  BY <1>1, <1>2, <1>3 DEF Settled, Good

\* on_client_read, without memory.
LEMMA ClientDroppedKeeps ==
  ASSUME InsertInv, NEW c \in Conns, OnClientDropped(c)
  PROVE  InsertInv'
<1>1. Finished(Loop, Close(Loop, c), c, applied)
  BY AtRest, Shutting DEF OnClientDropped, Reading
<1> QED
  BY <1>1, Committing DEF Finished, OnClientDropped

Received(c, n) ==
  [Loop EXCEPT !.conn[c].received = @ + n, !.conn[c].buffer = @ \o Completed(c, n)]

\* What the buffer of c holds can be processed.
Ready(s, c, A) ==
  /\ Good(s, c, A) /\ InLine(s, c, A) /\ Behind(s, c)
  /\ s.conn[c].handle = "open" /\ ~s.conn[c].is_paused /\ ~s.conn[c].redirecting

\* The messages that arrive are new.
LEMMA Receiving ==
  ASSUME InsertInv, NEW c \in Conns, Reading(c), NEW n \in 1..(2 * MaxMessages),
         conn[c].received + n <= 2 * MaxMessages
  PROVE  Apart(Loop, Received(c, n), c) /\ Ready(Received(c, n), c, applied)
<1> DEFINE s == Received(c, n)
           k == conn[c]
           q == Completed(c, n)
           v == [k EXCEPT !.received = @ + n, !.buffer = @ \o q]
           old == k.received \div 2
           new == (k.received + n) \div 2
<1>1. /\ Loop \in LoopState /\ HasLast(Loop.log) /\ Loop.conn = conn /\ Loop.log = log
      /\ Loop.replies = replies /\ k \in Conn /\ conn \in [Conns -> Conn]
      /\ Good(Loop, c, applied) /\ Tidy(Loop, c) /\ InLine(Loop, c, applied)
      /\ k.handle = "open" /\ ~k.is_paused /\ ~k.redirecting
  BY AtRest DEF Reading
<1>2. k.buffer = <<>> /\ (k.batch # <<>> => k.received % 2 = 1)
  BY <1>1 DEF Tidy, Partial
<1>3. /\ k.received \in Nat /\ n \in Nat /\ n > 0 /\ MaxMessages \in Nat
      /\ old \in Nat /\ new \in Nat /\ old <= new /\ new <= MaxMessages
      /\ (k.received % 2 = 1 => (k.received + n) % 2 = 1 \/ old < new)
  BY <1>1, Messages, ConnFields
<1>4. /\ q \in Seq(Message) /\ DOMAIN q = 1..(new - old) /\ \A i \in DOMAIN q : q[i] = old + i
  <2>1. q = [i \in 1..(new - old) |-> old + i]
    BY DEF Completed
  <2>2. new - old \in Nat /\ \A i \in 1..(new - old) : old + i \in Message
    BY <1>3 DEF Message
  <2> HIDE DEF q, old, new
  <2> QED
    BY <2>1, <2>2, IsASeq
<1>5. k.buffer \o q = q
  <2> HIDE DEF q
  <2> QED
    BY <1>2, <1>4, ConcatEmptySeq
<1> HIDE DEF q
<1>6. /\ v \in Conn /\ v.received = k.received + n /\ v.buffer = q
      /\ v.is_paused = k.is_paused /\ v.batch = k.batch
      /\ v.ref_count = k.ref_count /\ v.handle = k.handle /\ v.node = k.node
      /\ v.listed = k.listed /\ v.redirecting = k.redirecting /\ v.acks = k.acks
  <2> DEFINE u == [k EXCEPT !.received = @ + n]
  <2>1. /\ u \in Conn /\ u.received = k.received + n /\ u.buffer = k.buffer
        /\ u.is_paused = k.is_paused /\ u.batch = k.batch
        /\ u.ref_count = k.ref_count /\ u.handle = k.handle /\ u.node = k.node
        /\ u.listed = k.listed /\ u.redirecting = k.redirecting /\ u.acks = k.acks
    <3>1. k.received + n \in Nat
      BY <1>3
    <3> QED
      BY <1>1, <3>1 DEF Conn
  <2>2. v = [u EXCEPT !.buffer = q]
    BY <1>1, <1>5 DEF Conn
  <2> HIDE DEF u, v
  <2> QED
    BY <2>1, <2>2, <1>4 DEF Conn
<1>7. s = Set(Loop, c, v)
  <2>1. s = [Loop EXCEPT !.conn = [conn EXCEPT ![c] = v]]
    BY <1>1 DEF q, Received
  <2> QED
    BY <1>1, <2>1 DEF Set
<1> HIDE DEF v, s
<1>8. Apart(Loop, s, c) /\ s.conn[c] = v /\ s.log = log /\ s.replies = replies
  BY <1>1, <1>6, <1>7, Setting, ZenonT(30) DEF IsSet
<1>9. ASSUME NEW x \in Seq(Message), UpTo(x, old)
      PROVE  UpTo(x, new) /\ Below(x, q)
  <2>1. \A i \in DOMAIN x : x[i] \in Int
    BY LenProperties, ElementOfSeq, Messages
  <2> HIDE DEF old, new
  <2> QED
    BY <1>3, <1>4, <1>9, <2>1, SMTT(30) DEF UpTo, Below
<1> HIDE DEF old, new
<1>10. s.conn[c].received \div 2 = new /\ Loop.conn[c].received \div 2 = old
  BY <1>1, <1>6, <1>8 DEF old, new
<1>11. \A x : Later(Loop, c, applied, x) => Later(s, c, applied, x) /\ Below(x, q)
  BY <1>1, <1>8, <1>9, <1>10 DEF Later
<1>12. applied[c] \in Seq(Message) /\ \A i \in Pending(log, c) : log[i].msgs \in Seq(Message)
  BY AtRest, InLog DEF Pending
<1>13. InOrder(s, c, applied)
  <2>1. Later(s, c, applied, s.conn[c].batch)
    BY <1>1, <1>6, <1>8, <1>11 DEF Good, InOrder
  <2>2. UpTo(applied[c], new) /\ \A i \in Pending(log, c) : UpTo(log[i].msgs, new)
    BY <1>1, <1>9, <1>10, <1>12 DEF Good, InOrder
  <2> QED
    BY <1>1, <1>8, <1>10, <2>1, <2>2 DEF Good, InOrder
<1>14. InLine(s, c, applied)
  <2>1. Increasing(q) /\ UpTo(q, new)
    BY <1>3, <1>4 DEF Increasing, UpTo, old, new
  <2>2. /\ Below(applied[c], q) /\ Below(k.batch, q)
        /\ \A i \in Pending(log, c) : Below(log[i].msgs, q)
    BY <1>1, <1>9, <1>10, <1>12 DEF Good, InOrder, Later
  <2> QED
    BY <1>4, <1>6, <1>8, <1>10, <2>1, <2>2 DEF InLine, Later
<1>15. Dated(s, c) /\ RefsCounted(s, c)
  BY <1>1, <1>6, <1>8 DEF Good, Dated, RefsCounted
<1>16. Behind(s, c)
  <2>1. old < new => q # <<>>
    <3>1. old < new => 1 \in DOMAIN q
      BY <1>3, <1>4 DEF old, new
    <3> QED
      BY <3>1
  <2>2. k.batch # <<>> => (k.received + n) % 2 = 1 \/ old < new
    BY <1>2, <1>3 DEF old, new
  <2> QED
    BY <1>6, <1>8, <2>1, <2>2 DEF Behind, Partial
<1> QED
  BY <1>1, <1>6, <1>8, <1>13, <1>14, <1>15, <1>16 DEF Good, Ready, s

\* on_client_read, with data.
LEMMA ClientReadKeeps ==
  ASSUME InsertInv, NEW c \in Conns, NEW n \in 1..(2 * MaxMessages), OnClientRead(c, n)
  PROVE  /\ InsertInv' /\ Tells(Received(c, n), Loop', c)
         /\ \A d \in Conns \ {c} : Tells(Loop, Loop', d)
<1> DEFINE s == Received(c, n)
<1>1. PICK t \in Process(s, c) : Commit(t)
  BY DEF OnClientRead, Received
<1>2. Apart(Loop, s, c) /\ Ready(s, c, applied)
  BY Receiving DEF OnClientRead
<1> HIDE DEF s
<1>3. Finished(s, t, c, applied)
  BY <1>2, Processing DEF Apart, Ready
<1>4. Apart(Loop, t, c)
  BY <1>2, <1>3, ApartTransitive DEF Finished
<1>5. InsertInv'
  BY <1>1, <1>3, <1>4, Committing DEF Finished, OnClientRead
<1> QED
  BY <1>1, <1>3, <1>4, <1>5, Talking DEF Finished, s

\* on_client_read, at the end of the stream.
LEMMA ClientEndKeeps ==
  ASSUME InsertInv, NEW c \in Conns, OnClientEnd(c)
  PROVE  InsertInv' /\ Talks
<1>1. PICK s \in IF conn[c].buffer = <<>> /\ ~Partial(Loop, c) THEN {Loop} ELSE Process(Loop, c) :
        \E t \in Flush(s, c) : Commit(Close(t, c))
  BY DEF OnClientEnd
<1>2. PICK t \in Flush(s, c) : Commit(Close(t, c))
  BY <1>1
<1>3. Ready(Loop, c, applied) /\ Loop \in LoopState /\ HasLast(Loop.log)
  BY AtRest DEF OnClientEnd, Reading, Ready, Tidy, Behind
<1>4. /\ Apart(Loop, s, c) /\ Good(s, c, applied) /\ s.conn[c].handle # "none"
      /\ Tells(Loop, s, c)
  <2>1. CASE s = Loop
    BY <1>3, <2>1 DEF Ready, Apart, Fewer, Tells
  <2>2. CASE s \in Process(Loop, c)
    <3>1. Finished(Loop, s, c, applied)
      BY <1>3, <2>2, Processing DEF Ready
    <3> QED
      BY <3>1 DEF Finished, Settled
  <2> QED
    BY <1>1, <2>1, <2>2
<1>5. Flushed(s, t, c, applied)
  BY <1>4, Flushing DEF Apart
<1>6. Finished(t, Close(t, c), c, applied)
  BY <1>4, <1>5, Shutting DEF Flushed, Apart, Untouched
<1>7. Apart(Loop, Close(t, c), c) /\ Tells(Loop, Close(t, c), c)
  BY <1>4, <1>5, <1>6, ApartTransitive, TellsTransitive DEF Flushed, Finished
<1>8. InsertInv'
  BY <1>2, <1>6, <1>7, Committing DEF Finished, OnClientEnd
<1> QED
  BY <1>2, <1>7, <1>8, Talking

\* statsTimerCb.
LEMMA StatsTimerKeeps ==
  ASSUME InsertInv, NEW c \in Conns, StatsTimer(c)
  PROVE  InsertInv' /\ Talks
<1>1. PICK s \in Flush(Loop, c) : \E t \in ResumeClient(s, c) : Commit(t)
  BY DEF StatsTimer
<1>2. PICK t \in ResumeClient(s, c) : Commit(t)
  BY <1>1
<1>3. /\ Loop \in LoopState /\ HasLast(Loop.log) /\ InLine(Loop, c, applied)
      /\ Good(Loop, c, applied) /\ Tidy(Loop, c) /\ Loop.conn[c].handle # "none"
  BY AtRest DEF StatsTimer, Dated
<1>4. Flushed(Loop, s, c, applied)
  BY <1>3, Flushing
<1>5. /\ Apart(Loop, s, c) /\ Good(s, c, applied) /\ InLine(s, c, applied)
      /\ s \in LoopState /\ HasLast(s.log) /\ s.conn[c].handle # "none"
      /\ s.conn[c].batch = <<>> /\ Tidy(s, c)
  BY <1>3, <1>4 DEF Flushed, Apart, Untouched, Tidy
<1>6. Finished(s, t, c, applied)
  <2>1. CASE t = s
    BY <1>5, <2>1 DEF Finished, Settled, Apart, Fewer, Tells
  <2>2. CASE /\ s.conn[c].is_paused
             /\ t \in Process([s EXCEPT !.conn[c].is_paused = FALSE], c)
    <3> DEFINE p == [s EXCEPT !.conn[c].is_paused = FALSE]
    <3>1. Switched(s, p, c, applied, FALSE)
      BY <1>5, Switching
    <3>2. t \in Process(p, c)
      BY <2>2
    <3> HIDE DEF p
    <3>3. /\ Apart(s, p, c) /\ p \in LoopState /\ HasLast(p.log) /\ p.conn[c].handle # "none"
          /\ Good(p, c, applied) /\ InLine(p, c, applied) /\ Behind(p, c)
          /\ ~p.conn[c].is_paused /\ ~p.conn[c].redirecting /\ Tells(s, p, c)
      BY <1>5, <2>2, <3>1 DEF Switched, Apart, Behind, Good, Dated
    <3>4. Finished(p, t, c, applied)
      BY <3>2, <3>3, Processing
    <3> QED
      BY <3>3, <3>4, ApartTransitive, TellsTransitive DEF Finished
  <2> QED
    BY <1>2, <2>1, <2>2 DEF ResumeClient
<1>7. Apart(Loop, t, c) /\ Tells(Loop, t, c)
  BY <1>4, <1>5, <1>6, ApartTransitive, TellsTransitive DEF Finished, Flushed
<1>8. InsertInv'
  BY <1>2, <1>6, <1>7, Committing DEF Finished, StatsTimer
<1> QED
  BY <1>2, <1>7, <1>8, Talking

\* A step that keeps c's messages in their places keeps c settled.
LEMMA Staying ==
  ASSUME NEW s, NEW r, NEW c, NEW A, NEW B, Settled(s, c, A), SameMessages(s, r, c), A[c] = B[c],
         r.conn[c].buffer = s.conn[c].buffer, r.replies[c] = s.replies[c],
         r.conn[c].listed => s.conn[c].listed, Dated(r, c), RefsCounted(r, c), Tidy(r, c)
  PROVE  Settled(r, c, B)
<1>1. InOrder(r, c, B) /\ (InLine(s, c, A) => InLine(r, c, B))
  BY OrderKept DEF Settled, Good
<1> QED
  BY <1>1 DEF Settled, Good

\* So does one that only recounts c's references.
LEMMA Recounting ==
  ASSUME NEW s, NEW r, NEW c, NEW A, Settled(s, c, A), r.log = s.log, r.replies = s.replies,
         r.conn[c].batch = s.conn[c].batch, r.conn[c].buffer = s.conn[c].buffer,
         r.conn[c].received = s.conn[c].received, r.conn[c].listed => s.conn[c].listed,
         Dated(r, c), RefsCounted(r, c), Tidy(r, c)
  PROVE  Settled(r, c, A)
<1>1. SameMessages(s, r, c)
  BY DEF SameMessages, Fewer
<1> QED
  BY <1>1, Staying

\* What a release does.
Released(s, r, c) ==
  /\ Apart(s, r, c) /\ r.log = s.log /\ r.replies = s.replies
  /\ r.conn[c].ref_count = s.conn[c].ref_count - 1
  /\ r.conn[c].handle = s.conn[c].handle /\ r.conn[c].node = s.conn[c].node
  /\ r.conn[c].listed = s.conn[c].listed /\ r.conn[c].received = s.conn[c].received
  /\ r.conn[c].is_paused = s.conn[c].is_paused /\ r.conn[c].acks = s.conn[c].acks
  /\ r.conn[c].redirecting = s.conn[c].redirecting
  /\ r.conn[c].buffer = s.conn[c].buffer /\ r.conn[c].batch = s.conn[c].batch

\* client_release changes the count of c and nothing else.
LEMMA Releasing ==
  ASSUME NEW s \in LoopState, HasLast(s.log), NEW c \in Conns
  PROVE  Released(s, ClientRelease(s, c), c)
<1> DEFINE k == s.conn[c]
           v == [k EXCEPT !.ref_count = k.ref_count - 1]
           r == ClientRelease(s, c)
<1>1. s.conn \in [Conns -> Conn] /\ k \in Conn
  BY Fields
<1>2. k.ref_count - 1 \in Int
  BY <1>1, ConnFields
<1>3. /\ v \in Conn /\ v.ref_count = k.ref_count - 1 /\ v.handle = k.handle /\ v.node = k.node
      /\ v.listed = k.listed /\ v.received = k.received /\ v.is_paused = k.is_paused
      /\ v.redirecting = k.redirecting /\ v.acks = k.acks
      /\ v.buffer = k.buffer /\ v.batch = k.batch
  BY <1>1, <1>2 DEF Conn
<1>4. r = Set(s, c, v)
  BY <1>1 DEF ClientRelease, Set
<1> HIDE DEF v, r
<1>5. IsSet(s, r, c, v)
  BY <1>3, <1>4, Setting
<1>6. Released(s, r, c)
  BY <1>3, <1>5 DEF IsSet, Released
<1> QED
  BY <1>6 DEF r

\* on_ack_write_complete.
LEMMA AckWriteCompleteKeeps ==
  ASSUME InsertInv, NEW c \in Conns, OnAckWriteComplete(c)
  PROVE  InsertInv' /\ Talks
<1> DEFINE k == conn[c]
           v == [k EXCEPT !.acks = @ - 1]
           w == [Loop EXCEPT !.conn[c].acks = @ - 1]
           s == ClientRelease(w, c)
<1>1. /\ Loop \in LoopState /\ HasLast(Loop.log) /\ Settled(Loop, c, applied)
      /\ Loop.conn = conn /\ Loop.log = log /\ Loop.replies = replies
      /\ k \in Conn /\ conn \in [Conns -> Conn]
      /\ Dated(Loop, c) /\ RefsCounted(Loop, c) /\ Tidy(Loop, c)
  BY AtRest
<1>2. k.acks \in Int /\ k.acks > 0 /\ k.ref_count \in Int /\ k.acks - 1 \in Int
  BY <1>1, ConnFields DEF OnAckWriteComplete
<1>3. /\ v \in Conn /\ v.acks = k.acks - 1 /\ v.ref_count = k.ref_count
      /\ v.handle = k.handle /\ v.node = k.node /\ v.listed = k.listed
      /\ v.received = k.received /\ v.is_paused = k.is_paused
      /\ v.redirecting = k.redirecting /\ v.buffer = k.buffer /\ v.batch = k.batch
  BY <1>1, <1>2 DEF Conn
<1>4. w = Set(Loop, c, v)
  BY <1>1 DEF Set
<1> HIDE DEF w, v
<1>5. Apart(Loop, w, c) /\ w.conn[c] = v /\ w.log = log /\ w.replies = replies
  BY <1>1, <1>3, <1>4, Setting, ZenonT(30) DEF IsSet
<1>6. Released(w, s, c)
  BY <1>5, Releasing DEF Apart
<1> HIDE DEF s
<1>7. k.handle # "none"
  <2>1. k = NoConn => k.acks = 0
    BY DEF NoConn
  <2> QED
    BY <1>1, <1>2, <2>1 DEF Dated
<1>8. Apart(Loop, s, c) /\ s.log = log /\ s.replies = replies
  BY <1>5, <1>6, ApartTransitive DEF Released
<1>9. Dated(s, c) /\ Tidy(s, c)
  BY <1>1, <1>3, <1>5, <1>6, <1>7 DEF Dated, Tidy, Partial, Released
<1>10. RefsCounted(s, c)
  <2>2. Cardinality(Awaited(log, c)) \in Int
    BY AtRest, AwaitedFinite
  <2>3. One(k.handle \in {"open", "closing"}) \in Int /\ One(k.redirecting) \in Int
    BY DEF One
  <2> QED
    BY <1>1, <1>2, <1>3, <1>5, <1>6, <2>2, <2>3 DEF RefsCounted, Released
<1>11. Settled(s, c, applied)
  BY <1>1, <1>3, <1>5, <1>6, <1>8, <1>9, <1>10, Recounting DEF Released
<1>12. Tells(Loop, s, c)
  BY <1>1, <1>3, <1>5, <1>6 DEF Tells, Released
<1>13. CASE Commit(s)
  <2>1. InsertInv'
    BY <1>8, <1>11, <1>13, Committing DEF OnAckWriteComplete
  <2> QED
    BY <1>8, <1>12, <1>13, <2>1, Talking
<1>14. CASE Commit(Close(s, c))
  <2>1. Finished(s, Close(s, c), c, applied)
    BY <1>3, <1>5, <1>6, <1>7, <1>8, <1>11, Shutting DEF Apart, Settled, Released
  <2>2. Apart(Loop, Close(s, c), c) /\ Tells(Loop, Close(s, c), c)
    BY <1>8, <1>12, <2>1, ApartTransitive, TellsTransitive DEF Finished
  <2>3. InsertInv'
    BY <1>14, <2>1, <2>2, Committing DEF Finished, OnAckWriteComplete
  <2> QED
    BY <1>14, <2>2, <2>3, Talking
<1> QED
  BY <1>13, <1>14 DEF OnAckWriteComplete, s, w

\* on_redirect_write_complete.
LEMMA RedirectWriteCompleteKeeps ==
  ASSUME InsertInv, NEW c \in Conns, OnRedirectWriteComplete(c)
  PROVE  InsertInv' /\ Talks
<1> DEFINE k == conn[c]
           v == [k EXCEPT !.redirecting = FALSE]
           w == [Loop EXCEPT !.conn[c].redirecting = FALSE]
           x == Close(w, c)
           s == ClientRelease(x, c)
<1>1. /\ Loop \in LoopState /\ HasLast(Loop.log) /\ Settled(Loop, c, applied)
      /\ Loop.conn = conn /\ Loop.log = log /\ Loop.replies = replies
      /\ k \in Conn /\ conn \in [Conns -> Conn] /\ k.redirecting
      /\ Dated(Loop, c) /\ RefsCounted(Loop, c)
  BY AtRest DEF OnRedirectWriteComplete
<1>2. /\ v \in Conn /\ v.redirecting = FALSE /\ v.ref_count = k.ref_count
      /\ v.handle = k.handle /\ v.node = k.node /\ v.listed = k.listed
      /\ v.received = k.received /\ v.is_paused = k.is_paused
      /\ v.acks = k.acks /\ v.buffer = k.buffer /\ v.batch = k.batch
  BY <1>1 DEF Conn
<1>3. w = Set(Loop, c, v)
  BY <1>1 DEF Set
<1> HIDE DEF w, v
<1>4. Apart(Loop, w, c) /\ w.conn[c] = v /\ w.log = log /\ w.replies = replies
  <2>1. v \in Conn
    BY <1>2
  <2>2. IsSet(Loop, w, c, v)
    BY <1>1, <1>3, <2>1, Setting
  <2> QED
    BY <1>1, <2>2 DEF IsSet
<1>5. Apart(w, x, c) /\ x.log = log /\ x.replies = replies /\ ClosedFields(w, x, c)
  BY <1>4, Closing DEF Apart
<1>6. /\ x.conn[c].ref_count = k.ref_count /\ x.conn[c].received = k.received
      /\ x.conn[c].is_paused = k.is_paused /\ x.conn[c].redirecting = FALSE
      /\ x.conn[c].acks = k.acks /\ x.conn[c].buffer = k.buffer /\ x.conn[c].batch = k.batch
      /\ x.conn[c].handle = IF k.handle = "open" THEN "closing" ELSE k.handle
      /\ ~x.conn[c].listed
  BY <1>1, <1>2, <1>4, <1>5 DEF ClosedFields, Dated
<1> HIDE DEF x
<1>7. Released(x, s, c)
  BY <1>5, Releasing DEF Apart
<1> HIDE DEF s
<1>8. k.handle # "none"
  <2>1. k = NoConn => ~k.redirecting
    BY DEF NoConn
  <2> QED
    BY <1>1, <2>1 DEF Dated
<1>9. Apart(Loop, s, c) /\ s.log = log /\ s.replies = replies
  BY <1>4, <1>5, <1>7, ApartTransitive DEF Released
<1>10. Dated(s, c) /\ Tidy(s, c)
  BY <1>1, <1>6, <1>7, <1>8 DEF Dated, Tidy, Released
<1>11. RefsCounted(s, c)
  <2>1. Cardinality(Awaited(log, c)) \in Int
    BY AtRest, AwaitedFinite
  <2>2. /\ One(s.conn[c].handle \in {"open", "closing"}) = One(k.handle \in {"open", "closing"})
        /\ One(s.conn[c].redirecting) = 0 /\ One(k.redirecting) = 1
        /\ One(k.handle \in {"open", "closing"}) \in Int
    BY <1>1, <1>6, <1>7 DEF One, Released
  <2>3. k.acks \in Int /\ k.ref_count \in Int
    BY <1>1, ConnFields
  <2>4. s.conn[c].ref_count = k.ref_count - 1 /\ s.conn[c].acks = k.acks
    BY <1>6, <1>7 DEF Released
  <2>5. k.ref_count = One(k.handle \in {"open", "closing"}) + Cardinality(Awaited(log, c))
                      + k.acks + One(k.redirecting)
    BY <1>1 DEF RefsCounted
  <2>6. s.conn[c].ref_count = One(s.conn[c].handle \in {"open", "closing"})
          + Cardinality(Awaited(log, c)) + s.conn[c].acks + One(s.conn[c].redirecting)
    BY <2>1, <2>2, <2>3, <2>4, <2>5
  <2> QED
    BY <1>9, <2>6 DEF RefsCounted
<1>12. Settled(s, c, applied)
  BY <1>1, <1>6, <1>7, <1>9, <1>10, <1>11, Recounting DEF Released
<1>13. Commit(s)
  BY DEF OnRedirectWriteComplete, s, x, w
<1>14. Tells(Loop, s, c)
  BY <1>1, <1>6, <1>7, <1>8, <1>9 DEF Tells, Released
<1>15. InsertInv'
  BY <1>9, <1>12, <1>13, Committing DEF OnRedirectWriteComplete
<1> QED
  BY <1>9, <1>13, <1>14, <1>15, Talking

\* on_client_close.
LEMMA ClientCloseKeeps ==
  ASSUME InsertInv, NEW c \in Conns, OnClientClose(c)
  PROVE  InsertInv' /\ Talks
<1> DEFINE k == conn[c]
           v == [k EXCEPT !.handle = "closed"]
           w == [Loop EXCEPT !.conn[c].handle = "closed"]
           s == ClientRelease(w, c)
<1>1. /\ Loop \in LoopState /\ HasLast(Loop.log) /\ Settled(Loop, c, applied)
      /\ Loop.conn = conn /\ Loop.log = log /\ Loop.replies = replies
      /\ k \in Conn /\ conn \in [Conns -> Conn] /\ k.handle = "closing"
      /\ Dated(Loop, c) /\ RefsCounted(Loop, c)
  BY AtRest DEF OnClientClose
<1>2. /\ v \in Conn /\ v.handle = "closed" /\ v.ref_count = k.ref_count
      /\ v.redirecting = k.redirecting /\ v.node = k.node /\ v.listed = k.listed
      /\ v.received = k.received /\ v.is_paused = k.is_paused
      /\ v.acks = k.acks /\ v.buffer = k.buffer /\ v.batch = k.batch
  BY <1>1 DEF Conn
<1>3. w = Set(Loop, c, v)
  BY <1>1 DEF Set
<1> HIDE DEF w, v
<1>4. Apart(Loop, w, c) /\ w.conn[c] = v /\ w.log = log /\ w.replies = replies
  BY <1>1, <1>2, <1>3, Setting DEF IsSet
<1>5. Released(w, s, c)
  BY <1>4, Releasing DEF Apart
<1> HIDE DEF s
<1>6. Apart(Loop, s, c) /\ s.log = log /\ s.replies = replies
  BY <1>4, <1>5, ApartTransitive DEF Released
<1>7. Dated(s, c) /\ Tidy(s, c)
  BY <1>1, <1>2, <1>4, <1>5 DEF Dated, Tidy, Released
<1>8. RefsCounted(s, c)
  <2>1. Cardinality(Awaited(log, c)) \in Int
    BY AtRest, AwaitedFinite
  <2>2. /\ One(s.conn[c].handle \in {"open", "closing"}) = 0
        /\ One(k.handle \in {"open", "closing"}) = 1
    BY <1>1, <1>2, <1>4, <1>5 DEF One, Released
  <2>3. k.acks \in Int /\ k.ref_count \in Int /\ One(k.redirecting) \in Int
    BY <1>1, ConnFields DEF One
  <2> QED
    BY <1>1, <1>2, <1>4, <1>5, <1>6, <2>1, <2>2, <2>3 DEF RefsCounted, Released
<1>9. Settled(s, c, applied)
  BY <1>1, <1>2, <1>4, <1>5, <1>6, <1>7, <1>8, Recounting DEF Released
<1>10. Commit(s)
  BY DEF OnClientClose, s, w
<1>11. Tells(Loop, s, c)
  BY <1>1, <1>2, <1>4, <1>5, <1>6 DEF Tells, Released
<1>12. InsertInv'
  BY <1>6, <1>9, <1>10, Committing DEF OnClientClose
<1> QED
  BY <1>6, <1>10, <1>11, <1>12, Talking

\* Whether c is settled depends on its record, the log and what it was sent.
LEMMA Local ==
  ASSUME NEW s, NEW r, NEW c, NEW A, Settled(s, c, A), r.conn[c] = s.conn[c],
         r.log = s.log, r.replies[c] = s.replies[c]
  PROVE  Settled(r, c, A)
BY DEF Settled, Good, Dated, RefsCounted, InOrder, InLine, Later, Tidy, Partial

\* ServerClose.
LEMMA ServerCloseKeeps ==
  ASSUME InsertInv, NEW n \in Nodes, ServerClose(n)
  PROVE  InsertInv'
<1>1. ASSUME NEW c \in Conns
      PROVE  conn'[c] \in Conn /\ Settled(Loop', c, applied')
  <2> DEFINE s == IF conn[c].node = n /\ conn[c].listed THEN Close(Loop, c) ELSE Loop
  <2>1. conn'[c] = s.conn[c]
    BY AtRest DEF ServerClose
  <2>2. /\ Loop \in LoopState /\ HasLast(Loop.log) /\ Settled(Loop, c, applied)
        /\ Loop.conn = conn /\ Loop.log = log /\ Loop.replies = replies
        /\ conn \in [Conns -> Conn] /\ Dated(Loop, c)
    BY AtRest
  <2>3. /\ s \in LoopState /\ Settled(s, c, applied)
        /\ s.log = log /\ s.replies = replies
    <3>1. CASE conn[c].node = n /\ conn[c].listed
      <4>1. Finished(Loop, Close(Loop, c), c, applied)
        BY <2>2, <3>1, Shutting DEF Dated, Settled
      <4>2. Close(Loop, c).log = log /\ Close(Loop, c).replies = replies
        BY <2>2, Closing
      <4>3. s = Close(Loop, c)
        BY <3>1
      <4> HIDE DEF s
      <4> QED
        BY <4>1, <4>2, <4>3 DEF Finished, Apart
    <3>2. CASE ~(conn[c].node = n /\ conn[c].listed)
      BY <2>2, <3>2
    <3> QED
      BY <3>1, <3>2
  <2> HIDE DEF s
  <2>4. s.conn[c] \in Conn
    BY <2>3, Fields
  <2>5. Loop'.conn = conn' /\ Loop'.log = log /\ Loop'.replies = replies /\ applied' = applied
    BY DEF Loop, ServerClose
  <2>6. Settled(Loop', c, applied)
    BY <2>1, <2>3, <2>5, Local
  <2> QED
    BY <2>1, <2>4, <2>5, <2>6
<1>2. conn' \in [Conns -> Conn]
  <2>1. conn' = [c \in Conns |-> conn'[c]]
    BY DEF ServerClose
  <2> QED
    BY <1>1, <2>1
<1>3. Loop' \in LoopState
  <2>1. log \in Logs /\ replies \in [Conns -> Replies]
    BY Fields DEF InsertInv, Loop
  <2>2. Loop' = [conn |-> conn', log |-> log, replies |-> replies]
    BY DEF Loop, ServerClose
  <2> QED
    BY <1>2, <2>1, <2>2 DEF LoopState, Replies
<1>4. HasLast(log')
  BY DEF InsertInv, ServerClose
<1>5. Sheltered'
  <2> DEFINE state == IF immutable_count[n] < MaxImmutables THEN "flushing" ELSE "undefined"
  <2>1. /\ server' = [server EXCEPT ![n] = state]
        /\ immutable_count' = [immutable_count EXCEPT ![n] = @ + 1]
    BY DEF ServerClose
  <2>2. Sheltered /\ MaxImmutables \in Nat
    BY InsertConstants DEF InsertInv
  <2>3. /\ state \in {"flushing", "undefined"} /\ immutable_count[n] + 1 \in Nat
        /\ immutable_count[n] + 1 > MaxImmutables => state = "undefined"
    BY <2>2 DEF Sheltered
  <2> HIDE DEF state
  <2> QED
    BY <2>1, <2>2, <2>3 DEF Sheltered
<1> QED
  BY <1>1, <1>3, <1>4, <1>5 DEF InsertInv, ServerClose, raftVars

\* A step that changes neither the connections, the log nor what was applied keeps
\* the invariant if the servers' arrays stay in order.
LEMMA QuietKeeps ==
  ASSUME InsertInv, Sheltered', UNCHANGED <<conn, log, replies, raftVars, applied>>
  PROVE  InsertInv' /\ \A d \in Conns : Tells(Loop, Loop', d)
<1>1. Loop' = Loop /\ applied' = applied /\ log' = log
  BY DEF Loop
<1>2. \A c \in Conns : Settled(Loop', c, applied')
  BY <1>1 DEF InsertInv
<1> QED
  BY <1>1, <1>2 DEF InsertInv, raftVars, Tells

\* lsmt_flush returns.
LEMMA LsmtFlushReturnsKeeps ==
  ASSUME InsertInv, NEW n \in Nodes, LsmtFlushReturns(n)
  PROVE  InsertInv' /\ \A d \in Conns : Tells(Loop, Loop', d)
<1>1. Sheltered'
  BY InsertConstants DEF InsertInv, Sheltered, LsmtFlushReturns
<1> QED
  BY <1>1, QuietKeeps DEF LsmtFlushReturns

---------------------------------------------------------------------------
(* The steps of Raft and of the storage engine.                            *)

\* A log whose entries are only less pending or less waited for.
Weaker(L, M) ==
  /\ M \in [DOMAIN L -> Entry]
  /\ \A i \in DOMAIN L : /\ M[i].conn = L[i].conn /\ M[i].msgs = L[i].msgs
                         /\ M[i].pending => L[i].pending

\* Such a log, once what is settled is forgotten, has fewer pending entries.
LEMMA Weakening ==
  ASSUME NEW L \in Logs, HasLast(L), NEW M, Weaker(L, M), NEW c
  PROVE  /\ Unsettled(M) \in Logs /\ HasLast(Unsettled(M)) /\ Fewer(L, Unsettled(M), c)
         /\ Awaited(Unsettled(M), c) = Awaited(M, c)
         /\ Pending(Unsettled(M), c) = Pending(M, c)
         /\ \A i \in Pending(M, c) : Unsettled(M)[i].msgs = M[i].msgs
<1> DEFINE K == Unsettled(M)
<1>1. M \in Logs /\ HasLast(M) /\ DOMAIN M = DOMAIN L
  <2>1. DOMAIN L \in SUBSET (Nat \ {0}) /\ DOMAIN M = DOMAIN L
    BY InLog DEF Weaker
  <2> QED
    BY <2>1 DEF Weaker, Logs, HasLast
<1>2. /\ K \in Logs /\ HasLast(K) /\ Pending(K, c) = Pending(M, c) /\ Awaited(K, c) = Awaited(M, c)
      /\ \A i \in DOMAIN K : i \in DOMAIN M /\ K[i] = M[i]
  BY <1>1, Forgetting
<1> HIDE DEF K
<1>3. \A i \in Pending(K, c) : i \in DOMAIN K
  BY DEF Pending
<1>4. Fewer(L, K, c)
  BY <1>1, <1>2, <1>3 DEF Fewer, Pending, Weaker
<1> QED
  BY <1>2, <1>3, <1>4 DEF K

\* An election.
LEMMA ElectKeeps ==
  ASSUME InsertInv, NEW n \in Nodes, NEW k \in {0} \cup DOMAIN log, Elect(n, k)
  PROVE  InsertInv' /\ Talks
<1> DEFINE M == [i \in DOMAIN log |-> [log[i] EXCEPT !.pending = @ /\ i <= k]]
<1>1. log \in Logs /\ HasLast(log) /\ Loop \in LoopState
  BY Fields DEF InsertInv, Loop
<1>2. \A i \in DOMAIN log :
        /\ M[i] \in Entry /\ M[i].conn = log[i].conn /\ M[i].msgs = log[i].msgs
        /\ M[i].waited = log[i].waited /\ (M[i].pending => log[i].pending)
  <2> SUFFICES ASSUME NEW i \in DOMAIN log
               PROVE  /\ M[i] \in Entry /\ M[i].conn = log[i].conn /\ M[i].msgs = log[i].msgs
                      /\ M[i].waited = log[i].waited /\ (M[i].pending => log[i].pending)
    OBVIOUS
  <2> DEFINE b == log[i].pending /\ i <= k
  <2>1. log[i] \in Entry /\ b \in BOOLEAN
    BY <1>1, InLog
  <2>2. M[i] = [log[i] EXCEPT !.pending = b]
    OBVIOUS
  <2>3. b => log[i].pending
    OBVIOUS
  <2> HIDE DEF b
  <2> QED
    BY <2>1, <2>2, <2>3 DEF Entry
<1>3. Weaker(log, M)
  BY <1>2 DEF Weaker
<1>4. DOMAIN M = DOMAIN log /\ log' = Unsettled(M)
  BY DEF Elect
<1> HIDE DEF M
<1>5. Loop'.conn = conn /\ Loop'.log = log' /\ Loop'.replies = replies /\ applied' = applied
      /\ Loop' = [conn |-> conn, log |-> log', replies |-> replies]
  BY DEF Loop, Elect, connVars
<1>6. ASSUME NEW c \in Conns
      PROVE  Settled(Loop', c, applied')
  <2>1. /\ Settled(Loop, c, applied) /\ Loop.conn = conn /\ Loop.log = log /\ Loop.replies = replies
        /\ Dated(Loop, c) /\ RefsCounted(Loop, c) /\ Tidy(Loop, c)
    BY AtRest
  <2>2. Fewer(log, log', c) /\ Awaited(log', c) = Awaited(M, c)
    BY <1>1, <1>3, <1>4, Weakening
  <2>3. Awaited(M, c) = Awaited(log, c)
    BY <1>2, <1>4 DEF Awaited
  <2>4. SameMessages(Loop, Loop', c)
    BY <1>5, <2>1, <2>2 DEF SameMessages
  <2>5. Dated(Loop', c) /\ RefsCounted(Loop', c) /\ Tidy(Loop', c)
    BY <1>5, <2>1, <2>2, <2>3 DEF Dated, RefsCounted, Tidy, Partial
  <2> QED
    BY <1>5, <2>1, <2>4, <2>5, Staying
<1>7. Loop' \in LoopState /\ HasLast(log')
  <2>1. conn \in [Conns -> Conn] /\ replies \in [Conns -> Replies]
    BY <1>1, Fields DEF Loop
  <2>2. log' \in Logs /\ HasLast(log')
    BY <1>1, <1>3, <1>4, Weakening
  <2> QED
    BY <1>5, <2>1, <2>2 DEF LoopState, Replies
<1>8. Talks
  BY <1>5 DEF Talks, Tells, Loop
<1> QED
  BY <1>6, <1>7, <1>8 DEF InsertInv, Sheltered, Elect, connVars

\* The reference count of a connection that waits for nothing.
LEMMA NoneWaited ==
  ASSUME InsertInv, NEW c \in Conns, conn[c].handle = "none"
  PROVE  conn[c] = NoConn /\ Awaited(log, c) = {}
<1>1. conn[c] = NoConn /\ RefsCounted(Loop, c) /\ Loop.conn = conn /\ Loop.log = log
  BY AtRest DEF Dated
<1>2. IsFiniteSet(Awaited(log, c)) /\ Cardinality(Awaited(log, c)) \in Nat
  BY AtRest, AwaitedFinite
<1>3. Cardinality(Awaited(log, c)) = 0
  BY <1>1, <1>2 DEF RefsCounted, NoConn, One
<1> QED
  BY <1>1, <1>2, <1>3, FS_EmptySet

\* The end of a leadership: each entry waited for releases its client.
LEMMA StepDownKeeps ==
  ASSUME InsertInv, NEW n \in Nodes, StepDown(n)
  PROVE  InsertInv' /\ Talks
<1> DEFINE W == WaitedBy(n)
           G(c) == {i \in W : log[i].conn = c}
           M == [i \in DOMAIN log |-> [log[i] EXCEPT !.waited = @ /\ i \notin W]]
<1>1. log \in Logs /\ HasLast(log) /\ Loop \in LoopState /\ conn \in [Conns -> Conn]
      /\ replies \in [Conns -> Replies]
  BY Fields DEF InsertInv, Loop
<1>2. \A i \in DOMAIN log :
        /\ M[i] \in Entry /\ M[i].conn = log[i].conn /\ M[i].msgs = log[i].msgs
        /\ M[i].waited = (log[i].waited /\ i \notin W) /\ M[i].pending = log[i].pending
  <2> SUFFICES ASSUME NEW i \in DOMAIN log
               PROVE  /\ M[i] \in Entry /\ M[i].conn = log[i].conn /\ M[i].msgs = log[i].msgs
                      /\ M[i].waited = (log[i].waited /\ i \notin W)
                      /\ M[i].pending = log[i].pending
    OBVIOUS
  <2> DEFINE b == log[i].waited /\ i \notin W
  <2>1. log[i] \in Entry /\ b \in BOOLEAN
    BY <1>1, InLog
  <2>2. M[i] = [log[i] EXCEPT !.waited = b]
    OBVIOUS
  <2> HIDE DEF M
  <2>3. M[i] \in Entry /\ M[i].waited = b
    <3> HIDE DEF b
    <3> QED
      BY <2>1, <2>2, Zenon DEF Entry
  <2>4. M[i].conn = log[i].conn /\ M[i].msgs = log[i].msgs /\ M[i].pending = log[i].pending
    <3> HIDE DEF b
    <3> QED
      BY <2>1, <2>2 DEF Entry
  <2> QED
    BY <2>3, <2>4, Zenon
<1>3. Weaker(log, M)
  BY <1>2, Zenon DEF Weaker
<1>4. DOMAIN M = DOMAIN log /\ log' = Unsettled(M) /\ conn' = GivenUp(n)
  BY DEF StepDown
<1>5. \A c \in Conns : conn'[c] = [conn[c] EXCEPT !.ref_count = @ - Cardinality(G(c))]
  BY <1>4 DEF GivenUp
<1>6. \A c : /\ G(c) \subseteq Awaited(log, c) /\ Awaited(M, c) = Awaited(log, c) \ G(c)
  <2>1. \A c : G(c) \subseteq Awaited(log, c)
    BY DEF WaitedBy, Awaited
  <2> SUFFICES ASSUME NEW c, NEW i
               PROVE  i \in Awaited(M, c) <=> i \in Awaited(log, c) /\ i \notin G(c)
    BY <2>1
  <2> QED
    BY <1>2, <1>4, Zenon DEF Awaited
<1> HIDE DEF M, G
<1>7. ASSUME NEW c \in Conns
      PROVE  /\ Cardinality(Awaited(log, c)) = Cardinality(Awaited(M, c)) + Cardinality(G(c))
             /\ Cardinality(G(c)) \in Nat /\ Cardinality(Awaited(M, c)) \in Nat
  <2>1. IsFiniteSet(Awaited(log, c))
    BY <1>1, AwaitedFinite
  <2>2. IsFiniteSet(G(c)) /\ IsFiniteSet(Awaited(M, c))
    BY <2>1, <1>6, FS_Subset
  <2>3. Cardinality(Awaited(log, c)) = Cardinality(Awaited(M, c) \cup G(c))
    <3>1. Awaited(log, c) = Awaited(M, c) \cup G(c)
      BY <1>6
    <3> QED
      BY <3>1
  <2>4. Cardinality(Awaited(M, c) \cup G(c))
          = Cardinality(Awaited(M, c)) + Cardinality(G(c)) - Cardinality({})
    <3>1. Awaited(M, c) \cap G(c) = {}
      BY <1>6
    <3> QED
      BY <2>2, <3>1, FS_Union
  <2>5. /\ Cardinality(G(c)) \in Nat /\ Cardinality(Awaited(M, c)) \in Nat
        /\ Cardinality({}) = 0
    BY <2>2, FS_CardinalityType, FS_EmptySet
  <2> QED
    BY <2>3, <2>4, <2>5
<1>8. ASSUME NEW c \in Conns
      PROVE  /\ conn'[c] \in Conn /\ conn'[c].ref_count = conn[c].ref_count - Cardinality(G(c))
             /\ conn'[c].handle = conn[c].handle /\ conn'[c].listed = conn[c].listed
             /\ conn'[c].received = conn[c].received /\ conn'[c].is_paused = conn[c].is_paused
             /\ conn'[c].redirecting = conn[c].redirecting /\ conn'[c].acks = conn[c].acks
             /\ conn'[c].buffer = conn[c].buffer /\ conn'[c].batch = conn[c].batch
             /\ (conn[c].handle = "none" => conn'[c] = NoConn)
  <2>1. conn[c] \in Conn /\ conn[c].ref_count \in Int
    BY <1>1, ConnFields
  <2> DEFINE x == conn[c].ref_count - Cardinality(G(c))
  <2>2. x \in Int
    BY <1>7, <2>1
  <2>3. conn'[c] = [conn[c] EXCEPT !.ref_count = x]
    BY <1>5
  <2>4. conn[c].handle = "none" => conn[c] = NoConn /\ x = conn[c].ref_count
    <3>1. ASSUME conn[c].handle = "none" PROVE conn[c] = NoConn /\ x = conn[c].ref_count
      <4>1. conn[c] = NoConn /\ Awaited(log, c) = {}
        BY <3>1, NoneWaited
      <4>2. G(c) = {}
        BY <4>1, <1>6
      <4> QED
        BY <2>1, <4>1, <4>2, FS_EmptySet
    <3> QED
      BY <3>1
  <2>5. [conn[c] EXCEPT !.ref_count = conn[c].ref_count] = conn[c]
    BY <2>1 DEF Conn
  <2> HIDE DEF x
  <2>6. conn[c].handle = "none" => conn'[c] = NoConn
    BY <2>3, <2>4, <2>5
  <2> QED
    BY <2>1, <2>2, <2>3, <2>6 DEF Conn, x
<1>9. Loop'.conn = conn' /\ Loop'.log = log' /\ Loop'.replies = replies /\ applied' = applied
      /\ Loop' = [conn |-> conn', log |-> log', replies |-> replies]
  BY DEF Loop, StepDown
<1>10. ASSUME NEW c \in Conns
       PROVE  Settled(Loop', c, applied')
  <2>1. /\ Settled(Loop, c, applied) /\ Loop.conn = conn /\ Loop.log = log /\ Loop.replies = replies
        /\ Dated(Loop, c) /\ RefsCounted(Loop, c) /\ Tidy(Loop, c)
    BY AtRest
  <2>2. Fewer(log, log', c) /\ Awaited(log', c) = Awaited(M, c)
    BY <1>1, <1>3, <1>4, Weakening
  <2>3. SameMessages(Loop, Loop', c)
    BY <1>8, <1>9, <2>1, <2>2 DEF SameMessages
  <2>4. RefsCounted(Loop', c)
    <3>1. conn[c].ref_count = One(conn[c].handle \in {"open", "closing"})
            + Cardinality(Awaited(log, c)) + conn[c].acks + One(conn[c].redirecting)
      BY <2>1 DEF RefsCounted
    <3>2. /\ One(conn[c].handle \in {"open", "closing"}) \in Int /\ One(conn[c].redirecting) \in Int
          /\ conn[c].acks \in Int
      BY <1>1, ConnFields DEF One
    <3>3. conn'[c].ref_count = One(conn[c].handle \in {"open", "closing"})
            + Cardinality(Awaited(M, c)) + conn[c].acks + One(conn[c].redirecting)
      BY <1>7, <1>8, <3>1, <3>2
    <3> QED
      BY <1>8, <1>9, <2>2, <3>3 DEF RefsCounted
  <2>5. Dated(Loop', c) /\ Tidy(Loop', c)
    BY <1>8, <1>9, <2>1 DEF Dated, Tidy, Partial
  <2> QED
    BY <1>8, <1>9, <2>1, <2>3, <2>4, <2>5, Staying
<1>11. Loop' \in LoopState /\ HasLast(log')
  <2>1. conn' = [c \in Conns |-> conn'[c]]
    BY <1>4 DEF GivenUp
  <2>2. conn' \in [Conns -> Conn]
    BY <1>8, <2>1
  <2>3. log' \in Logs /\ HasLast(log')
    BY <1>1, <1>3, <1>4, Weakening
  <2> QED
    BY <1>1, <1>9, <2>2, <2>3 DEF LoopState, Replies
<1>12. Talks
  BY <1>8, <1>9 DEF Talks, Tells, Loop
<1> QED
  BY <1>10, <1>11, <1>12 DEF InsertInv, Sheltered, StepDown

\* The bytes that acknowledge n messages.
AckBytes(n) == [i \in 1..n |-> "ack"]

\* What serverApplyCb may do to c: send its peer acknowledgements.
Acknowledges(s, r, c) ==
  /\ r.conn[c].received = s.conn[c].received
  /\ r.conn[c].handle = "open" /\ s.conn[c].handle = "open"
  /\ r.conn[c].redirecting = s.conn[c].redirecting
  /\ \E n \in Nat : r.replies[c] = s.replies[c] \o AckBytes(n)

\* What serverApplyCb does with an applied entry of n messages.
Answered(s, c, n) ==
  /\ Apart(Loop, s, c) /\ s.log = log
  /\ s.conn[c].received = conn[c].received /\ s.conn[c].is_paused = conn[c].is_paused
  /\ s.conn[c].redirecting = conn[c].redirecting
  /\ s.conn[c].buffer = conn[c].buffer /\ s.conn[c].batch = conn[c].batch
  /\ \/ s.conn[c].handle = conn[c].handle /\ s.conn[c].listed = conn[c].listed
     \/ conn[c].handle = "open" /\ s.conn[c].handle = "closing" /\ ~s.conn[c].listed
  /\ s.conn[c].ref_count - s.conn[c].acks = conn[c].ref_count - conn[c].acks - 1
  /\ AckCount(s.replies[c]) <= AckCount(replies[c]) + n
  /\ \/ s.replies[c] = replies[c]
     \/ s.conn[c].handle = "open" /\ s.replies[c] = replies[c] \o AckBytes(n)

\* serverApplyCb in each of its outcomes.
LEMMA Answering ==
  ASSUME InsertInv, NEW c \in Conns, NEW n \in Nat, NEW s \in ServerApplyCb(Loop, c, n)
  PROVE  Answered(s, c, n)
<1> DEFINE k == conn[c]
           a == [i \in 1..n |-> "ack"]
           q == replies[c] \o a
           v == [k EXCEPT !.ref_count = @ + 1, !.acks = @ + 1]
           w == [ClientRetain(Loop, c) EXCEPT !.conn[c].acks = @ + 1, !.replies[c] = @ \o a]
<1>1. /\ Loop \in LoopState /\ HasLast(Loop.log) /\ Loop.conn = conn /\ Loop.log = log
      /\ Loop.replies = replies /\ k \in Conn /\ conn \in [Conns -> Conn]
      /\ log \in Logs /\ HasLast(log) /\ replies \in [Conns -> Replies] /\ replies[c] \in Replies
      /\ k.ref_count \in Int /\ k.acks \in Int /\ Dated(Loop, c)
  BY AtRest, ConnFields
<1>2. /\ AckCount(replies[c]) \in Nat /\ q \in Replies
      /\ AckCount(q) = AckCount(replies[c]) + n
  BY <1>1, AcksBesideRedirect, AcksAdded
<1>3. \/ s = ClientRelease(Loop, c)
      \/ k.handle = "open" /\ s = ClientRelease(Close(Loop, c), c)
      \/ k.handle = "open" /\ s = ClientRelease(w, c)
  BY <1>1 DEF ServerApplyCb
<1>4. CASE s = ClientRelease(Loop, c)
  <2>1. Released(Loop, s, c)
    BY <1>1, <1>4, Releasing
  <2> HIDE DEF q
  <2> QED
    BY <1>1, <1>2, <2>1 DEF Released, Answered
<1>5. CASE k.handle = "open" /\ s = ClientRelease(Close(Loop, c), c)
  <2> DEFINE x == Close(Loop, c)
  <2>1. Apart(Loop, x, c) /\ x.log = log /\ x.replies = replies /\ ClosedFields(Loop, x, c)
    BY <1>1, Closing
  <2> HIDE DEF x, q
  <2>2. Released(x, s, c)
    BY <1>5, <2>1, Releasing DEF Apart, x
  <2>3. Apart(Loop, s, c)
    BY <2>1, <2>2, ApartTransitive DEF Released
  <2> QED
    BY <1>1, <1>2, <1>5, <2>1, <2>2, <2>3 DEF Released, Answered, ClosedFields
<1>6. CASE k.handle = "open" /\ s = ClientRelease(w, c)
  <2> DEFINE u == [k EXCEPT !.ref_count = @ + 1]
             r == ClientRetain(Loop, c)
  <2>1. /\ u \in Conn /\ u.ref_count = k.ref_count + 1 /\ u.handle = k.handle
        /\ u.node = k.node /\ u.listed = k.listed /\ u.received = k.received
        /\ u.buffer = k.buffer /\ u.batch = k.batch /\ u.is_paused = k.is_paused
        /\ u.redirecting = k.redirecting /\ u.acks = k.acks
    <3>1. k.ref_count + 1 \in Int
      BY <1>1
    <3> QED
      BY <1>1, <3>1 DEF Conn
  <2>2. v = [u EXCEPT !.acks = @ + 1]
    BY <1>1 DEF Conn
  <2> HIDE DEF u
  <2>3. /\ v \in Conn /\ v.ref_count = k.ref_count + 1 /\ v.handle = k.handle
        /\ v.node = k.node /\ v.listed = k.listed /\ v.received = k.received
        /\ v.buffer = k.buffer /\ v.batch = k.batch /\ v.is_paused = k.is_paused
        /\ v.redirecting = k.redirecting /\ v.acks = k.acks + 1
    <3>1. u.acks + 1 \in Int
      BY <1>1, <2>1
    <3> HIDE DEF v
    <3> QED
      BY <2>1, <2>2, <3>1 DEF Conn
  <2>4. r = [conn |-> [conn EXCEPT ![c] = u], log |-> log, replies |-> replies]
    <3>1. r = [Loop EXCEPT !.conn = [conn EXCEPT ![c] = u]]
      BY <1>1 DEF ClientRetain, u
    <3> HIDE DEF r
    <3> QED
      BY <3>1 DEF Loop
  <2>5. w = [r EXCEPT !.conn[c].acks = @ + 1, !.replies[c] = @ \o a]
    OBVIOUS
  <2> HIDE DEF r, v, w, a, q
  <2>6. r.conn = [conn EXCEPT ![c] = u] /\ r.conn[c] = u /\ r.replies = replies
    BY <1>1, <2>4
  <2> DEFINE x == [r.conn EXCEPT ![c] = v]
             y == [r.replies EXCEPT ![c] = q]
             b == [conn EXCEPT ![c] = u]
  <2>7. w = [r EXCEPT !.conn = x, !.replies = y]
    BY <2>2, <2>5, <2>6 DEF q
  <2>8. x = [conn EXCEPT ![c] = v] /\ y = [replies EXCEPT ![c] = q]
    BY <1>1, <2>6
  <2>9. r = [conn |-> b, log |-> log, replies |-> replies]
    BY <2>4
  <2> HIDE DEF x, y, b
  <2>10. w = [conn |-> x, log |-> log, replies |-> y]
    BY <2>7, <2>9
  <2>11. w = Put(Loop, c, v, log, q)
    BY <1>1, <2>8, <2>10 DEF Put
  <2>12. IsPut(Loop, w, c, v, log, q)
    <3>1. Others(Loop.log, log, c)
      BY <1>1, SameOthers
    <3> QED
      BY <1>1, <1>2, <2>3, <2>11, <3>1, Putting
  <2>13. Apart(Loop, w, c) /\ w.conn[c] = v /\ w.log = log /\ w.replies[c] = q
    BY <2>12 DEF IsPut
  <2>14. Released(w, s, c)
    BY <1>6, <2>13, Releasing DEF Apart
  <2>15. Apart(Loop, s, c)
    BY <2>13, <2>14, ApartTransitive DEF Released
  <2>16. s.conn[c].handle = "open" /\ s.replies[c] = replies[c] \o AckBytes(n)
    BY <1>6, <2>3, <2>13, <2>14 DEF Released, q, a, AckBytes
  <2>17. /\ s.conn[c].received = k.received /\ s.conn[c].is_paused = k.is_paused
         /\ s.conn[c].redirecting = k.redirecting
         /\ s.conn[c].buffer = k.buffer /\ s.conn[c].batch = k.batch
         /\ s.conn[c].handle = k.handle /\ s.conn[c].listed = k.listed
         /\ s.log = log /\ s.replies[c] = q
         /\ s.conn[c].ref_count = v.ref_count - 1 /\ s.conn[c].acks = v.acks
    BY <2>3, <2>13, <2>14 DEF Released
  <2>18. /\ s.conn[c].ref_count - s.conn[c].acks = k.ref_count - k.acks - 1
         /\ AckCount(s.replies[c]) <= AckCount(replies[c]) + n
    BY <1>1, <1>2, <2>3, <2>17
  <2> QED
    BY <2>15, <2>16, <2>17, <2>18 DEF Answered
<1> QED
  BY <1>3, <1>4, <1>5, <1>6

\* The log without the entry at i, for which c's server waits no longer if own.
Settles(M, i, own) ==
  /\ Weaker(log, M)
  /\ \A j \in DOMAIN log :
       IF j = i THEN ~M[j].pending /\ (M[j].waited <=> log[j].waited /\ ~own) ELSE M[j] = log[j]

\* What FsmApply does to the log.
LEMMA Settling ==
  ASSUME InsertInv, NEW i \in DOMAIN log, NEW own \in BOOLEAN
  PROVE  Settles([log EXCEPT ![i].pending = FALSE, ![i].waited = @ /\ ~own], i, own)
<1> DEFINE e == log[i]
           f == [e EXCEPT !.pending = FALSE]
           b == e.waited /\ ~own
           g == [f EXCEPT !.waited = b]
           M == [log EXCEPT ![i].pending = FALSE, ![i].waited = @ /\ ~own]
<1>1. log \in Logs /\ e \in Entry /\ b \in BOOLEAN
  BY InLog, Fields DEF InsertInv, Loop
<1>2. f \in Entry /\ f.conn = e.conn /\ f.msgs = e.msgs /\ f.pending = FALSE /\ f.waited = e.waited
  BY <1>1, Zenon DEF Entry
<1>3. M = [log EXCEPT ![i] = g]
  <2>1. PICK D \in SUBSET (Nat \ {0}) : log \in [D -> Entry]
    BY <1>1 DEF Logs
  <2> QED
    BY <2>1, <1>2
<1> HIDE DEF f, b
<1>4. g \in Entry /\ g.conn = e.conn /\ g.msgs = e.msgs /\ g.pending = FALSE /\ g.waited = b
  BY <1>1, <1>2, Zenon DEF Entry
<1> HIDE DEF g, M
<1>5. PICK D \in SUBSET (Nat \ {0}) : log \in [D -> Entry]
  BY <1>1 DEF Logs
<1>6. M \in [DOMAIN log -> Entry] /\ M[i] = g /\ \A j \in DOMAIN log : j # i => M[j] = log[j]
  BY <1>3, <1>4, <1>5
<1>7. Weaker(log, M)
  <2> SUFFICES ASSUME NEW j \in DOMAIN log
               PROVE  /\ M[j].conn = log[j].conn /\ M[j].msgs = log[j].msgs
                      /\ M[j].pending => log[j].pending
    BY <1>6 DEF Weaker
  <2> QED
    BY <1>4, <1>6, Zenon
<1> QED
  BY <1>4, <1>6, <1>7, Zenon DEF Settles, M, b

\* The messages of c are in order when n more of them have been applied.
IsApplied(s, c, B, n) ==
  /\ InOrder(s, c, B) /\ (InLine(Loop, c, applied) => InLine(s, c, B))
  /\ Len(B[c]) = Len(applied[c]) + n

\* Applying the oldest pending entry keeps the messages of its connection in order.
LEMMA Applying ==
  ASSUME InsertInv, NEW i \in DOMAIN log, log[i].pending,
         \A j \in DOMAIN log : log[j].pending => i <= j,
         NEW own \in BOOLEAN, NEW M, Settles(M, i, own), NEW c, c = log[i].conn,
         NEW s, s.log = Unsettled(M), s.conn[c].received = conn[c].received,
         s.conn[c].buffer = conn[c].buffer, s.conn[c].batch = conn[c].batch,
         NEW B, B[c] = applied[c] \o log[i].msgs
  PROVE  IsApplied(s, c, B, Len(log[i].msgs))
<1> DEFINE m == log[i].msgs
           seen == conn[c].received \div 2
           K == Unsettled(M)
<1>1. /\ log \in Logs /\ HasLast(log) /\ c \in Conns /\ m \in Seq(Message)
      /\ applied[c] \in Seq(Message) /\ DOMAIN log \subseteq Nat
  <2>1. log \in Logs /\ HasLast(log) /\ applied \in [Conns -> Seq(Message)]
    BY Fields DEF InsertInv, Loop
  <2> QED
    BY <2>1, InLog
<1>2. /\ InOrder(Loop, c, applied) /\ Loop.conn = conn /\ Loop.log = log
  BY <1>1, AtRest
<1>3. Weaker(log, M) /\ DOMAIN M = DOMAIN log
  BY DEF Settles, Weaker
<1>4. /\ Pending(K, c) = Pending(M, c)
      /\ \A j \in Pending(M, c) : K[j].msgs = M[j].msgs
  BY <1>1, <1>3, Weakening
\* What is pending now was pending, and is later than i.
<1>5. \A j \in Pending(K, c) : j \in Pending(log, c) /\ i < j /\ K[j].msgs = log[j].msgs
  <2> SUFFICES ASSUME NEW j \in Pending(M, c)
               PROVE  j \in Pending(log, c) /\ i < j /\ M[j].msgs = log[j].msgs
    BY <1>4
  <2>1. j \in DOMAIN log /\ M[j].conn = c /\ M[j].pending
    BY <1>3 DEF Pending
  <2>2. j # i /\ M[j] = log[j]
    BY <2>1 DEF Settles
  <2>3. log[j].pending /\ log[j].conn = c
    BY <2>1, <2>2
  <2>4. i <= j
    BY <2>1, <2>3
  <2> QED
    BY <1>1, <2>1, <2>2, <2>3, <2>4 DEF Pending
<1>6. i \in Pending(log, c)
  BY DEF Pending
<1> HIDE DEF m, seen, K
<1>7. /\ Increasing(applied[c]) /\ UpTo(applied[c], seen)
      /\ \A j \in Pending(log, c) : /\ Increasing(log[j].msgs) /\ Below(applied[c], log[j].msgs)
                                    /\ UpTo(log[j].msgs, seen)
      /\ \A j, l \in Pending(log, c) : j < l => Below(log[j].msgs, log[l].msgs)
  BY <1>2 DEF InOrder, seen
<1>8. Increasing(m) /\ Below(applied[c], m) /\ UpTo(m, seen)
  BY <1>6, <1>7 DEF m
<1>9. B[c] = applied[c] \o m
  BY DEF m
<1>10. Increasing(B[c]) /\ UpTo(B[c], seen) /\ Len(B[c]) = Len(applied[c]) + Len(m)
  <2>1. Increasing(applied[c] \o m) /\ Len(applied[c] \o m) = Len(applied[c]) + Len(m)
    BY <1>1, <1>7, <1>8, ConcatInOrder
  <2>2. \A n : UpTo(applied[c], n) /\ UpTo(m, n) => UpTo(applied[c] \o m, n)
    BY <1>1, ConcatInOrder
  <2> QED
    BY <1>7, <1>8, <1>9, <2>1, <2>2
<1>11. \A x : Below(applied[c], x) /\ Below(m, x) => Below(B[c], x)
  <2>1. \A x : Below(applied[c], x) /\ Below(m, x) => Below(applied[c] \o m, x)
    BY <1>1, ConcatInOrder
  <2> QED
    BY <1>9, <2>1
<1>12. \A j \in Pending(K, c) : /\ Increasing(K[j].msgs) /\ Below(B[c], K[j].msgs)
                                /\ UpTo(K[j].msgs, seen)
  <2>1. \A j \in Pending(K, c) : Below(m, K[j].msgs)
    BY <1>5, <1>6, <1>7 DEF m
  <2> QED
    BY <1>5, <1>7, <1>11, <2>1
<1>13. \A j, l \in Pending(K, c) : j < l => Below(K[j].msgs, K[l].msgs)
  BY <1>5, <1>7
<1>14. ASSUME NEW q, Later(Loop, c, applied, q)
       PROVE  Later(s, c, B, q)
  <2>1. /\ q \in Seq(Message) /\ Increasing(q) /\ Below(applied[c], q) /\ UpTo(q, seen)
        /\ \A j \in Pending(log, c) : Below(log[j].msgs, q)
    BY <1>2, <1>14 DEF Later, seen
  <2>2. Below(B[c], q)
    BY <1>6, <1>11, <2>1 DEF m
  <2>3. \A j \in Pending(K, c) : Below(K[j].msgs, q)
    BY <1>5, <2>1
  <2> QED
    BY <2>1, <2>2, <2>3 DEF Later, K, seen
<1>15. InOrder(s, c, B)
  <2>1. Later(s, c, B, conn[c].batch)
    BY <1>2, <1>14 DEF InOrder
  <2> QED
    BY <1>10, <1>12, <1>13, <2>1 DEF InOrder, K, seen
<1>16. InLine(Loop, c, applied) => InLine(s, c, B)
  BY <1>2, <1>14 DEF InLine
<1> QED
  BY <1>10, <1>15, <1>16 DEF IsApplied, m

\* FsmApply, and serverApplyCb on the leader that proposed the entry.
LEMMA FsmApplyKeeps ==
  ASSUME InsertInv, NEW i \in DOMAIN log, FsmApply(i)
  PROVE  /\ InsertInv'
         /\ \A d \in Conns : Tells(Loop, Loop', d) \/ Acknowledges(Loop, Loop', d)
<1> DEFINE e == log[i]
           c == e.conn
           n == Len(e.msgs)
           own == e.waited /\ conn[c].node = leader
           M == [log EXCEPT ![i].pending = FALSE, ![i].waited = @ /\ ~own]
<1>1. /\ log \in Logs /\ HasLast(log) /\ applied \in [Conns -> Seq(Message)]
      /\ Loop \in LoopState
  BY Fields DEF InsertInv, Loop
<1>2. c \in Conns /\ e.msgs \in Seq(Message) /\ n \in Nat /\ own \in BOOLEAN /\ e.waited \in BOOLEAN
  BY <1>1, InLog, LenProperties
<1>3. PICK s \in IF own THEN ServerApplyCb(Loop, c, n) ELSE {Loop} :
        Commit([s EXCEPT !.log = Unsettled(M)])
  BY DEF FsmApply
<1>4. /\ applied' = [applied EXCEPT ![c] = @ \o e.msgs] /\ e.pending /\ leader \in Running
      /\ \A j \in DOMAIN log : log[j].pending => i <= j
      /\ server' = server /\ raft_leaders' = raft_leaders /\ leader' = leader
      /\ elections' = elections
  BY DEF FsmApply, raftVars
<1>5. Settles(M, i, own)
  BY <1>2, Settling
<1> HIDE DEF M, n, own
<1>6. Weaker(log, M) /\ DOMAIN M = DOMAIN log
  BY <1>5 DEF Settles, Weaker
<1>7. /\ own => Answered(s, c, n)
      /\ ~own => s = Loop
  BY <1>2, <1>3, Answering
<1>8. Apart(Loop, s, c) /\ s.log = log /\ s \in LoopState
  <2>1. Apart(Loop, Loop, c) /\ Loop.log = log
    BY <1>1 DEF Apart, Fewer, Loop
  <2> QED
    BY <1>7, <2>1 DEF Answered, Apart
<1>9. /\ Loop' = [conn |-> s.conn, log |-> Unsettled(M), replies |-> s.replies]
      /\ Loop'.conn = s.conn /\ Loop'.log = Unsettled(M) /\ Loop'.replies = s.replies
      /\ log' = Unsettled(M)
  <2>1. s = [conn |-> s.conn, log |-> s.log, replies |-> s.replies]
    BY <1>8, Fields
  <2>2. [s EXCEPT !.log = Unsettled(M)]
          = [conn |-> s.conn, log |-> Unsettled(M), replies |-> s.replies]
    BY <2>1
  <2> QED
    BY <1>3, <2>2 DEF Commit, Loop
<1>10. Loop' \in LoopState /\ HasLast(log')
  <2>1. Unsettled(M) \in Logs /\ HasLast(Unsettled(M))
    BY <1>1, <1>6, Weakening
  <2>2. s.conn \in [Conns -> Conn] /\ s.replies \in [Conns -> Replies]
    BY <1>8, Fields
  <2> QED
    BY <1>9, <2>1, <2>2 DEF LoopState, Replies
<1>11. applied' \in [Conns -> Seq(Message)] /\ applied'[c] = applied[c] \o e.msgs
       /\ \A d \in Conns \ {c} : applied'[d] = applied[d]
  <2>1. applied[c] \o e.msgs \in Seq(Message)
    BY <1>1, <1>2
  <2> QED
    BY <1>1, <1>2, <1>4, <2>1
\* The entries of c that are waited for.
<1>12. /\ Awaited(Unsettled(M), c) = Awaited(log, c) \ (IF own THEN {i} ELSE {})
       /\ own => i \in Awaited(log, c)
       /\ \A d \in Conns \ {c} : Awaited(Unsettled(M), d) = Awaited(log, d)
  <2>1. \A d : Awaited(Unsettled(M), d) = Awaited(M, d)
    BY <1>1, <1>6, Weakening
  <2>2. \A d, j : j \in Awaited(M, d) <=> j \in DOMAIN log /\ log[j].conn = d /\ M[j].waited
    BY <1>6, Zenon DEF Awaited, Weaker
  <2>3. \A j \in DOMAIN log : M[j].waited <=> log[j].waited /\ ~(j = i /\ own)
    BY <1>5, Zenon DEF Settles
  <2>4. own => i \in Awaited(log, c)
    BY DEF Awaited, own
  <2>5. \A d, j : j \in Awaited(M, d) <=> j \in Awaited(log, d) /\ ~(j = i /\ own)
    BY <2>2, <2>3, Zenon DEF Awaited
  <2>6. \A d \in Conns \ {c} : i \notin Awaited(log, d)
    BY DEF Awaited
  <2>7. Awaited(M, c) = Awaited(log, c) \ (IF own THEN {i} ELSE {})
    BY <2>5
  <2>8. \A d \in Conns \ {c} : Awaited(M, d) = Awaited(log, d)
    BY <2>5, <2>6
  <2> QED
    BY <2>1, <2>4, <2>7, <2>8
<1>13. Cardinality(Awaited(Unsettled(M), c)) = Cardinality(Awaited(log, c)) - One(own)
       /\ Cardinality(Awaited(log, c)) \in Nat
  <2>1. IsFiniteSet(Awaited(log, c)) /\ Cardinality(Awaited(log, c)) \in Nat
    BY <1>1, AwaitedFinite
  <2>2. CASE own
    <3>1. Awaited(Unsettled(M), c) = Awaited(log, c) \ {i} /\ i \in Awaited(log, c)
      BY <1>12, <2>2
    <3>2. Cardinality(Awaited(log, c) \ {i}) = Cardinality(Awaited(log, c)) - 1
      BY <2>1, <3>1, FS_RemoveElement
    <3> QED
      BY <2>1, <2>2, <3>1, <3>2 DEF One
  <2>3. CASE ~own
    <3>1. Awaited(Unsettled(M), c) = Awaited(log, c)
      BY <1>12, <2>3
    <3> QED
      BY <2>1, <2>3, <3>1 DEF One
  <2> QED
    BY <2>2, <2>3
<1> HIDE DEF e
<1>14. ASSUME NEW d \in Conns \ {c}
       PROVE  Settled(Loop', d, applied')
  <2>1. /\ Settled(Loop, d, applied) /\ Loop.conn = conn /\ Loop.log = log /\ Loop.replies = replies
        /\ Dated(Loop, d) /\ RefsCounted(Loop, d) /\ Tidy(Loop, d)
    BY AtRest
  <2>2. s.conn[d] = conn[d] /\ s.replies[d] = replies[d]
    BY <1>8, <2>1 DEF Apart
  <2>3. Fewer(log, Unsettled(M), d) /\ Awaited(Unsettled(M), d) = Awaited(log, d)
    BY <1>1, <1>6, <1>12, Weakening
  <2>4. SameMessages(Loop, Loop', d)
    BY <1>9, <2>1, <2>2, <2>3 DEF SameMessages
  <2>5. Dated(Loop', d) /\ RefsCounted(Loop', d) /\ Tidy(Loop', d)
    BY <1>9, <2>1, <2>2, <2>3 DEF Dated, RefsCounted, Tidy, Partial
  <2> QED
    BY <1>9, <1>11, <2>1, <2>2, <2>4, <2>5, Staying
<1>15. Settled(Loop', c, applied')
  <2>1. /\ Settled(Loop, c, applied) /\ Loop.conn = conn /\ Loop.log = log /\ Loop.replies = replies
        /\ Dated(Loop, c) /\ RefsCounted(Loop, c) /\ Tidy(Loop, c) /\ conn[c] \in Conn
        /\ (conn[c].listed => InLine(Loop, c, applied))
        /\ AckCount(replies[c]) <= Len(applied[c])
        /\ AckCount(replies[c]) \in Nat
    <3>1. replies[c] \in Replies /\ Good(Loop, c, applied)
      BY <1>2, AtRest
    <3>2. AckCount(replies[c]) <= Len(applied[c])
      BY <3>1 DEF Good, Loop
    <3> QED
      BY <1>2, <3>1, <3>2, AtRest, AcksBesideRedirect
  <2>2. /\ s.conn[c].received = conn[c].received /\ s.conn[c].is_paused = conn[c].is_paused
        /\ s.conn[c].redirecting = conn[c].redirecting
        /\ s.conn[c].buffer = conn[c].buffer /\ s.conn[c].batch = conn[c].batch
        /\ \/ s.conn[c].handle = conn[c].handle /\ s.conn[c].listed = conn[c].listed
           \/ conn[c].handle = "open" /\ s.conn[c].handle = "closing" /\ ~s.conn[c].listed
    BY <1>7, <2>1 DEF Answered
  <2>3. /\ s.conn[c].ref_count - s.conn[c].acks = conn[c].ref_count - conn[c].acks - One(own)
        /\ AckCount(s.replies[c]) <= Len(applied[c]) + n
        /\ s.conn[c].ref_count \in Int /\ s.conn[c].acks \in Int
        /\ conn[c].ref_count \in Int /\ conn[c].acks \in Int
    <3>1. s.conn[c] \in Conn
      BY <1>2, <1>8, Fields
    <3>2. /\ s.conn[c].ref_count \in Int /\ s.conn[c].acks \in Int
          /\ conn[c].ref_count \in Int /\ conn[c].acks \in Int
      BY <2>1, <3>1, ConnFields
    <3>3. s.replies[c] \in Replies
      BY <1>2, <1>8, Fields
    <3>4. AckCount(s.replies[c]) \in Nat /\ Len(applied[c]) \in Nat
      BY <1>2, <1>1, <3>3, AcksBesideRedirect, LenProperties
    <3>5. CASE own
      BY <1>2, <1>7, <2>1, <3>2, <3>4, <3>5 DEF Answered, One
    <3>6. CASE ~own
      BY <1>2, <1>7, <2>1, <3>2, <3>4, <3>6 DEF One
    <3> QED
      BY <3>2, <3>5, <3>6
  <2>4. /\ InOrder(Loop', c, applied') /\ (InLine(Loop, c, applied) => InLine(Loop', c, applied'))
        /\ Len(applied'[c]) = Len(applied[c]) + n
    <3> DEFINE r == Loop'
               B == applied'
    <3>1. /\ r.log = Unsettled(M) /\ r.conn[c].received = conn[c].received
          /\ r.conn[c].buffer = conn[c].buffer /\ r.conn[c].batch = conn[c].batch
          /\ B[c] = applied[c] \o log[i].msgs /\ c = log[i].conn
      BY <1>9, <1>11, <2>2 DEF e
    <3>2. log[i].pending /\ \A j \in DOMAIN log : log[j].pending => i <= j
      BY <1>4 DEF e
    <3> HIDE DEF r, B
    <3>3. IsApplied(r, c, B, Len(log[i].msgs))
      BY <1>2, <1>5, <3>1, <3>2, Applying
    <3> QED
      BY <3>3 DEF IsApplied, r, B, n, e
  <2>5. RefsCounted(Loop', c)
    <3>1. conn[c].ref_count = One(conn[c].handle \in {"open", "closing"})
            + Cardinality(Awaited(log, c)) + conn[c].acks + One(conn[c].redirecting)
      BY <2>1 DEF RefsCounted
    <3>2. /\ One(s.conn[c].handle \in {"open", "closing"})
             = One(conn[c].handle \in {"open", "closing"})
          /\ One(s.conn[c].redirecting) = One(conn[c].redirecting)
      BY <2>2
    <3>3. /\ One(conn[c].handle \in {"open", "closing"}) \in Int
          /\ One(conn[c].redirecting) \in Int /\ One(own) \in Int
      BY DEF One
    <3>4. s.conn[c].ref_count = One(s.conn[c].handle \in {"open", "closing"})
            + Cardinality(Awaited(Unsettled(M), c)) + s.conn[c].acks + One(s.conn[c].redirecting)
      <4> DEFINE a == One(conn[c].handle \in {"open", "closing"})
                 b == One(conn[c].redirecting)
                 o == One(own)
                 p == Cardinality(Awaited(log, c))
                 q == Cardinality(Awaited(Unsettled(M), c))
      <4>1. /\ a \in Int /\ b \in Int /\ o \in Int /\ p \in Int /\ q = p - o
            /\ conn[c].ref_count = a + p + conn[c].acks + b
        BY <1>13, <2>3, <3>1, <3>3
      <4> DEFINE x == s.conn[c].ref_count
                 y == s.conn[c].acks
                 z == conn[c].acks
      <4>2. x - y = conn[c].ref_count - z - o /\ x \in Int /\ y \in Int /\ z \in Int
        BY <2>3
      <4>3. conn[c].ref_count = a + p + z + b
        BY <4>1
      <4> HIDE DEF a, b, o, p, q, x, y, z
      <4>4. x = a + q + y + b
        <5> DEFINE k == conn[c].ref_count
        <5>1. x - y = k - z - o /\ k = a + p + z + b /\ q = p - o
          BY <4>1, <4>2, <4>3
        <5> HIDE DEF k
        <5>2. /\ x \in Int /\ y \in Int /\ z \in Int /\ a \in Int /\ b \in Int /\ o \in Int
              /\ p \in Int /\ k \in Int /\ q \in Int
          BY <4>1, <4>2, <5>1
        <5> QED
          BY <5>1, <5>2
      <4>5. s.conn[c].ref_count = a + q + s.conn[c].acks + b
        BY <4>4 DEF x, y
      <4> QED
        BY <3>2, <4>5 DEF a, b, q
    <3> QED
      BY <1>9, <3>4 DEF RefsCounted
  <2>6. Dated(Loop', c)
    <3>1. CASE ~own
      BY <1>7, <1>9, <2>1, <3>1 DEF Dated
    <3>2. CASE own
      <4>1. conn[c].handle # "none"
        BY <1>2, <1>12, <3>2, NoneWaited
      <4> QED
        BY <1>9, <2>1, <2>2, <4>1 DEF Dated
    <3> QED
      BY <3>1, <3>2
  <2>7. Tidy(Loop', c)
    BY <1>9, <2>1, <2>2 DEF Tidy, Partial
  <2>8. AckCount(Loop'.replies[c]) <= Len(applied'[c])
    BY <1>9, <2>3, <2>4
  <2>9. Loop'.conn[c].listed => InLine(Loop', c, applied')
    BY <1>9, <2>1, <2>2, <2>4
  <2> QED
    BY <2>4, <2>5, <2>6, <2>7, <2>8, <2>9 DEF Settled, Good
<1>16. Sheltered'
  <2>1. PICK d \in Rotates(leader) :
          immutable_count' = [immutable_count EXCEPT ![leader] = @ + d]
    BY DEF FsmApply
  <2>2. leader \in Nodes /\ Sheltered /\ MaxImmutables \in Nat
    BY <1>4, InsertConstants DEF InsertInv, Running
  <2>3. immutable_count[leader] + d \in Nat /\ immutable_count[leader] + d <= MaxImmutables
    BY <2>2 DEF Rotates, Sheltered
  <2> QED
    BY <1>4, <2>1, <2>2, <2>3 DEF Sheltered
<1>17. ASSUME NEW d \in Conns
       PROVE  Tells(Loop, Loop', d) \/ Acknowledges(Loop, Loop', d)
  <2>1. Loop.conn = conn /\ Loop.replies = replies
    BY DEF Loop
  <2>2. CASE d # c
    <3>1. s.conn[d] = conn[d] /\ s.replies[d] = replies[d]
      BY <1>8, <2>1, <2>2 DEF Apart
    <3> QED
      BY <1>9, <2>1, <3>1 DEF Tells
  <2>3. CASE d = c /\ own
    <3>1. Answered(s, c, n)
      BY <1>7, <2>3
    <3>2. /\ s.conn[c].received = conn[c].received
          /\ s.conn[c].redirecting = conn[c].redirecting
          /\ \/ s.conn[c].handle = conn[c].handle
             \/ conn[c].handle = "open" /\ s.conn[c].handle = "closing"
          /\ \/ s.replies[c] = replies[c]
             \/ s.conn[c].handle = "open" /\ s.replies[c] = replies[c] \o AckBytes(n)
      BY <3>1 DEF Answered
    <3>3. CASE s.replies[c] = replies[c]
      BY <1>9, <2>1, <2>3, <3>2, <3>3 DEF Tells
    <3>4. CASE s.conn[c].handle = "open" /\ s.replies[c] = replies[c] \o AckBytes(n)
      BY <1>2, <1>9, <2>1, <2>3, <3>2, <3>4 DEF Acknowledges
    <3> QED
      BY <3>2, <3>3, <3>4
  <2>4. CASE d = c /\ ~own
    BY <1>7, <1>9, <2>1, <2>4 DEF Tells
  <2> QED
    BY <2>2, <2>3, <2>4
<1> QED
  BY <1>4, <1>10, <1>11, <1>14, <1>15, <1>16, <1>17 DEF InsertInv

\* What the acceptance of c may do: redirect its peer.
Greets(c) ==
  /\ conn'[c].handle # "none" /\ conn'[c].received = 0
  /\ \/ replies'[c] = replies[c]
     \/ /\ replies'[c] = Append(replies[c], "redirect")
        /\ conn'[c].handle = "open" => conn'[c].redirecting

\* on_insert_connection.
LEMMA InsertConnectionKeeps ==
  ASSUME InsertInv, NEW c \in Conns, NEW n \in Nodes, OnInsertConnection(c, n)
  PROVE  InsertInv' /\ Greets(c) /\ \A d \in Conns \ {c} : Tells(Loop, Loop', d)
<1> DEFINE v == [NoConn EXCEPT !.handle = "open", !.node = n, !.ref_count = 1]
           w == [v EXCEPT !.listed = TRUE]
           new == [Loop EXCEPT !.conn[c] = v]
           s == [new EXCEPT !.conn[c].listed = TRUE]
<1>1. /\ Loop \in LoopState /\ HasLast(Loop.log) /\ Settled(Loop, c, applied)
      /\ Loop.conn = conn /\ Loop.log = log /\ Loop.replies = replies
      /\ conn \in [Conns -> Conn] /\ conn[c].handle = "none" /\ Good(Loop, c, applied)
  BY AtRest DEF OnInsertConnection
<1>2. conn[c] = NoConn /\ Cardinality(Awaited(log, c)) = 0
  BY <1>1, NoneWaited, FS_EmptySet
<1>3. /\ v \in Conn /\ v.handle = "open" /\ v.node = n /\ v.listed = FALSE /\ v.ref_count = 1
      /\ v.received = 0 /\ v.buffer = <<>> /\ v.batch = <<>> /\ v.is_paused = FALSE
      /\ v.redirecting = FALSE /\ v.acks = 0
  <2> DEFINE x == [NoConn EXCEPT !.handle = "open"]
             y == [x EXCEPT !.node = n]
  <2>1. NoConn \in Conn
    BY <1>1, <1>2
  <2>2. /\ NoConn.listed = FALSE /\ NoConn.received = 0 /\ NoConn.buffer = <<>>
        /\ NoConn.batch = <<>> /\ NoConn.is_paused = FALSE
        /\ NoConn.redirecting = FALSE /\ NoConn.acks = 0
    BY DEF NoConn
  <2>3. /\ x \in Conn /\ x.handle = "open" /\ x.listed = NoConn.listed
        /\ x.received = NoConn.received /\ x.buffer = NoConn.buffer /\ x.batch = NoConn.batch
        /\ x.is_paused = NoConn.is_paused /\ x.redirecting = NoConn.redirecting
        /\ x.acks = NoConn.acks
    BY <2>1 DEF Conn
  <2> HIDE DEF x
  <2>4. /\ y \in Conn /\ y.node = n /\ y.handle = "open" /\ y.listed = x.listed
        /\ y.received = x.received /\ y.buffer = x.buffer /\ y.batch = x.batch
        /\ y.is_paused = x.is_paused /\ y.redirecting = x.redirecting /\ y.acks = x.acks
    BY <2>3 DEF Conn
  <2>5. v = [y EXCEPT !.ref_count = 1]
    BY <2>1 DEF x, Conn
  <2> HIDE DEF y, v
  <2>6. /\ v \in Conn /\ v.ref_count = 1 /\ v.node = n /\ v.handle = "open"
        /\ v.listed = y.listed /\ v.received = y.received /\ v.buffer = y.buffer
        /\ v.batch = y.batch /\ v.is_paused = y.is_paused
        /\ v.redirecting = y.redirecting /\ v.acks = y.acks
    BY <2>4, <2>5, SMTT(30) DEF Conn
  <2> QED
    BY <2>2, <2>3, <2>4, <2>6
<1>4. w \in Conn /\ w.listed = TRUE /\ w.handle = "open" /\ w.ref_count = 1
      /\ w.received = 0 /\ w.buffer = <<>> /\ w.batch = <<>> /\ w.is_paused = FALSE
      /\ w.redirecting = FALSE /\ w.acks = 0
  <2> HIDE DEF v
  <2> QED
    BY <1>3 DEF Conn
<1>5. new = Set(Loop, c, v)
  BY <1>1 DEF Set
<1> HIDE DEF v, w, new
<1>6. Apart(Loop, new, c) /\ new.conn[c] = v /\ new.log = log /\ new.replies = replies
  <2>1. v \in Conn
    BY <1>3
  <2>2. IsSet(Loop, new, c, v)
    BY <1>1, <1>5, <2>1, Setting
  <2> QED
    BY <1>1, <2>2 DEF IsSet
<1>7. new \in LoopState /\ HasLast(new.log) /\ new.conn \in [Conns -> Conn]
  BY <1>6, Fields DEF Apart
<1>8. s = Set(new, c, w)
  BY <1>6, <1>7 DEF Set, w
<1> HIDE DEF s
<1>9. Apart(new, s, c) /\ s.conn[c] = w /\ s.log = log /\ s.replies = replies
  <2>1. w \in Conn
    BY <1>4
  <2>2. IsSet(new, s, c, w)
    BY <1>7, <1>8, <2>1, Setting
  <2> QED
    BY <1>6, <2>2 DEF IsSet
<1>10. conn[c].batch = <<>> /\ conn[c].received = 0 /\ <<>> \in Seq(Message) /\ DOMAIN <<>> = {}
  BY <1>2 DEF NoConn
\* A connection with the record x is in order.
<1>11. ASSUME NEW r, Apart(Loop, r, c), NEW b \in BOOLEAN, r.conn[c].listed = b, r.log = log,
              r.replies = replies, r.conn[c].handle = "open", r.conn[c].ref_count = 1,
              r.conn[c].received = 0, r.conn[c].buffer = <<>>, r.conn[c].batch = <<>>,
              ~r.conn[c].is_paused, ~r.conn[c].redirecting, r.conn[c].acks = 0
       PROVE  Settled(r, c, applied) /\ Good(r, c, applied) /\ InLine(r, c, applied)
  <2>1. SameMessages(Loop, r, c)
    BY <1>1, <1>10, <1>11 DEF SameMessages, Fewer
  <2>2. InOrder(r, c, applied)
    BY <2>1, OrderKept, <1>1 DEF Good
  <2>3. InLine(r, c, applied)
    BY <1>10, <1>11 DEF InLine, Later, Increasing, Below, UpTo
  <2>4. RefsCounted(r, c)
    BY <1>2, <1>11 DEF RefsCounted, One
  <2>5. Dated(r, c) /\ Tidy(r, c)
    BY <1>11, Messages DEF Dated, Tidy
  <2>6. AckCount(r.replies[c]) <= Len(applied[c])
    BY <1>1, <1>11 DEF Good
  <2> QED
    BY <2>2, <2>3, <2>4, <2>5, <2>6 DEF Settled, Good
<1>12. Settled(new, c, applied) /\ Good(new, c, applied) /\ InLine(new, c, applied)
  BY <1>3, <1>6, <1>11
<1>13. Apart(Loop, s, c) /\ Settled(s, c, applied)
  BY <1>4, <1>6, <1>9, <1>11, ApartTransitive
<1>14. CASE Commit(s)
  <2>1. InsertInv'
    BY <1>13, <1>14, Committing DEF OnInsertConnection
  <2>2. Greets(c)
    BY <1>4, <1>9, <1>14 DEF Greets, Commit
  <2> QED
    BY <1>13, <1>14, <2>1, <2>2, Talking
<1>15. CASE \E r \in Redirect(new, c) : Commit(r)
  <2>1. PICK r \in Redirect(new, c) : Commit(r)
    BY <1>15
  <2>2. Finished(new, r, c, applied)
    BY <1>3, <1>6, <1>7, <1>12, Redirecting DEF Behind
  <2>3. Apart(Loop, r, c) /\ Settled(r, c, applied)
    BY <1>6, <2>2, ApartTransitive DEF Finished
  <2>4. InsertInv'
    BY <2>1, <2>3, Committing DEF OnInsertConnection
  <2>5. Greets(c)
    BY <1>3, <1>6, <2>1, <2>2 DEF Greets, Commit, Finished, Tells
  <2> QED
    BY <2>1, <2>3, <2>4, <2>5, Talking
<1>16. CASE Commit(Close(new, c))
  <2>1. Finished(new, Close(new, c), c, applied)
    BY <1>3, <1>6, <1>7, <1>12, Shutting
  <2>2. Apart(Loop, Close(new, c), c) /\ Settled(Close(new, c), c, applied)
    BY <1>6, <2>1, ApartTransitive DEF Finished
  <2>3. InsertInv'
    BY <1>16, <2>2, Committing DEF OnInsertConnection
  <2>4. Greets(c)
    BY <1>3, <1>6, <1>16, <2>1 DEF Greets, Commit, Finished, Tells
  <2> QED
    BY <1>16, <2>2, <2>3, <2>4, Talking
<1>17. Commit(s) \/ (\E r \in Redirect(new, c) : Commit(r)) \/ Commit(Close(new, c))
  BY DEF OnInsertConnection, s, new, v
<1> QED
  BY <1>14, <1>15, <1>16, <1>17

\* unregister_immutable_memtable.
LEMMA MemtableFlushedKeeps ==
  ASSUME InsertInv, NEW n \in Nodes, MemtableFlushed(n)
  PROVE  InsertInv' /\ Talks
<1>1. Sheltered'
  BY InsertConstants DEF InsertInv, Sheltered, MemtableFlushed, connVars
<1> QED
  BY <1>1, QuietKeeps DEF MemtableFlushed, connVars, raftVars, Talks

---------------------------------------------------------------------------
(* The invariant.                                                          *)

\* The invariant holds when the servers start.
LEMMA InsertInit ==
  ASSUME Init
  PROVE  InsertInv
<1>1. /\ Loop = [conn |-> conn, log |-> log, replies |-> replies]
      /\ Loop.conn = conn /\ Loop.log = log /\ Loop.replies = replies
  BY DEF Loop
<1>2. DOMAIN <<>> = {} /\ <<>> \in Seq(Message) /\ <<>> \in Replies /\ Len(<<>>) = 0
  BY DEF Replies
<1>3. log \in Logs /\ HasLast(log) /\ DOMAIN log = {}
  <2>1. log \in [{} -> Entry] /\ {} \in SUBSET (Nat \ {0}) /\ DOMAIN log = {}
    BY DEF Init
  <2> QED
    BY <2>1 DEF Logs, HasLast
<1>4. NoConn \in Conn
  BY <1>2, InsertConstants DEF NoConn, Conn
<1>5. Loop \in LoopState
  BY <1>1, <1>2, <1>3, <1>4 DEF Init, LoopState, Replies
<1>6. applied \in [Conns -> Seq(Message)]
  BY <1>2 DEF Init
<1>7. ASSUME NEW c \in Conns
      PROVE  Settled(Loop, c, applied)
  <2>1. conn[c] = NoConn /\ applied[c] = <<>> /\ replies[c] = <<>>
    BY DEF Init
  <2>2. Pending(log, c) = {} /\ Awaited(log, c) = {}
    BY <1>3 DEF Pending, Awaited
  <2>3. /\ NoConn.handle = "none" /\ NoConn.listed = FALSE /\ NoConn.ref_count = 0
        /\ NoConn.received = 0 /\ NoConn.buffer = <<>> /\ NoConn.batch = <<>>
        /\ NoConn.is_paused = FALSE /\ NoConn.redirecting = FALSE /\ NoConn.acks = 0
    BY DEF NoConn
  <2>4. Dated(Loop, c) /\ Tidy(Loop, c)
    BY <1>1, <2>1, <2>3, Messages DEF Dated, Tidy
  <2>5. RefsCounted(Loop, c)
    <3>1. Cardinality(Awaited(log, c)) = 0
      BY <2>2, FS_EmptySet
    <3> QED
      BY <1>1, <2>1, <2>3, <3>1 DEF RefsCounted, One
  <2>6. InOrder(Loop, c, applied)
    BY <1>1, <1>2, <2>1, <2>2, <2>3 DEF InOrder, Later, Increasing, Below, UpTo
  <2>7. AckCount(replies[c]) = 0
    <3>1. {i \in DOMAIN replies[c] : replies[c][i] = "ack"} = {}
      BY <1>2, <2>1
    <3> QED
      BY <3>1, FS_EmptySet DEF AckCount
  <2> QED
    BY <1>1, <1>2, <2>1, <2>3, <2>4, <2>5, <2>6, <2>7 DEF Settled, Good
<1>8. Sheltered
  BY InsertConstants DEF Init, Sheltered
<1> QED
  BY <1>3, <1>5, <1>6, <1>7, <1>8 DEF InsertInv, Init

\* Every step of the cluster keeps the invariant.
LEMMA InsertStep ==
  ASSUME InsertInv, [Next]_vars
  PROVE  InsertInv'
<1>1. CASE \E c \in Conns : ServerStep(c)
  <2>1. PICK c \in Conns : ServerStep(c)
    BY <1>1
  <2> QED
    BY <2>1, ClientEndKeeps, ClientDroppedKeeps, StatsTimerKeeps, AckWriteCompleteKeeps,
       RedirectWriteCompleteKeeps, ClientCloseKeeps, ClientReadKeeps DEF ServerStep
<1>2. CASE \E c \in Conns : \E n \in Nodes : OnInsertConnection(c, n)
  BY <1>2, InsertConnectionKeeps
<1>3. CASE \E n \in Nodes : NodeStep(n)
  <2>1. PICK n \in Nodes : NodeStep(n)
    BY <1>3
  <2> QED
    BY <2>1, ServerCloseKeeps, LsmtFlushReturnsKeeps, MemtableFlushedKeeps, StepDownKeeps,
       ElectKeeps DEF NodeStep
<1>4. CASE \E i \in DOMAIN log : FsmApply(i)
  BY <1>4, FsmApplyKeeps
<1>5. CASE UNCHANGED vars
  <2>1. Loop' = Loop /\ applied' = applied /\ log' = log
    BY <1>5 DEF Loop, vars
  <2>2. \A c \in Conns : Settled(Loop', c, applied')
    BY <2>1 DEF InsertInv
  <2> QED
    BY <1>5, <2>1, <2>2 DEF InsertInv, Sheltered, vars
<1>6. CASE Stopped
  BY <1>5, <1>6 DEF Stopped
<1> QED
  BY <1>1, <1>2, <1>3, <1>4, <1>5, <1>6 DEF Next

\* InsertInv holds in every reachable state.
LEMMA Invariance == Spec => []InsertInv
<1>1. Init => InsertInv
  BY InsertInit
<1>2. InsertInv /\ [Next]_vars => InsertInv'
  BY InsertStep
<1> QED
  BY <1>1, <1>2, PTL DEF Spec

---------------------------------------------------------------------------
(* The theorems.                                                           *)

\* Every variable of the insert ports has its type, and however leaders change
\* the array of a server's immutable memtables overflows nowhere but in ServerClose,
\* whose lsmt_flush does not look whether there is room: lsmt_insert waits for it.
THEOREM InsertTypeCorrect == Spec => []TypeOK
<1>1. InsertInv => TypeOK
  <2> SUFFICES ASSUME InsertInv PROVE TypeOK
    OBVIOUS
  <2>1. /\ conn \in [Conns -> Conn] /\ log \in Logs
        /\ replies \in [Conns -> Seq({"ack", "redirect"})]
    BY Fields DEF InsertInv, Loop, Replies
  <2>2. DOMAIN log \subseteq Nat \ {0} /\ \A i \in DOMAIN log : log[i] \in Entry
    BY <2>1, InLog
  <2> QED
    BY <2>1, <2>2 DEF InsertInv, Sheltered, TypeOK
<1> QED
  BY <1>1, Invariance, PTL

\* serverApplyCb: a peer is never sent more acknowledgements than messages of its own
\* went through FsmApply, for every number of servers, connections and elections.
THEOREM AcknowledgedIsApplied == Spec => []AckMeansApplied
<1>1. InsertInv => AckMeansApplied
  <2> SUFFICES ASSUME InsertInv, NEW c \in Conns PROVE Acks(c) <= Len(applied[c])
    BY DEF AckMeansApplied
  <2>1. Good(Loop, c, applied) /\ Loop.replies = replies
    BY AtRest
  <2> QED
    BY <2>1 DEF Good, AckCount, Acks
<1> QED
  BY <1>1, Invariance, PTL

\* process_insert_buffer and raft_apply: the messages of a connection are applied
\* at most once and in the order in which they were sent, whatever the size of a
\* batch and however leaders change.
THEOREM MessagesAreAppliedInOrder == Spec => []AppliedInOrder
<1>1. InsertInv => AppliedInOrder
  <2> SUFFICES ASSUME InsertInv, NEW c \in Conns PROVE Increasing(applied[c])
    BY DEF AppliedInOrder, Increasing
  <2> QED
    BY AtRest DEF InOrder
<1> QED
  BY <1>1, Invariance, PTL

\* client_retain and client_release: the references to a client are its open
\* handle, the entries it waits for and its pending writes.
THEOREM InsertClientsAreCounted == Spec => []RefCountExact
<1>1. InsertInv => RefCountExact
  <2> SUFFICES ASSUME InsertInv, NEW c \in Conns
               PROVE  conn[c].ref_count
                        = (IF conn[c].handle \in {"open", "closing"} THEN 1 ELSE 0)
                          + Cardinality({i \in DOMAIN log : log[i].conn = c /\ log[i].waited})
                          + conn[c].acks + (IF conn[c].redirecting THEN 1 ELSE 0)
    BY DEF RefCountExact
  <2>1. RefsCounted(Loop, c) /\ Loop.conn = conn /\ Loop.log = log
    BY AtRest
  <2> QED
    BY <2>1 DEF RefsCounted, Awaited, One
<1> QED
  BY <1>1, Invariance, PTL

\* process_insert_buffer and statsTimerCb: a batch waits only for messages that
\* are held back or incomplete, and messages wait only while reading is paused
\* or the peer is being redirected.
THEOREM NoMessageIsForgotten == Spec => []NothingLeftBehind
<1>1. InsertInv => NothingLeftBehind
  <2> SUFFICES ASSUME InsertInv, NEW c \in Conns, conn[c].handle = "open"
               PROVE  /\ conn[c].batch # <<>> => (conn[c].buffer # <<>> \/ Partial(Loop, c))
                      /\ conn[c].buffer # <<>> => (conn[c].is_paused \/ conn[c].redirecting)
    BY DEF NothingLeftBehind
  <2>1. Tidy(Loop, c) /\ Loop.conn = conn
    BY AtRest
  <2> QED
    BY <2>1 DEF Tidy
<1> QED
  BY <1>1, Invariance, PTL

====
