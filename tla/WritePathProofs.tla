-------------------------- MODULE WritePathProofs --------------------------
(***************************************************************************)
(* Proofs about a client's write thread on top of the insert ports.  The   *)
(* client counts bytes.  What they are depends on one reply, the redirect: *)
(* before it a byte is an acknowledgement, and after it nothing more is    *)
(* read, so that the acknowledgements that may still follow are bounded by *)
(* what had been sent when it was written.                                 *)
(***************************************************************************)
EXTENDS WritePath, InsertServiceProofs

---------------------------------------------------------------------------
(* The invariant.                                                          *)

Redirected(c, j) == j \in DOMAIN replies[c] /\ replies[c][j] = "redirect"

\* A peer is redirected at most once, and its server reads no more then.
Quiet(c) ==
  /\ conn[c].handle = "none" => replies[c] = <<>>
  /\ \A i, j : Redirected(c, i) /\ Redirected(c, j) => i = j
  /\ \A j : Redirected(c, j) => conn[c].handle # "open" \/ conn[c].redirecting

\* The records of the first n batches of a connection.
Records(n) == n * BatchLen

\* The batches of a connection were all read but for the last, and a server
\* receives only what was sent.
SocketInv(c) ==
  LET k == socket[c]
      m == Len(k.carries)
  IN  /\ k.state = "unused" => m = 0 /\ k.read = 0 /\ conn[c].handle = "none"
      /\ k.state # "unused" => k.node \in Nodes /\ m > 0 /\ Records(m - 1) <= k.read
      /\ k.state = "pooled" => k.read = Records(m)
      /\ k.read <= Records(m) /\ k.read <= Sent(c, Len(replies[c]))
      /\ conn[c].received <= 2 * Records(m)

\* A redirect was written when the k-th batch was the last one: later than the
\* bytes of those before, and its first byte was not taken for an
\* acknowledgement.
CutInv(c) ==
  LET m == Len(socket[c].carries)
  IN  \A j : Redirected(c, j) =>
        \E k \in 1..m : /\ conn[c].received <= 2 * Records(k) /\ Records(k - 1) < j
                        /\ j <= socket[c].read => Records(k - 1) + 1 < j

\* The batch the thread waits for is the last one of its socket.
Waiting(c) ==
  LET k == socket[c]
      m == Len(k.carries)
  IN  /\ c \in Conns /\ k.state = "busy" /\ k.carries[m] = writer.batch
      /\ k.read = Records(m - 1) + One(writer.pc = "rest")
      /\ writer.pc = "rest" /\ writer.clean => Stream(c)[k.read] = "ack"

WriterInv == writer.pc \in {"first", "rest"} => Waiting(writer.conn)

ClientTypes ==
  /\ writer \in Writer /\ registry \in Nodes \cup {NoNode}
  /\ socket \in [Conns -> Socket]

ConnInv(c) == Quiet(c) /\ SocketInv(c) /\ CutInv(c)

WriteInv ==
  /\ Nodes # {} /\ InsertInv /\ ClientTypes /\ WriterInv /\ CleanBatchIsApplied
  /\ \A c \in Conns : ConnInv(c)

---------------------------------------------------------------------------
(* What the client reads.                                                  *)

\* A redirect has a length.
LEMMA Lengths == RedirectLen \in Nat /\ RedirectLen > 0 /\ BatchLen \in Nat /\ BatchLen > 0
BY WriteConstants

\* A peer that was redirected at most once: q is what it was sent.
OneRedirect(q) ==
  q \in Replies /\ \A i, j \in DOMAIN q : q[i] = "redirect" /\ q[j] = "redirect" => i = j

\* How much the first n replies take.
LEMMA Sending ==
  ASSUME NEW c, OneRedirect(replies[c]), NEW n \in 0..Len(replies[c])
  PROVE  /\ (\A i \in 1..n : ~Redirected(c, i)) => Sent(c, n) = n
         /\ \A j \in 1..n : Redirected(c, j) => Sent(c, n) = (n - 1) + RedirectLen
<1> DEFINE q == replies[c]
           A == {i \in 1..n : q[i] = "ack"}
           R == {i \in 1..n : q[i] = "redirect"}
<1>1. /\ Len(q) \in Nat /\ DOMAIN q = 1..Len(q) /\ n \in Nat /\ 1..n \subseteq DOMAIN q
      /\ \A i \in DOMAIN q : q[i] \in {"ack", "redirect"}
  <2>1. q \in Replies
    BY DEF OneRedirect
  <2>2. Len(q) \in Nat /\ DOMAIN q = 1..Len(q) /\ \A i \in 1..Len(q) : q[i] \in {"ack", "redirect"}
    BY <2>1, LenProperties, ElementOfSeq DEF Replies
  <2> QED
    BY <2>2
<1>2. Sent(c, n) = Cardinality(A) + RedirectLen * Cardinality(R)
  BY DEF Sent
<1>3. IsFiniteSet(1..n) /\ Cardinality(1..n) = n
  BY <1>1, FS_Interval
<1>4. ASSUME \A i \in 1..n : ~Redirected(c, i)
      PROVE  Sent(c, n) = n
  <2>1. A = 1..n /\ R = {}
    BY <1>1, <1>4 DEF Redirected
  <2>2. Cardinality(R) = 0 /\ Cardinality(A) = n
    BY <1>3, <2>1, FS_EmptySet
  <2> HIDE DEF A, R
  <2> QED
    BY <1>1, <1>2, <2>2, Lengths
<1>5. ASSUME NEW j \in 1..n, Redirected(c, j)
      PROVE  Sent(c, n) = (n - 1) + RedirectLen
  <2>1. R = {j} /\ A = (1..n) \ {j}
    BY <1>1, <1>5 DEF Redirected, OneRedirect
  <2>2. Cardinality(R) = 1
    BY <2>1, FS_Singleton
  <2>3. Cardinality(A) = n - 1
    BY <1>1, <1>3, <2>1, FS_RemoveElement
  <2> HIDE DEF A, R
  <2> QED
    BY <1>1, <1>2, <2>2, <2>3, Lengths
<1> QED
  BY <1>4, <1>5

\* Where the bytes of a redirect are: the others are acknowledgements.
IsStream(c, st, q) ==
  /\ st \in Seq({"ack", "R", "text"}) /\ Len(st) = Sent(c, Len(q))
  /\ \A p \in 1..Len(st) :
       /\ st[p] = "ack" <=> \A j : Redirected(c, j) => p < j \/ p >= j + RedirectLen
       /\ st[p] = "R" <=> Redirected(c, p)
  /\ (\A j : ~Redirected(c, j)) => Len(st) = Len(q) /\ AckCount(q) = Len(q)
  /\ \A j : Redirected(c, j) => /\ j \in 1..Len(q) /\ AckCount(q) = Len(q) - 1
                                /\ Len(st) = (Len(q) - 1) + RedirectLen

\* The bytes of the replies, one after the other.
LEMMA Streaming ==
  ASSUME NEW c, OneRedirect(replies[c])
  PROVE  IsStream(c, Stream(c), replies[c])
<1> DEFINE q == replies[c]
           L == Sent(c, Len(q))
           In(p, i) == Sent(c, i - 1) < p /\ p <= Sent(c, i)
           pick(p) == CHOOSE i \in DOMAIN q : In(p, i)
           byte(p) == IF q[pick(p)] = "ack" THEN "ack"
                      ELSE IF p = Sent(c, pick(p) - 1) + 1 THEN "R" ELSE "text"
           st == [p \in 1..L |-> byte(p)]
<1>1. /\ Len(q) \in Nat /\ DOMAIN q = 1..Len(q) /\ q \in Replies
      /\ \A i \in DOMAIN q : q[i] \in {"ack", "redirect"}
      /\ \A i, j : Redirected(c, i) /\ Redirected(c, j) => i = j
      /\ \A j : Redirected(c, j) => j \in 1..Len(q)
  <2>1. q \in Replies
    BY DEF OneRedirect
  <2>2. Len(q) \in Nat /\ DOMAIN q = 1..Len(q) /\ \A i \in 1..Len(q) : q[i] \in {"ack", "redirect"}
    BY <2>1, LenProperties, ElementOfSeq DEF Replies
  <2> QED
    BY <2>1, <2>2 DEF OneRedirect, Redirected
<1>2. Stream(c) = st
  BY DEF Stream
<1>3. RedirectLen \in Nat /\ RedirectLen > 0
  BY Lengths
<1>4. \A n \in 0..Len(q) :
        /\ (\A i \in 1..n : ~Redirected(c, i)) => Sent(c, n) = n
        /\ \A j \in 1..n : Redirected(c, j) => Sent(c, n) = (n - 1) + RedirectLen
  BY Sending
<1>5. \A i \in 1..Len(q) : q[i] = "ack" <=> ~Redirected(c, i)
  BY <1>1 DEF Redirected
<1>6. 0 \in 0..Len(q) /\ Len(q) \in 0..Len(q) /\ \A i \in 1..Len(q) : i \in 0..Len(q) /\ i - 1 \in 0..Len(q)
  BY <1>1
<1> HIDE DEF q, L
\* Without a redirect.
<1>7. ASSUME \A j : ~Redirected(c, j)
      PROVE  L = Len(q) /\ \A p \in 1..L : byte(p) = "ack"
  <2>1. L = Len(q)
    BY <1>4, <1>6, <1>7 DEF L
  <2>2. ASSUME NEW p \in 1..L
        PROVE  byte(p) = "ack"
    <3>1. In(p, p) /\ p \in DOMAIN q
      BY <1>1, <1>4, <1>6, <1>7, <2>1
    <3>2. pick(p) \in DOMAIN q
      BY <3>1
    <3> HIDE DEF pick
    <3> QED
      BY <1>1, <1>5, <1>7, <3>2
  <2> QED
    BY <2>1, <2>2
\* With one.
<1>8. ASSUME NEW j, Redirected(c, j)
      PROVE  /\ L = (Len(q) - 1) + RedirectLen
             /\ \A p \in 1..L : /\ byte(p) \in {"ack", "R", "text"}
                                /\ byte(p) = "ack" <=> p < j \/ p >= j + RedirectLen
                                /\ byte(p) = "R" <=> p = j
  <2>1. j \in 1..Len(q) /\ \A i : Redirected(c, i) <=> i = j
    BY <1>1, <1>8
  <2>2. L = (Len(q) - 1) + RedirectLen
    BY <1>4, <1>6, <1>8, <2>1 DEF L
  <2>3. \A n \in 0..Len(q) : Sent(c, n) = IF n < j THEN n ELSE (n - 1) + RedirectLen
    <3>1. ASSUME NEW n \in 0..Len(q), n < j
          PROVE  Sent(c, n) = n
      BY <1>1, <1>4, <2>1, <3>1
    <3>2. ASSUME NEW n \in 0..Len(q), ~(n < j)
          PROVE  Sent(c, n) = (n - 1) + RedirectLen
      <4>1. j \in 1..n
        BY <1>1, <2>1, <3>2
      <4> QED
        BY <1>4, <1>8, <4>1
    <3> QED
      BY <3>1, <3>2
  <2>4. ASSUME NEW p \in 1..L
        PROVE  /\ byte(p) \in {"ack", "R", "text"}
               /\ byte(p) = "ack" <=> p < j \/ p >= j + RedirectLen
               /\ byte(p) = "R" <=> p = j
    <3>1. \E i \in DOMAIN q : In(p, i)
      <4>1. CASE p < j
        <5>1. p \in DOMAIN q /\ In(p, p)
          BY <1>1, <2>1, <2>3, <4>1
        <5> QED
          BY <5>1
      <4>2. CASE p >= j /\ p < j + RedirectLen
        <5>1. j \in DOMAIN q /\ In(p, j)
          BY <1>1, <1>3, <2>1, <2>3, <4>2
        <5> QED
          BY <5>1
      <4>3. CASE p >= j + RedirectLen
        <5> DEFINE i == (p - RedirectLen) + 1
        <5>1. i \in DOMAIN q /\ In(p, i)
          BY <1>1, <1>3, <2>1, <2>2, <2>3, <4>3
        <5> QED
          BY <5>1
      <4> QED
        BY <1>1, <1>3, <2>1, <4>1, <4>2, <4>3
    <3>2. PICK i : i = pick(p)
      OBVIOUS
    <3>3. i \in DOMAIN q /\ In(p, i)
      BY <3>1, <3>2
    <3>4. byte(p) = IF q[i] = "ack" THEN "ack" ELSE IF p = Sent(c, i - 1) + 1 THEN "R" ELSE "text"
      BY <3>2
    <3> HIDE DEF pick, byte
    <3>5. i \in 1..Len(q) /\ (q[i] = "ack" <=> i # j) /\ i \in 0..Len(q) /\ i - 1 \in 0..Len(q)
      BY <1>1, <1>5, <1>6, <2>1, <3>3
    <3>6. Sent(c, i - 1) = (IF i - 1 < j THEN i - 1 ELSE (i - 2) + RedirectLen)
          /\ Sent(c, i) = (IF i < j THEN i ELSE (i - 1) + RedirectLen)
      BY <2>3, <3>5
    <3>7. i # j <=> p < j \/ p >= j + RedirectLen
      BY <1>1, <1>3, <2>1, <3>3, <3>5, <3>6
    <3>8. i = j => Sent(c, i - 1) + 1 = j
      BY <2>1, <3>5, <3>6
    <3> QED
      BY <3>4, <3>5, <3>7, <3>8, <1>1, <1>3, <2>1
  <2> QED
    BY <2>2, <2>4
<1>9. L \in Nat
  <2>1. CASE \E j : Redirected(c, j)
    <3>1. PICK j : Redirected(c, j)
      BY <2>1
    <3>2. L = (Len(q) - 1) + RedirectLen /\ j \in 1..Len(q)
      BY <1>1, <1>8, <3>1
    <3> QED
      BY <1>1, <1>3, <3>2
  <2>2. CASE \A j : ~Redirected(c, j)
    BY <1>1, <1>7, <2>2
  <2> QED
    BY <2>1, <2>2
<1>10. \A p \in 1..L : byte(p) \in {"ack", "R", "text"}
  BY <1>7, <1>8, Zenon
<1>11. st \in Seq({"ack", "R", "text"}) /\ DOMAIN st = 1..L /\ \A p \in 1..L : st[p] = byte(p)
  <2> HIDE DEF byte
  <2> QED
    BY <1>9, <1>10, IsASeq
<1>12. Len(st) = L
  BY <1>9, <1>11, LenProperties
<1> HIDE DEF st, byte
<1>13. ASSUME NEW p \in 1..L
       PROVE  /\ st[p] = "ack" <=> \A j : Redirected(c, j) => p < j \/ p >= j + RedirectLen
              /\ st[p] = "R" <=> Redirected(c, p)
  <2>1. CASE \E j : Redirected(c, j)
    <3>1. PICK j : Redirected(c, j)
      BY <2>1
    <3>2. \A i : Redirected(c, i) <=> i = j
      BY <1>1, <3>1
    <3> QED
      BY <1>8, <1>11, <3>1, <3>2
  <2>2. CASE \A j : ~Redirected(c, j)
    BY <1>7, <1>11, <2>2
  <2> QED
    BY <2>1, <2>2
\* The acknowledgements.
<1>14. /\ (\A j : ~Redirected(c, j)) => AckCount(q) = Len(q)
       /\ \A j : Redirected(c, j) => AckCount(q) = Len(q) - 1
  <2> DEFINE A == {i \in DOMAIN q : q[i] = "ack"}
  <2>1. IsFiniteSet(1..Len(q)) /\ Cardinality(1..Len(q)) = Len(q)
    BY <1>1, FS_Interval
  <2>2. ASSUME \A j : ~Redirected(c, j)
        PROVE  AckCount(q) = Len(q)
    <3>1. A = 1..Len(q)
      BY <1>1, <1>5, <2>2
    <3> QED
      BY <2>1, <3>1 DEF AckCount
  <2>3. ASSUME NEW j, Redirected(c, j)
        PROVE  AckCount(q) = Len(q) - 1
    <3>1. A = (1..Len(q)) \ {j} /\ j \in 1..Len(q)
      BY <1>1, <1>5, <2>3
    <3>2. Cardinality(A) = Len(q) - 1
      BY <2>1, <3>1, FS_RemoveElement
    <3> QED
      BY <3>2 DEF AckCount
  <2> QED
    BY <2>2, <2>3
<1> QED
  BY <1>1, <1>2, <1>7, <1>8, <1>11, <1>12, <1>13, <1>14 DEF IsStream, q, L

---------------------------------------------------------------------------
(* Records and batches.                                                    *)

\* The batches of a connection follow each other.
LEMMA Batches ==
  /\ Records(0) = 0
  /\ \A n \in Nat : Records(n) \in Nat /\ Records(n + 1) = Records(n) + BatchLen
  /\ \A n \in Nat \ {0} : Records(n - 1) \in Nat /\ Records(n) = Records(n - 1) + BatchLen
  /\ \A k, n \in Nat : k <= n => Records(k) <= Records(n)
  /\ \A k, n \in Nat : k < n => Records(k) + BatchLen <= Records(n)
<1>1. BatchLen \in Nat /\ BatchLen > 0
  BY Lengths
<1>2. \A n \in Nat : Records(n) \in Nat /\ Records(n + 1) = Records(n) + BatchLen
  BY <1>1 DEF Records
<1>3. \A n \in Nat \ {0} : Records(n - 1) \in Nat /\ Records(n) = Records(n - 1) + BatchLen
  BY <1>1 DEF Records
<1>4. ASSUME NEW k \in Nat, NEW n \in Nat, k <= n
      PROVE  Records(k) <= Records(n)
  <2>1. n - k \in Nat /\ k + (n - k) = n
    BY <1>4
  <2>2. (k + (n - k)) * BatchLen = k * BatchLen + (n - k) * BatchLen
    BY <1>1, <2>1
  <2>3. k * BatchLen \in Nat /\ (n - k) * BatchLen \in Nat
    BY <1>1, <2>1
  <2> QED
    BY <2>1, <2>2, <2>3 DEF Records
<1>5. ASSUME NEW k \in Nat, NEW n \in Nat, k < n
      PROVE  Records(k) + BatchLen <= Records(n)
  <2>1. k + 1 \in Nat /\ k + 1 <= n
    BY <1>5
  <2>2. Records(k + 1) <= Records(n)
    BY <1>4, <2>1
  <2> QED
    BY <1>2, <2>2
<1>6. Records(0) = 0
  BY <1>1 DEF Records
<1> QED
  BY <1>2, <1>3, <1>4, <1>5, <1>6

\* The batch and the place of a record.
LEMMA Dividing ==
  ASSUME NEW i \in Nat
  PROVE  /\ i \div BatchLen \in Nat /\ i % BatchLen \in 0..(BatchLen - 1)
         /\ i = Records(i \div BatchLen) + (i % BatchLen)
<1>1. BatchLen \in Nat /\ BatchLen > 0
  BY Lengths
<1>2. i \div BatchLen \in Nat /\ i % BatchLen \in 0..(BatchLen - 1)
  BY <1>1
<1>3. i = BatchLen * (i \div BatchLen) + (i % BatchLen)
  BY <1>1
<1>4. BatchLen * (i \div BatchLen) = (i \div BatchLen) * BatchLen
  BY <1>1, <1>2
<1> QED
  BY <1>2, <1>3, <1>4 DEF Records

\* The r-th record of the m-th batch.
LEMMA RecordOf ==
  ASSUME NEW m \in Nat \ {0}, NEW r \in 1..BatchLen, NEW i, i = Records(m - 1) + r
  PROVE  ((i - 1) \div BatchLen) + 1 = m /\ ((i - 1) % BatchLen) + 1 = r
<1>1. BatchLen \in Nat /\ BatchLen > 0
  BY Lengths
<1>2. Records(m - 1) \in Nat /\ i - 1 \in Nat /\ i - 1 = Records(m - 1) + (r - 1)
  <2>1. Records(m - 1) \in Nat
    BY Batches
  <2> QED
    BY <1>1, <2>1
<1>3. PICK q \in Nat : q = (i - 1) \div BatchLen
  BY <1>2, Dividing
<1>4. PICK t \in 0..(BatchLen - 1) : t = (i - 1) % BatchLen
  BY <1>2, Dividing
<1>5. i - 1 = Records(q) + t
  BY <1>2, <1>3, <1>4, Dividing
<1>6. Records(q) \in Nat
  BY Batches
<1>7. ~(q < m - 1)
  <2> SUFFICES ASSUME q < m - 1 PROVE FALSE
    OBVIOUS
  <2>1. Records(q) + BatchLen <= Records(m - 1)
    BY Batches
  <2> QED
    BY <1>1, <1>2, <1>5, <1>6, <2>1
<1>8. ~(m - 1 < q)
  <2> SUFFICES ASSUME m - 1 < q PROVE FALSE
    OBVIOUS
  <2>1. Records(m - 1) + BatchLen <= Records(q)
    BY Batches
  <2> QED
    BY <1>1, <1>2, <1>5, <1>6, <2>1
<1>9. q = m - 1
  BY <1>7, <1>8
<1>10. t = r - 1
  BY <1>1, <1>2, <1>5, <1>9
<1> QED
  BY <1>3, <1>4, <1>9, <1>10

\* The records of the first m batches.
LEMMA BatchOf ==
  ASSUME NEW m \in Nat, NEW i \in 1..Records(m)
  PROVE  ((i - 1) \div BatchLen) + 1 \in 1..m /\ ((i - 1) % BatchLen) + 1 \in 1..BatchLen
<1>1. BatchLen \in Nat /\ BatchLen > 0 /\ Records(m) \in Nat
  BY Lengths, Batches
<1>2. i - 1 \in Nat
  BY <1>1
<1>3. PICK q \in Nat : q = (i - 1) \div BatchLen
  BY <1>2, Dividing
<1>4. (i - 1) % BatchLen \in 0..(BatchLen - 1) /\ i - 1 = Records(q) + ((i - 1) % BatchLen)
  BY <1>2, <1>3, Dividing
<1>5. Records(q) \in Nat /\ Records(q) <= i - 1
  BY <1>2, <1>4, Batches
<1>6. ~(m <= q)
  <2> SUFFICES ASSUME m <= q PROVE FALSE
    OBVIOUS
  <2>1. Records(m) <= Records(q)
    BY Batches
  <2> QED
    BY <1>1, <1>5, <2>1
<1> QED
  BY <1>1, <1>3, <1>4, <1>6

\* Messages that increase up to n are at most n, and if they are n they are all.
LEMMA Distinct ==
  ASSUME NEW q \in Seq(Message), NEW n \in Nat, Increasing(q), UpTo(q, n)
  PROVE  Len(q) <= n /\ (Len(q) >= n => \A i \in 1..n : \E j \in DOMAIN q : q[j] = i)
<1>1. /\ Len(q) \in Nat /\ DOMAIN q = 1..Len(q) /\ q \in [1..Len(q) -> Message]
      /\ \A i \in 1..Len(q) : q[i] \in Int /\ q[i] > 0
  BY LenProperties, ElementOfSeq, Messages DEF Message
<1>2. q \in [1..Len(q) -> 1..n]
  BY <1>1 DEF UpTo
<1>3. q \in Injection(1..Len(q), 1..n)
  <2>1. ASSUME NEW i \in 1..Len(q), NEW j \in 1..Len(q), q[i] = q[j]
        PROVE  i = j
    <3>1. ~(i < j) /\ ~(j < i)
      BY <1>1, <2>1 DEF Increasing
    <3> QED
      BY <1>1, <3>1
  <2> QED
    BY <1>2, <2>1 DEF Injection, IsInjective
<1>4. IsFiniteSet(1..n) /\ Cardinality(1..n) = n /\ Cardinality(1..Len(q)) = Len(q)
  <2>1. \A k \in Nat : IsFiniteSet(1..k) /\ Cardinality(1..k) = k
    BY FS_Interval
  <2> QED
    BY <1>1, <2>1
<1>5. Len(q) <= n /\ (Len(q) = n => q \in Surjection(1..Len(q), 1..n))
  BY <1>3, <1>4, FS_Injection
<1>6. Len(q) >= n => \A i \in 1..n : \E j \in DOMAIN q : q[j] = i
  <2> SUFFICES ASSUME Len(q) >= n, NEW i \in 1..n
               PROVE  \E j \in DOMAIN q : q[j] = i
    OBVIOUS
  <2>1. Len(q) <= n /\ Len(q) \in Nat
    BY <1>1, <1>5, Zenon
  <2>2. Len(q) = n
    BY <2>1
  <2>3. q \in Surjection(1..Len(q), 1..n)
    BY <1>5, <2>2, Zenon
  <2> QED
    <3>1. \A k \in 1..n : \E j \in 1..Len(q) : q[j] = k
      BY <2>3, Zenon DEF Surjection
    <3> QED
      BY <1>1, <3>1
<1> QED
  BY <1>5, <1>6

---------------------------------------------------------------------------
(* What a step of the servers does to a stream.                            *)

Streams == \A c : OneRedirect(replies[c]) => IsStream(c, Stream(c), replies[c])

\* What Streaming says holds in the next state, too.
LEMMA StreamingNext == Streams /\ Streams'
<1>1. Streams
  BY Streaming DEF Streams
<1> QED
  BY <1>1, PTL

\* What is sent to the peer of c: acknowledgements, or its only redirect.
Grows(c) ==
  \/ replies'[c] = replies[c]
  \/ replies'[c] = Append(replies[c], "redirect") /\ \A i : ~Redirected(c, i)
  \/ \E n \in Nat : replies'[c] = replies[c] \o AckBytes(n)

\* The redirects of the next state.
NextRedirected(c, j) == j \in DOMAIN replies'[c] /\ replies'[c][j] = "redirect"

\* Replies are appended, and a new redirect is the last of them.
LEMMA GrowingReplies ==
  ASSUME NEW c, OneRedirect(replies[c]), Grows(c)
  PROVE  /\ OneRedirect(replies'[c]) /\ Len(replies[c]) \in Nat
         /\ Len(replies[c]) <= Len(replies'[c]) /\ Len(replies'[c]) \in Nat
         /\ \A j : Redirected(c, j) => NextRedirected(c, j) /\ j \in 1..Len(replies[c])
         /\ \A j : NextRedirected(c, j) /\ ~Redirected(c, j) =>
              j = Len(replies[c]) + 1 /\ \A i : ~Redirected(c, i)
<1> DEFINE q == replies[c]
<1>1. /\ q \in Replies /\ Len(q) \in Nat /\ DOMAIN q = 1..Len(q)
      /\ \A i, j \in DOMAIN q : q[i] = "redirect" /\ q[j] = "redirect" => i = j
  BY LenProperties DEF OneRedirect, Replies
<1>2. \A j : Redirected(c, j) <=> j \in 1..Len(q) /\ q[j] = "redirect"
  BY <1>1 DEF Redirected
<1> HIDE DEF q
<1>3. CASE replies'[c] = q
  <2>1. \A j : NextRedirected(c, j) <=> Redirected(c, j)
    BY <1>1, <1>2, <1>3 DEF NextRedirected
  <2> QED
    BY <1>1, <1>2, <1>3, <2>1 DEF OneRedirect, q
<1>4. CASE replies'[c] = Append(q, "redirect") /\ \A i : ~Redirected(c, i)
  <2> DEFINE r == Append(q, "redirect")
  <2>1. /\ r \in Replies /\ Len(r) = Len(q) + 1 /\ DOMAIN r = 1..(Len(q) + 1)
        /\ r[Len(q) + 1] = "redirect" /\ \A i \in 1..Len(q) : r[i] = q[i]
    BY <1>1, AppendProperties, LenProperties DEF Replies
  <2> HIDE DEF r
  <2>2. \A j : NextRedirected(c, j) <=> j = Len(q) + 1
    BY <1>1, <1>2, <1>4, <2>1 DEF NextRedirected, r
  <2>3. OneRedirect(r)
    BY <1>1, <1>2, <1>4, <2>1 DEF OneRedirect
  <2> QED
    BY <1>1, <1>2, <1>4, <2>1, <2>2, <2>3 DEF q, r
<1>5. CASE \E n \in Nat : replies'[c] = q \o AckBytes(n)
  <2>1. PICK n \in Nat : replies'[c] = q \o AckBytes(n)
    BY <1>5
  <2> DEFINE a == AckBytes(n)
             r == q \o a
  <2>2. a \in Replies /\ Len(a) = n /\ \A i \in 1..n : a[i] = "ack"
    <3>1. a = [i \in 1..n |-> "ack"]
      BY DEF AckBytes
    <3>2. a \in Seq({"ack", "redirect"}) /\ DOMAIN a = 1..n
      BY <3>1, IsASeq
    <3> HIDE DEF a
    <3> QED
      BY <3>1, <3>2, LenProperties DEF Replies
  <2> HIDE DEF a
  <2>3. /\ r \in Replies /\ Len(r) = Len(q) + n /\ DOMAIN r = 1..(Len(q) + n)
        /\ \A i \in 1..(Len(q) + n) : r[i] = IF i <= Len(q) THEN q[i] ELSE a[i - Len(q)]
    <3>1. /\ r \in Replies /\ Len(r) = Len(q) + n
          /\ \A i \in 1..(Len(q) + n) : r[i] = IF i <= Len(q) THEN q[i] ELSE a[i - Len(q)]
      <4>1. Len(r) = Len(q) + Len(a) /\ Len(a) = n /\ r \in Replies
            /\ \A i \in 1..(Len(q) + Len(a)) : r[i] = IF i <= Len(q) THEN q[i] ELSE a[i - Len(q)]
        BY <1>1, <2>2, ConcatProperties, ZenonT(30) DEF Replies
      <4> QED
        BY <4>1
    <3>2. DOMAIN r = 1..Len(r)
      BY <3>1, LenProperties DEF Replies
    <3> QED
      BY <3>1, <3>2
  <2> HIDE DEF r
  <2>4. \A i \in 1..(Len(q) + n) : r[i] = IF i <= Len(q) THEN q[i] ELSE "ack"
    <3> SUFFICES ASSUME NEW i \in 1..(Len(q) + n), ~(i <= Len(q))
                 PROVE  r[i] = "ack"
      BY <2>3
    <3>1. i - Len(q) \in 1..n
      BY <1>1
    <3> QED
      BY <2>2, <2>3, <3>1
  <2>5. \A j : NextRedirected(c, j) <=> j \in 1..Len(q) /\ q[j] = "redirect"
    BY <1>1, <2>1, <2>3, <2>4 DEF NextRedirected, r, a
  <2>6. OneRedirect(r)
    <3> SUFFICES ASSUME NEW i \in DOMAIN r, NEW j \in DOMAIN r, r[i] = "redirect", r[j] = "redirect"
                 PROVE  i = j
      BY <2>3 DEF OneRedirect
    <3>1. i \in 1..Len(q) /\ j \in 1..Len(q) /\ r[i] = q[i] /\ r[j] = q[j]
      BY <1>1, <2>3, <2>4
    <3> QED
      BY <1>1, <3>1
  <2> QED
    BY <1>1, <1>2, <2>1, <2>3, <2>5, <2>6 DEF q, r, a
<1> QED
  BY <1>3, <1>4, <1>5 DEF Grows, q

\* How many bytes there are for the peer of c.
Length(c) == Sent(c, Len(replies[c]))

\* What is sent is never taken back: the stream grows, and a byte that was an
\* acknowledgement remains one.
LEMMA GrowingStream ==
  ASSUME NEW c, OneRedirect(replies[c]), Grows(c)
  PROVE  /\ Length(c) \in Nat /\ Length(c)' \in Nat /\ Length(c) <= Length(c)'
         /\ \A p \in 1..Length(c) : Stream(c)[p] = "ack" => Stream(c)'[p] = "ack"
         /\ \A p \in 1..Length(c) : Stream(c)[p] = "R" <=> Redirected(c, p)
<1> DEFINE q == replies[c]
<1>1. /\ OneRedirect(replies'[c]) /\ Len(q) \in Nat /\ Len(q) <= Len(replies'[c])
      /\ Len(replies'[c]) \in Nat
      /\ \A j : Redirected(c, j) => NextRedirected(c, j) /\ j \in 1..Len(q)
      /\ \A j : NextRedirected(c, j) /\ ~Redirected(c, j) =>
           j = Len(q) + 1 /\ \A i : ~Redirected(c, i)
  BY GrowingReplies
<1>2. \A j : Redirected(c, j)' <=> NextRedirected(c, j)
  BY DEF Redirected, NextRedirected
<1>3. IsStream(c, Stream(c), replies[c])
  BY StreamingNext DEF Streams
<1>4. IsStream(c, Stream(c), replies[c])'
  <2>1. OneRedirect(replies[c])'
    BY <1>1 DEF OneRedirect, Replies
  <2> QED
    BY <2>1, StreamingNext DEF Streams
<1>5. PICK st : st = Stream(c)
  OBVIOUS
<1>6. PICK sn : sn = Stream(c)'
  OBVIOUS
<1>7. PICK L : L = Length(c)
  OBVIOUS
<1>8. PICK N : N = Length(c)'
  OBVIOUS
<1>9. /\ Len(st) = L
      /\ \A p \in 1..L : /\ st[p] = "ack" <=> \A j : Redirected(c, j) => p < j \/ p >= j + RedirectLen
                         /\ st[p] = "R" <=> Redirected(c, p)
      /\ (\A j : ~Redirected(c, j)) => L = Len(q)
      /\ \A j : Redirected(c, j) => L = (Len(q) - 1) + RedirectLen
  BY <1>3, <1>5, <1>7 DEF IsStream, Length
<1>10. /\ Len(sn) = N
       /\ \A p \in 1..N : sn[p] = "ack" <=> \A j : NextRedirected(c, j) => p < j \/ p >= j + RedirectLen
       /\ (\A j : ~NextRedirected(c, j)) => N = Len(replies'[c])
       /\ \A j : NextRedirected(c, j) => N = (Len(replies'[c]) - 1) + RedirectLen
  BY <1>2, <1>4, <1>6, <1>8 DEF IsStream, Length
<1>11. L \in Nat /\ N \in Nat /\ L <= N
  <2>1. CASE \E j : Redirected(c, j)
    <3>1. PICK j : Redirected(c, j)
      BY <2>1
    <3>2. L = (Len(q) - 1) + RedirectLen /\ N = (Len(replies'[c]) - 1) + RedirectLen /\ j \in 1..Len(q)
      BY <1>1, <1>9, <1>10, <3>1
    <3> QED
      BY <1>1, <3>2, Lengths
  <2>2. CASE (\A j : ~Redirected(c, j)) /\ \E j : NextRedirected(c, j)
    <3>1. L = Len(q) /\ N = (Len(replies'[c]) - 1) + RedirectLen
      BY <1>9, <1>10, <2>2
    <3>2. Len(replies'[c]) >= 1
      <4>1. PICK j : NextRedirected(c, j)
        BY <2>2
      <4>2. j \in 1..Len(replies'[c])
        BY <1>1, <4>1, LenProperties DEF NextRedirected, OneRedirect, Replies
      <4> QED
        BY <1>1, <4>2
    <3> QED
      BY <1>1, <3>1, <3>2, Lengths
  <2>3. CASE (\A j : ~Redirected(c, j)) /\ \A j : ~NextRedirected(c, j)
    BY <1>1, <1>9, <1>10, <2>3
  <2> QED
    BY <2>1, <2>2, <2>3
<1>12. ASSUME NEW p \in 1..L, st[p] = "ack"
       PROVE  sn[p] = "ack"
  <2> SUFFICES ASSUME NEW j, NextRedirected(c, j)
               PROVE  p < j \/ p >= j + RedirectLen
    BY <1>10, <1>11
  <2>1. CASE Redirected(c, j)
    BY <1>9, <1>12, <2>1
  <2>2. CASE ~Redirected(c, j)
    BY <1>1, <1>9, <1>11, <2>2
  <2> QED
    BY <2>1, <2>2
<1> QED
  BY <1>5, <1>6, <1>7, <1>8, <1>9, <1>11, <1>12

---------------------------------------------------------------------------
(* What was applied.                                                       *)

\* A socket's fields.
LEMMA SocketFields ==
  ASSUME ClientTypes, NEW c \in Conns
  PROVE  /\ socket[c] \in Socket /\ socket[c].node \in Nodes \cup {NoNode}
         /\ socket[c].state \in {"unused", "busy", "pooled", "closed"}
         /\ socket[c].carries \in Seq(Nat) /\ socket[c].read \in Nat
         /\ Len(socket[c].carries) \in Nat
         /\ DOMAIN socket[c].carries = 1..Len(socket[c].carries)
<1>1. socket[c] \in Socket
  BY DEF ClientTypes
<1>2. socket[c].carries \in Seq(Nat)
  BY <1>1 DEF Socket
<1> QED
  BY <1>1, <1>2, LenProperties DEF Socket

\* What is known of the messages of c that were applied.
AppliedUpTo(c, n) ==
  /\ applied[c] \in Seq(Message) /\ Increasing(applied[c]) /\ UpTo(applied[c], n)
  /\ AckCount(replies[c]) <= Len(applied[c]) /\ Len(applied[c]) <= n

\* They are some of those that arrived.
LEMMA AppliedArrived ==
  ASSUME InsertInv, NEW c \in Conns, NEW n \in Nat, conn[c].received <= 2 * n
  PROVE  AppliedUpTo(c, n) /\ conn[c].received \in Nat
<1>1. /\ Good(Loop, c, applied) /\ InOrder(Loop, c, applied) /\ Loop.conn = conn
      /\ Loop.replies = replies /\ applied \in [Conns -> Seq(Message)] /\ conn[c] \in Conn
  BY AtRest
<1>2. applied[c] \in Seq(Message) /\ Increasing(applied[c])
      /\ UpTo(applied[c], conn[c].received \div 2)
  BY <1>1 DEF InOrder
<1>3. conn[c].received \in Nat
  BY <1>1, ConnFields
<1>4. conn[c].received \div 2 <= n /\ conn[c].received \div 2 \in Nat
  BY <1>3
<1>5. UpTo(applied[c], n)
  <2>1. \A i \in DOMAIN applied[c] : applied[c][i] \in Int
    BY <1>2, LenProperties, ElementOfSeq, Messages
  <2> QED
    BY <1>2, <1>4, <2>1 DEF UpTo
<1>6. Len(applied[c]) <= n
  BY <1>2, <1>5, Distinct
<1> QED
  BY <1>1, <1>2, <1>3, <1>5, <1>6 DEF Good, AppliedUpTo

\* Nothing is ever unapplied: a step that appends to what a socket carries and
\* to what is applied keeps the batches that are complete.
LEMMA AppliedKept ==
  ASSUME WriteInv,
         \A c \in Conns : /\ \A i \in DOMAIN socket[c].carries :
                               socket'[c].carries[i] = socket[c].carries[i]
                          /\ ToSet(applied[c]) \subseteq ToSet(applied'[c]),
         NEW b, AppliedOf(b) = 1..BatchLen
  PROVE  AppliedOf(b)' = 1..BatchLen
<1>1. ASSUME NEW r \in 1..BatchLen
      PROVE  r \in AppliedOf(b)'
  <2> PICK c \in Conns : \E m \in ToSet(applied[c]) :
          /\ socket[c].carries[((m - 1) \div BatchLen) + 1] = b
          /\ ((m - 1) % BatchLen) + 1 = r
    BY DEF AppliedOf
  <2>1. PICK m \in ToSet(applied[c]) :
          /\ socket[c].carries[((m - 1) \div BatchLen) + 1] = b
          /\ ((m - 1) % BatchLen) + 1 = r
    OBVIOUS
  <2> DEFINE n == Len(socket[c].carries)
  <2>2. n \in Nat /\ DOMAIN socket[c].carries = 1..n /\ Records(n) \in Nat
    BY SocketFields, Batches DEF WriteInv
  <2>3. AppliedUpTo(c, Records(n))
    <3>1. conn[c].received <= 2 * Records(n)
      BY DEF WriteInv, ConnInv, SocketInv
    <3> QED
      BY <2>2, <3>1, AppliedArrived DEF WriteInv
  <2>4. m \in 1..Records(n)
    <3>1. PICK i \in DOMAIN applied[c] : m = applied[c][i]
      BY <2>1 DEF ToSet
    <3>2. applied[c] \in Seq(Message) /\ UpTo(applied[c], Records(n))
      BY <2>3 DEF AppliedUpTo
    <3>3. m \in Message /\ m <= Records(n)
      BY <3>1, <3>2, LenProperties, ElementOfSeq DEF UpTo
    <3> QED
      BY <2>2, <3>3, Messages DEF Message
  <2>5. ((m - 1) \div BatchLen) + 1 \in 1..n
    BY <2>2, <2>4, BatchOf
  <2>6. socket'[c].carries[((m - 1) \div BatchLen) + 1] = b
    BY <2>1, <2>2, <2>5
  <2>7. m \in ToSet(applied'[c])
    BY <2>1
  <2>8. m \in ToSet(applied[c])'
    BY <2>7 DEF ToSet
  <2> QED
    BY <2>1, <2>6, <2>8 DEF AppliedOf
<1>2. AppliedOf(b)' \subseteq 1..BatchLen
  BY DEF AppliedOf
<1> QED
  BY <1>1, <1>2

\* The batches that are reported stay applied.
LEMMA ReportsKept ==
  ASSUME WriteInv, written' = written,
         \A c \in Conns : /\ \A i \in DOMAIN socket[c].carries :
                               socket'[c].carries[i] = socket[c].carries[i]
                          /\ ToSet(applied[c]) \subseteq ToSet(applied'[c])
  PROVE  CleanBatchIsApplied'
<1> SUFFICES ASSUME NEW w \in written, w.clean
             PROVE  AppliedOf(w.batch)' = 1..BatchLen
  BY DEF CleanBatchIsApplied
<1>1. AppliedOf(w.batch) = 1..BatchLen
  BY DEF WriteInv, CleanBatchIsApplied
<1> QED
  BY <1>1, AppliedKept

---------------------------------------------------------------------------
(* A batch whose bytes were all acknowledgements.                          *)

\* What the invariant says of a connection's stream.
Known(c) ==
  /\ OneRedirect(replies[c]) /\ IsStream(c, Stream(c), replies[c])
  /\ replies[c] \in Replies /\ Len(replies[c]) \in Nat
  /\ Len(Stream(c)) = Length(c) /\ Length(c) \in Nat
  /\ ConnInv(c)

\* A peer was redirected at most once.
LEMMA Knowing ==
  ASSUME WriteInv, NEW c \in Conns
  PROVE  Known(c)
<1>1. Quiet(c) /\ ConnInv(c)
  BY DEF WriteInv, ConnInv
<1>2. replies[c] \in Replies
  BY AtRest DEF WriteInv
<1>3. OneRedirect(replies[c])
  BY <1>1, <1>2 DEF OneRedirect, Quiet, Redirected
<1>4. IsStream(c, Stream(c), replies[c])
  BY <1>3, Streaming
<1>6. Len(replies[c]) \in Nat
  BY <1>2, LenProperties DEF Replies
<1>7. Len(Stream(c)) = Length(c) /\ Stream(c) \in Seq({"ack", "R", "text"})
  BY <1>4 DEF IsStream, Length
<1>8. Len(Stream(c)) \in Nat
  BY <1>7, LenProperties
<1> QED
  BY <1>1, <1>2, <1>3, <1>4, <1>6, <1>7, <1>8 DEF Known

\* The bytes that are counted are there.
LEMMA Counting ==
  ASSUME WriteInv, NEW c \in Conns, Cardinality(Counted(c)) = BatchLen - 1
  PROVE  /\ socket[c].read + (BatchLen - 1) <= Length(c)
         /\ \A p : p \in Counted(c) <=> p \in (socket[c].read + 1)..(socket[c].read + (BatchLen - 1))
<1>1. PICK r \in Nat : r = socket[c].read
  BY SocketFields DEF WriteInv
<1>2. PICK L \in Nat : L = Length(c) /\ L = Len(Stream(c))
  BY Knowing DEF Known
<1>3. PICK b \in Nat : b = BatchLen - 1
  BY Lengths
<1>4. r <= L
  BY <1>1, <1>2 DEF WriteInv, ConnInv, SocketInv, Length
<1>7. Counted(c) = {i \in 1..L : i > r /\ i <= r + b}
  <2>1. \A i : i \in Counted(c) <=> i \in 1..L /\ i > r /\ i <= r + b
    BY <1>1, <1>2, <1>3 DEF Counted
  <2> QED
    BY <2>1
<1>8. r + b <= L
  <2> SUFFICES ASSUME ~(r + b <= L)
               PROVE  FALSE
    OBVIOUS
  <2>1. Counted(c) = (r + 1)..L
    <3>1. \A i : i \in 1..L /\ i > r /\ i <= r + b <=> i \in (r + 1)..L
      OBVIOUS
    <3> QED
      BY <1>7, <3>1
  <2>2. Cardinality((r + 1)..L) = IF r + 1 > L THEN 0 ELSE (L - (r + 1)) + 1
    BY FS_Interval
  <2> QED
    BY <1>3, <1>4, <2>1, <2>2
<1> QED
  BY <1>1, <1>2, <1>3, <1>7, <1>8

\* A batch of acknowledgements is applied completely.  A redirect can only be
\* behind it, or so far before it that the batch was not sent yet: there are not
\* enough acknowledgements then.
LEMMA CleanRead ==
  ASSUME WriteInv, writer.pc = "rest", writer.clean, NEW c, c = writer.conn,
         Cardinality(Counted(c)) = BatchLen - 1,
         \A i \in Counted(c) : Stream(c)[i] = "ack"
  PROVE  AppliedOf(writer.batch) = 1..BatchLen
<1>1. Waiting(c) /\ c \in Conns
  BY DEF WriteInv, WriterInv, Waiting
<1>2. PICK m \in Nat \ {0} : m = Len(socket[c].carries)
  <2>1. Len(socket[c].carries) \in Nat /\ Len(socket[c].carries) > 0
    BY <1>1, SocketFields DEF WriteInv, ConnInv, SocketInv, Waiting
  <2> QED
    BY <2>1
<1>3. PICK M \in Nat : M = Records(m - 1)
  BY Batches
<1>4. PICK N \in Nat : N = Records(m) /\ N = M + BatchLen
  <2>1. m \in Nat
    BY <1>2
  <2> QED
    BY <1>3, <2>1, Batches
<1>5. BatchLen \in Nat /\ BatchLen > 0 /\ RedirectLen \in Nat /\ RedirectLen > 0
  BY Lengths
<1>6. /\ socket[c].read = M + 1 /\ Stream(c)[M + 1] = "ack"
      /\ socket[c].carries[m] = writer.batch /\ conn[c].received <= 2 * N
      /\ M + 1 \in Nat
  <2>1. /\ socket[c].read = Records(Len(socket[c].carries) - 1) + 1
        /\ Stream(c)[socket[c].read] = "ack"
        /\ socket[c].carries[Len(socket[c].carries)] = writer.batch
    BY <1>1 DEF Waiting, One
  <2>2. conn[c].received <= 2 * Records(Len(socket[c].carries))
    BY <1>1 DEF WriteInv, ConnInv, SocketInv
  <2>3. socket[c].read = M + 1 /\ M + 1 \in Nat
    BY <1>2, <1>3, <2>1
  <2> QED
    BY <1>2, <1>4, <2>1, <2>2, <2>3
<1>7. /\ N <= Length(c) /\ Length(c) \in Nat
      /\ \A p \in (M + 1)..N : Stream(c)[p] = "ack"
  <2>1. /\ (M + 1) + (BatchLen - 1) <= Length(c)
        /\ \A p : p \in Counted(c) <=> p \in ((M + 1) + 1)..((M + 1) + (BatchLen - 1))
    BY <1>1, <1>6, Counting
  <2>2. (M + 1) + (BatchLen - 1) = N
    BY <1>4, <1>5
  <2>3. Length(c) \in Nat
    BY <1>1, Knowing DEF Known
  <2>4. ASSUME NEW p \in (M + 1)..N
        PROVE  Stream(c)[p] = "ack"
    <3>1. CASE p = M + 1
      BY <1>6, <3>1
    <3>2. CASE p # M + 1
      <4>1. p \in ((M + 1) + 1)..((M + 1) + (BatchLen - 1))
        BY <2>2, <2>4, <3>2
      <4> QED
        BY <2>1, <4>1
    <3> QED
      BY <3>1, <3>2
  <2> QED
    BY <2>1, <2>2, <2>3, <2>4
<1>8. AppliedUpTo(c, N)
  BY <1>1, <1>6, AppliedArrived DEF WriteInv
<1>9. PICK A \in Nat : A = Len(applied[c])
  BY <1>8, LenProperties DEF AppliedUpTo
<1>10. PICK K : K = AckCount(replies[c])
  OBVIOUS
<1>11. K <= A /\ A <= N
  BY <1>8, <1>9, <1>10 DEF AppliedUpTo
<1>12. PICK Q \in Nat : Q = Len(replies[c])
  BY <1>1, Knowing DEF Known
<1>13. PICK L \in Nat : L = Length(c)
  BY <1>7
<1>14. PICK st : st = Stream(c)
  OBVIOUS
<1>15. /\ \A p \in 1..L : st[p] = "ack" <=> \A j : Redirected(c, j) => p < j \/ p >= j + RedirectLen
       /\ (\A j : ~Redirected(c, j)) => L = Q /\ K = Q
       /\ \A j : Redirected(c, j) => j \in 1..Q /\ K = Q - 1 /\ L = (Q - 1) + RedirectLen
  BY <1>1, <1>10, <1>12, <1>13, <1>14, Knowing DEF Known, IsStream
<1>16. A >= N
  <2>1. CASE \A j : ~Redirected(c, j)
    BY <1>7, <1>11, <1>13, <1>15, <2>1
  <2>2. ASSUME NEW j, Redirected(c, j)
        PROVE  A >= N
    <3>1. j \in 1..Q /\ K = Q - 1 /\ L = (Q - 1) + RedirectLen /\ j \in Nat
      BY <1>15, <2>2
    <3>2. CASE j > N
      BY <1>11, <3>1, <3>2
    <3>3. CASE j <= N
      <4>1. PICK k \in 1..m : /\ conn[c].received <= 2 * Records(k) /\ Records(k - 1) < j
                              /\ j <= M + 1 => Records(k - 1) + 1 < j
        BY <1>1, <1>2, <1>6, <2>2 DEF WriteInv, ConnInv, CutInv
      <4>2. \A p \in (M + 1)..N : p < j \/ p >= j + RedirectLen
        BY <1>7, <1>13, <1>14, <1>15, <2>2
      <4>3. j <= M
        <5> SUFFICES ASSUME ~(j <= M) PROVE FALSE
          OBVIOUS
        <5>1. j \in (M + 1)..N
          BY <3>1, <3>3
        <5> QED
          BY <1>5, <3>1, <4>2, <5>1
      <4>4. j + RedirectLen <= M + 1
        <5>1. M + 1 \in (M + 1)..N
          BY <1>4, <1>5
        <5> QED
          BY <3>1, <4>2, <4>3, <5>1
      <4>5. k \in Nat \ {0} /\ k - 1 \in Nat /\ m - 1 \in Nat /\ m \in Nat
        BY <4>1, <1>2
      <4>6. PICK B \in Nat : B = Records(k - 1)
        BY <4>5, Batches
      <4>7. PICK C \in Nat : C = Records(k) /\ C = B + BatchLen
        BY <4>5, <4>6, Batches
      <4>8. B + 1 < j
        BY <4>1, <4>3, <4>6, <3>1
      <4>9. AppliedUpTo(c, C)
        BY <1>1, <4>1, <4>7, AppliedArrived DEF WriteInv
      <4>10. A <= C
        BY <1>9, <4>9 DEF AppliedUpTo
      <4> QED
        BY <1>4, <1>5, <1>7, <1>11, <1>13, <3>1, <4>4, <4>7, <4>8, <4>10
    <3> QED
      BY <3>1, <3>2, <3>3
  <2> QED
    BY <2>1, <2>2
<1>17. \A i \in 1..N : i \in ToSet(applied[c])
  <2>1. \A i \in 1..N : \E j \in DOMAIN applied[c] : applied[c][j] = i
    BY <1>8, <1>9, <1>16, Distinct DEF AppliedUpTo
  <2> QED
    BY <2>1 DEF ToSet
<1>18. ASSUME NEW r \in 1..BatchLen
       PROVE  r \in AppliedOf(writer.batch)
  <2>1. PICK i : i = M + r
    OBVIOUS
  <2>2. i \in 1..N /\ i = Records(m - 1) + r
    BY <1>3, <1>4, <1>5, <2>1
  <2>3. ((i - 1) \div BatchLen) + 1 = m /\ ((i - 1) % BatchLen) + 1 = r
    BY <2>2, RecordOf
  <2>4. i \in ToSet(applied[c])
    BY <1>17, <2>2
  <2> QED
    BY <1>1, <1>6, <2>3, <2>4 DEF AppliedOf
<1> QED
  BY <1>18 DEF AppliedOf

---------------------------------------------------------------------------
(* The steps of the servers.                                               *)

\* What a server may do to c: more is received only while its peer has not been
\* redirected, and not more than was sent.
Serves(c) ==
  /\ Grows(c)
  /\ conn'[c].received <= 2 * Records(Len(socket[c].carries))
  /\ conn'[c].received = conn[c].received \/ \A j : ~Redirected(c, j)
  /\ conn'[c].handle = "none" => conn[c].handle = "none" /\ replies'[c] = replies[c]
  /\ socket[c].state = "unused" => conn'[c].handle = "none"
  /\ \A j : NextRedirected(c, j) => conn'[c].handle # "open" \/ conn'[c].redirecting

\* Such a step keeps what is known of c.
LEMMA Served ==
  ASSUME WriteInv, NEW c \in Conns, Serves(c), socket'[c] = socket[c]
  PROVE  ConnInv(c)'
<1> DEFINE k == socket[c]
<1>1. /\ ConnInv(c) /\ OneRedirect(replies[c]) /\ replies[c] \in Replies
      /\ Length(c) \in Nat
      /\ IsStream(c, Stream(c), replies[c])
  BY Knowing DEF Known
<1>2. PICK m \in Nat : m = Len(k.carries)
  BY SocketFields DEF WriteInv
<1>3. k.read \in Nat
  BY SocketFields DEF WriteInv
<1>4. /\ k.state = "unused" => m = 0 /\ k.read = 0 /\ conn[c].handle = "none"
      /\ k.state # "unused" => k.node \in Nodes /\ m > 0 /\ Records(m - 1) <= k.read
      /\ k.state = "pooled" => k.read = Records(m)
      /\ k.read <= Records(m) /\ k.read <= Length(c)
      /\ conn[c].received <= 2 * Records(m)
  BY <1>1, <1>2 DEF ConnInv, SocketInv, Length
<1>5. /\ OneRedirect(replies'[c]) /\ Len(replies[c]) \in Nat
      /\ \A j : Redirected(c, j) => NextRedirected(c, j) /\ j \in 1..Len(replies[c])
      /\ \A j : NextRedirected(c, j) /\ ~Redirected(c, j) =>
           j = Len(replies[c]) + 1 /\ \A i : ~Redirected(c, i)
  BY <1>1, GrowingReplies DEF Serves
<1>6. Length(c)' \in Nat /\ Length(c) <= Length(c)'
  BY <1>1, GrowingStream DEF Serves
<1>7. \A j : Redirected(c, j)' <=> NextRedirected(c, j)
  BY DEF Redirected, NextRedirected
<1>8. Quiet(c)'
  <2>1. conn'[c].handle = "none" => replies'[c] = <<>>
    BY <1>1 DEF ConnInv, Quiet, Serves
  <2>2. \A i, j : NextRedirected(c, i) /\ NextRedirected(c, j) => i = j
    BY <1>5 DEF OneRedirect, NextRedirected
  <2>3. \A j : NextRedirected(c, j) => conn'[c].handle # "open" \/ conn'[c].redirecting
    BY DEF Serves
  <2> QED
    BY <1>7, <2>1, <2>2, <2>3 DEF Quiet
<1>9. SocketInv(c)'
  <2>1. k.state = "unused" => conn'[c].handle = "none"
    BY DEF Serves
  <2>2. conn'[c].received <= 2 * Records(m)
    BY <1>2 DEF Serves
  <2>3. k.read <= Length(c)'
    BY <1>3, <1>4, <1>6, <1>1
  <2>4. \A n : Records(n)' = Records(n)
    BY DEF Records
  <2> QED
    BY <1>2, <1>4, <2>1, <2>2, <2>3, <2>4 DEF SocketInv, Length
<1>10. CutInv(c)'
  <2>1. ASSUME NEW j, NextRedirected(c, j)
        PROVE  \E b \in 1..m : /\ conn'[c].received <= 2 * Records(b) /\ Records(b - 1) < j
                               /\ j <= k.read => Records(b - 1) + 1 < j
    <3>1. CASE Redirected(c, j)
      <4>1. conn'[c].received = conn[c].received
        BY <3>1 DEF Serves
      <4>2. \E b \in 1..m : /\ conn[c].received <= 2 * Records(b) /\ Records(b - 1) < j
                            /\ j <= k.read => Records(b - 1) + 1 < j
        BY <1>1, <1>2, <3>1 DEF ConnInv, CutInv
      <4> QED
        BY <4>1, <4>2
    <3>2. CASE ~Redirected(c, j)
      <4>1. j = Len(replies[c]) + 1 /\ \A i : ~Redirected(c, i)
        BY <1>5, <2>1, <3>2
      <4>2. Length(c) = Len(replies[c])
        BY <1>1, <4>1 DEF IsStream, Length
      <4>3. k.state # "unused"
        <5>1. conn'[c].handle # "none"
          <6> SUFFICES ASSUME conn'[c].handle = "none" PROVE FALSE
            OBVIOUS
          <6>1. replies'[c] = replies[c]
            BY DEF Serves
          <6> QED
            BY <2>1, <3>2, <6>1 DEF NextRedirected, Redirected
        <5> QED
          BY <5>1 DEF Serves
      <4>4. m \in 1..m /\ m > 0 /\ Records(m - 1) <= k.read
        BY <1>4, <4>3
      <4>5. Records(m - 1) \in Nat
        BY <4>4, Batches
      <4>6. k.read < j
        BY <1>3, <1>4, <1>5, <4>1, <4>2
      <4>7. conn'[c].received <= 2 * Records(m) /\ Records(m - 1) < j /\ ~(j <= k.read)
        BY <1>2, <1>3, <1>5, <4>1, <4>4, <4>5, <4>6 DEF Serves
      <4> QED
        BY <4>4, <4>7
    <3> QED
      BY <3>1, <3>2
  <2>2. \A n : Records(n)' = Records(n)
    BY DEF Records
  <2> QED
    BY <1>2, <1>7, <2>1, <2>2 DEF CutInv
<1> QED
  BY <1>8, <1>9, <1>10 DEF ConnInv

\* A callback that sends no acknowledgement.
LEMMA TellingServes ==
  ASSUME WriteInv, NEW c \in Conns, Tells(Loop, Loop', c)
  PROVE  Serves(c)
<1>1. Loop.conn = conn /\ Loop.replies = replies /\ Loop'.conn = conn' /\ Loop'.replies = replies'
  BY DEF Loop
<1>2. /\ conn'[c].received = conn[c].received
      /\ conn'[c].handle = "none" <=> conn[c].handle = "none"
      /\ conn'[c].handle = "open" =>
           conn[c].handle = "open" /\ (conn[c].redirecting => conn'[c].redirecting)
      /\ \/ replies'[c] = replies[c]
         \/ /\ replies'[c] = Append(replies[c], "redirect")
            /\ conn[c].handle = "open" /\ ~conn[c].redirecting
            /\ conn'[c].handle = "open" => conn'[c].redirecting
  BY <1>1 DEF Tells
<1>3. Quiet(c) /\ SocketInv(c) /\ OneRedirect(replies[c])
  BY Knowing DEF Known, ConnInv
<1>4. \A j : Redirected(c, j) => conn[c].handle # "open" \/ conn[c].redirecting
  BY <1>3 DEF Quiet
<1>5. CASE replies'[c] = replies[c]
  <2>1. Grows(c)
    BY <1>5 DEF Grows
  <2>2. \A j : NextRedirected(c, j) => Redirected(c, j)
    BY <1>5 DEF NextRedirected, Redirected
  <2> QED
    BY <1>2, <1>3, <1>4, <1>5, <2>1, <2>2 DEF Serves, SocketInv
<1>6. CASE /\ replies'[c] = Append(replies[c], "redirect")
           /\ conn[c].handle = "open" /\ ~conn[c].redirecting
           /\ conn'[c].handle = "open" => conn'[c].redirecting
  <2>1. Grows(c)
    BY <1>4, <1>6 DEF Grows
  <2> QED
    BY <1>2, <1>3, <1>6, <2>1 DEF Serves, SocketInv
<1> QED
  BY <1>2, <1>5, <1>6

\* A callback that acknowledges messages of c.
LEMMA AcknowledgingServes ==
  ASSUME WriteInv, NEW c \in Conns, Acknowledges(Loop, Loop', c)
  PROVE  Serves(c)
<1>1. Loop.conn = conn /\ Loop.replies = replies /\ Loop'.conn = conn' /\ Loop'.replies = replies'
  BY DEF Loop
<1>2. /\ conn'[c].received = conn[c].received
      /\ conn'[c].handle = "open" /\ conn[c].handle = "open"
      /\ conn'[c].redirecting = conn[c].redirecting
      /\ \E n \in Nat : replies'[c] = replies[c] \o AckBytes(n)
  BY <1>1 DEF Acknowledges
<1>3. Quiet(c) /\ SocketInv(c) /\ OneRedirect(replies[c])
  BY Knowing DEF Known, ConnInv
<1>4. Grows(c)
  BY <1>2 DEF Grows
<1>5. \A j : NextRedirected(c, j) /\ ~Redirected(c, j) =>
        j = Len(replies[c]) + 1 /\ \A i : ~Redirected(c, i)
  BY <1>3, <1>4, GrowingReplies
<1>6. ASSUME NEW j, NextRedirected(c, j)
      PROVE  Redirected(c, j)
  <2>1. PICK n \in Nat : replies'[c] = replies[c] \o AckBytes(n)
    BY <1>2
  <2> SUFFICES ASSUME ~Redirected(c, j) PROVE FALSE
    OBVIOUS
  <2>2. j = Len(replies[c]) + 1
    BY <1>5, <1>6
  <2> DEFINE q == replies[c]
             a == AckBytes(n)
             r == q \o a
  <2>3. a \in Replies /\ Len(a) = n /\ \A i \in 1..n : a[i] = "ack"
    <3>1. a = [i \in 1..n |-> "ack"]
      BY DEF AckBytes
    <3>2. a \in Seq({"ack", "redirect"}) /\ DOMAIN a = 1..n
      BY <3>1, IsASeq
    <3> HIDE DEF a
    <3> QED
      BY <3>1, <3>2, LenProperties DEF Replies
  <2>4. q \in Replies /\ Len(q) \in Nat
    BY <1>3, LenProperties DEF OneRedirect, Replies
  <2> HIDE DEF a, q
  <2>5. r \in Replies /\ Len(r) = Len(q) + Len(a)
        /\ \A i \in 1..(Len(q) + Len(a)) : r[i] = IF i <= Len(q) THEN q[i] ELSE a[i - Len(q)]
    BY <2>3, <2>4, ConcatProperties, ZenonT(30) DEF Replies
  <2>6. DOMAIN r = 1..Len(r)
    BY <2>5, LenProperties DEF Replies
  <2> HIDE DEF r
  <2>7. r[Len(q) + 1] = "redirect" /\ Len(q) + 1 \in DOMAIN r
    BY <1>6, <2>1, <2>2 DEF NextRedirected, r, q, a
  <2>8. Len(q) + 1 <= Len(q) + n /\ 1 \in 1..n /\ (Len(q) + 1) - Len(q) = 1
    BY <2>3, <2>4, <2>5, <2>6, <2>7
  <2>9. r[Len(q) + 1] = a[1]
    BY <2>3, <2>4, <2>5, <2>8
  <2> QED
    BY <2>3, <2>7, <2>8, <2>9
<1> QED
  BY <1>2, <1>3, <1>4, <1>6 DEF Serves, SocketInv, Quiet

\* Messages are received from a peer that was not redirected.
LEMMA ReadingServes ==
  ASSUME WriteInv, NEW c \in Conns, NEW n \in Nat, OnClientRead(c, n),
         conn[c].received + n <= 2 * Records(Len(socket[c].carries)),
         Tells(Received(c, n), Loop', c)
  PROVE  Serves(c)
<1> DEFINE s == Received(c, n)
<1>1. /\ Loop'.conn = conn' /\ Loop'.replies = replies' /\ conn \in [Conns -> Conn]
      /\ conn[c] \in Conn /\ conn[c].received \in Nat
  BY AtRest, ConnFields DEF WriteInv, Loop
<1>2. /\ s.conn[c].received = conn[c].received + n /\ s.conn[c].handle = conn[c].handle
      /\ s.conn[c].redirecting = conn[c].redirecting /\ s.replies = replies
  <2>1. s.conn[c] = [[conn[c] EXCEPT !.received = @ + n] EXCEPT !.buffer = @ \o Completed(c, n)]
        /\ s.replies = replies
    BY <1>1 DEF Received, Loop
  <2> HIDE DEF s
  <2> QED
    BY <1>1, <2>1 DEF Conn
<1> HIDE DEF s
<1>3. /\ conn'[c].received = conn[c].received + n
      /\ conn'[c].handle = "none" <=> conn[c].handle = "none"
      /\ \/ replies'[c] = replies[c]
         \/ /\ replies'[c] = Append(replies[c], "redirect")
            /\ conn'[c].handle = "open" => conn'[c].redirecting
  BY <1>1, <1>2 DEF Tells, s
<1>4. Quiet(c) /\ SocketInv(c)
  BY Knowing DEF Known, ConnInv
<1>5. conn[c].handle = "open" /\ ~conn[c].redirecting
  BY DEF OnClientRead, Reading
<1>6. \A j : ~Redirected(c, j)
  BY <1>4, <1>5 DEF Quiet
<1>7. Grows(c)
  BY <1>3, <1>6 DEF Grows
<1>8. socket[c].state # "unused"
  BY <1>4, <1>5 DEF SocketInv
<1>9. \A j : NextRedirected(c, j) => conn'[c].handle # "open" \/ conn'[c].redirecting
  BY <1>3, <1>6 DEF NextRedirected, Redirected
<1> QED
  BY <1>3, <1>5, <1>6, <1>7, <1>8, <1>9 DEF Serves

\* A connection is accepted once it was opened.
LEMMA GreetingServes ==
  ASSUME WriteInv, NEW c \in Conns, conn[c].handle = "none", Greets(c),
         socket[c].state # "unused"
  PROVE  Serves(c)
<1>1. Quiet(c) /\ SocketInv(c)
  BY Knowing DEF Known, ConnInv
<1>2. replies[c] = <<>> /\ \A j : ~Redirected(c, j)
  BY <1>1 DEF Quiet, Redirected
<1>3. Grows(c)
  BY <1>2 DEF Grows, Greets
<1>4. Records(Len(socket[c].carries)) \in Nat
  BY SocketFields, Batches DEF WriteInv
<1>5. \A j : NextRedirected(c, j) => conn'[c].handle # "open" \/ conn'[c].redirecting
  BY <1>2 DEF Greets, NextRedirected, Redirected
<1> QED
  BY <1>2, <1>3, <1>4, <1>5 DEF Serves, Greets

\* Steps of the servers, each of which serves its connections.
LEMMA ServersKeep ==
  ASSUME WriteInv, InsertInv', UNCHANGED clientVars, \A c \in Conns : Serves(c),
         \A c \in Conns : ToSet(applied[c]) \subseteq ToSet(applied'[c])
  PROVE  WriteInv'
<1>1. writer' = writer /\ registry' = registry /\ socket' = socket /\ written' = written
  BY DEF clientVars
<1>2. \A c \in Conns : ConnInv(c)'
  BY <1>1, Served
<1>3. ClientTypes'
  BY <1>1 DEF WriteInv, ClientTypes
<1>4. CleanBatchIsApplied'
  BY <1>1, ReportsKept
<1>5. WriterInv'
  <2> SUFFICES ASSUME writer.pc \in {"first", "rest"}
               PROVE  Waiting(writer.conn)'
    BY <1>1 DEF WriterInv
  <2>1. PICK c : c = writer.conn
    OBVIOUS
  <2>2. Waiting(c)
    BY <2>1 DEF WriteInv, WriterInv
  <2>3. c \in Conns
    BY <2>2 DEF Waiting
  <2>4. /\ Known(c) /\ Serves(c)
    BY <2>3, Knowing
  <2>5. /\ Length(c) \in Nat
        /\ \A p \in 1..Length(c) : Stream(c)[p] = "ack" => Stream(c)'[p] = "ack"
    BY <2>4, GrowingStream DEF Known, Serves
  <2> DEFINE k == socket[c]
             m == Len(k.carries)
  <2>6. writer.pc = "rest" => k.read \in 1..Length(c)
    <3> SUFFICES ASSUME writer.pc = "rest" PROVE k.read \in 1..Length(c)
      OBVIOUS
    <3>1. k.read = Records(m - 1) + 1
      BY <2>2 DEF Waiting, One
    <3>2. SocketInv(c)
      BY <2>4 DEF Known, ConnInv
    <3>3. m \in Nat \ {0} /\ k.read \in Nat
      <4>1. k.state # "unused"
        BY <2>2 DEF Waiting
      <4>2. m > 0
        BY <3>2, <4>1 DEF SocketInv
      <4>3. m \in Nat /\ k.read \in Nat
        BY <2>3, SocketFields DEF WriteInv
      <4> QED
        BY <4>2, <4>3
    <3>4. PICK M \in Nat : M = Records(m - 1)
      BY <3>3, Batches
    <3>5. k.read >= 1
      BY <3>1, <3>4
    <3>6. k.read <= Length(c)
      BY <3>2 DEF SocketInv, Length
    <3> QED
      BY <2>5, <3>3, <3>5, <3>6
  <2>7. writer.pc = "rest" /\ writer.clean => Stream(c)'[k.read] = "ack"
    BY <2>2, <2>5, <2>6 DEF Waiting
  <2>8. \A n : Records(n)' = Records(n)
    BY DEF Records
  <2>9. Waiting(c)'
    BY <1>1, <2>2, <2>7, <2>8 DEF Waiting
  <2> QED
    BY <1>1, <2>1, <2>9
<1> QED
  BY <1>2, <1>3, <1>4, <1>5 DEF WriteInv

\* A step that applies nothing.
LEMMA ServersTell ==
  ASSUME WriteInv, InsertInv', UNCHANGED clientVars, Talks, applied' = applied
  PROVE  WriteInv'
BY TellingServes, ServersKeep DEF Talks

\* One connection's callback that sends no acknowledgement.
LEMMA ServersAnswer ==
  ASSUME WriteInv, InsertInv', UNCHANGED clientVars, applied' = applied,
         NEW c \in Conns, Serves(c), \A d \in Conns \ {c} : Tells(Loop, Loop', d)
  PROVE  WriteInv'
BY TellingServes, ServersKeep

\* The bytes of the batches that were sent.
LEMMA Fragments ==
  ASSUME WriteInv, NEW c \in Conns, NEW n \in 1..(2 * BatchLen * Len(socket[c].carries) - conn[c].received)
  PROVE  n \in Nat /\ conn[c].received + n <= 2 * Records(Len(socket[c].carries))
<1>1. PICK m \in Nat : m = Len(socket[c].carries)
  BY SocketFields DEF WriteInv
<1>2. PICK r \in Nat : r = conn[c].received
  BY AtRest, ConnFields DEF WriteInv
<1>3. BatchLen \in Nat
  BY Lengths
<1>4. 2 * BatchLen * m = 2 * Records(m) /\ Records(m) \in Nat
  <2>1. \A a, b \in Nat : 2 * a * b = 2 * (b * a) /\ b * a \in Nat
    OBVIOUS
  <2>2. 2 * BatchLen * m = 2 * (m * BatchLen) /\ m * BatchLen \in Nat
    BY <1>3, <2>1
  <2> QED
    BY <2>2 DEF Records
<1> QED
  BY <1>1, <1>2, <1>4

\* What the servers do with a client's connection.
LEMMA ServeClientKeeps ==
  ASSUME WriteInv, NEW c \in Conns, ServeClient(c), UNCHANGED clientVars
  PROVE  WriteInv' /\ Next
<1>1. InsertInv
  BY DEF WriteInv
<1>2. CASE socket[c].state # "unused" /\ OnInsertConnection(c, socket[c].node)
  <2>1. socket[c].node \in Nodes
    BY <1>2 DEF WriteInv, ConnInv, SocketInv
  <2>2. InsertInv' /\ Greets(c) /\ \A d \in Conns \ {c} : Tells(Loop, Loop', d)
    BY <1>1, <1>2, <2>1, InsertConnectionKeeps
  <2>3. conn[c].handle = "none" /\ applied' = applied
    BY <1>2 DEF OnInsertConnection
  <2>4. Serves(c)
    BY <1>2, <2>2, <2>3, GreetingServes
  <2>5. WriteInv'
    BY <2>2, <2>3, <2>4, ServersAnswer
  <2> QED
    BY <1>2, <2>1, <2>5 DEF Next
<1>3. CASE conn[c].node \in Running /\ \E n \in 1..(2 * BatchLen * Len(socket[c].carries) - conn[c].received) : OnClientRead(c, n)
  <2>1. PICK n \in 1..(2 * BatchLen * Len(socket[c].carries) - conn[c].received) : OnClientRead(c, n)
    BY <1>3
  <2>2. n \in Nat /\ conn[c].received + n <= 2 * Records(Len(socket[c].carries)) /\ n > 0
    BY Fragments
  <2>3. n \in 1..(2 * MaxMessages)
    <3>1. conn[c].received + n <= 2 * MaxMessages
      BY <2>1 DEF OnClientRead
    <3>2. conn[c].received \in Nat /\ MaxMessages \in Nat
      BY <1>1, AtRest, ConnFields, Messages
    <3> QED
      BY <2>2, <3>1, <3>2
  <2>4. /\ InsertInv' /\ Tells(Received(c, n), Loop', c)
        /\ \A d \in Conns \ {c} : Tells(Loop, Loop', d)
    BY <1>1, <2>1, <2>3, ClientReadKeeps
  <2>5. Serves(c)
    BY <2>1, <2>2, <2>4, ReadingServes
  <2>6. applied' = applied
    BY <2>1 DEF OnClientRead
  <2>7. WriteInv'
    BY <2>4, <2>5, <2>6, ServersAnswer
  <2> QED
    BY <1>3, <2>1, <2>3, <2>7 DEF Next, ServerStep
<1>4. CASE conn[c].node \in Running /\ OnClientEnd(c)
  <2>1. InsertInv' /\ Talks
    BY <1>1, <1>4, ClientEndKeeps
  <2>2. applied' = applied
    BY <1>4 DEF OnClientEnd
  <2> QED
    BY <1>4, <2>1, <2>2, ServersTell DEF Next, ServerStep
<1>5. CASE conn[c].node \in Running /\ StatsTimer(c)
  <2>1. InsertInv' /\ Talks
    BY <1>1, <1>5, StatsTimerKeeps
  <2>2. applied' = applied
    BY <1>5 DEF StatsTimer
  <2> QED
    BY <1>5, <2>1, <2>2, ServersTell DEF Next, ServerStep
<1>6. CASE conn[c].node \in Running /\ OnAckWriteComplete(c)
  <2>1. InsertInv' /\ Talks
    BY <1>1, <1>6, AckWriteCompleteKeeps
  <2>2. applied' = applied
    BY <1>6 DEF OnAckWriteComplete
  <2> QED
    BY <1>6, <2>1, <2>2, ServersTell DEF Next, ServerStep
<1>7. CASE conn[c].node \in Running /\ OnRedirectWriteComplete(c)
  <2>1. InsertInv' /\ Talks
    BY <1>1, <1>7, RedirectWriteCompleteKeeps
  <2>2. applied' = applied
    BY <1>7 DEF OnRedirectWriteComplete
  <2> QED
    BY <1>7, <2>1, <2>2, ServersTell DEF Next, ServerStep
<1>8. CASE conn[c].node \in Running /\ OnClientClose(c)
  <2>1. InsertInv' /\ Talks
    BY <1>1, <1>8, ClientCloseKeeps
  <2>2. applied' = applied
    BY <1>8 DEF OnClientClose
  <2> QED
    BY <1>8, <2>1, <2>2, ServersTell DEF Next, ServerStep
<1> QED
  BY <1>2, <1>3, <1>4, <1>5, <1>6, <1>7, <1>8 DEF ServeClient

\* Raft and the storage engine.
LEMMA ClusterKeeps ==
  ASSUME WriteInv, NEW n \in Nodes, UNCHANGED clientVars,
         MemtableFlushed(n) \/ StepDown(n) \/ \E k \in {0} \cup DOMAIN log : Elect(n, k)
  PROVE  WriteInv' /\ Next
<1>1. InsertInv
  BY DEF WriteInv
<1>2. CASE MemtableFlushed(n)
  <2>1. InsertInv' /\ Talks
    BY <1>1, <1>2, MemtableFlushedKeeps
  <2>2. applied' = applied
    BY <1>2 DEF MemtableFlushed
  <2> QED
    BY <1>2, <2>1, <2>2, ServersTell DEF Next, NodeStep
<1>3. CASE StepDown(n)
  <2>1. InsertInv' /\ Talks
    BY <1>1, <1>3, StepDownKeeps
  <2>2. applied' = applied
    BY <1>3 DEF StepDown
  <2> QED
    BY <1>3, <2>1, <2>2, ServersTell DEF Next, NodeStep
<1>4. CASE \E k \in {0} \cup DOMAIN log : Elect(n, k)
  <2>1. PICK k \in {0} \cup DOMAIN log : Elect(n, k)
    BY <1>4
  <2>2. InsertInv' /\ Talks
    BY <1>1, <2>1, ElectKeeps
  <2>3. applied' = applied
    BY <2>1 DEF Elect
  <2> QED
    BY <2>1, <2>2, <2>3, ServersTell DEF Next, NodeStep
<1> QED
  BY <1>2, <1>3, <1>4

\* An entry is applied: what was applied before stays.
LEMMA ApplyKeeps ==
  ASSUME WriteInv, NEW i \in DOMAIN log, FsmApply(i), UNCHANGED clientVars
  PROVE  WriteInv' /\ Next
<1>1. InsertInv
  BY DEF WriteInv
<1>2. InsertInv' /\ \A d \in Conns : Tells(Loop, Loop', d) \/ Acknowledges(Loop, Loop', d)
  BY <1>1, FsmApplyKeeps
<1>3. \A c \in Conns : Serves(c)
  BY <1>2, TellingServes, AcknowledgingServes
<1>4. ASSUME NEW c \in Conns
      PROVE  ToSet(applied[c]) \subseteq ToSet(applied'[c])
  <2>1. log \in Logs /\ applied \in [Conns -> Seq(Message)] /\ log[i] \in Entry
    BY <1>1, <1>4, AtRest, InLog
  <2>2. applied' = [applied EXCEPT ![log[i].conn] = @ \o log[i].msgs]
    BY DEF FsmApply
  <2> DEFINE p == applied[c]
             q == log[i].msgs
             r == p \o q
  <2>3. p \in Seq(Message) /\ q \in Seq(Message)
    BY <2>1 DEF Entry
  <2>4. CASE applied'[c] = r
    <3>1. r \in Seq(Message) /\ Len(r) = Len(p) + Len(q)
          /\ \A j \in 1..(Len(p) + Len(q)) : r[j] = IF j <= Len(p) THEN p[j] ELSE q[j - Len(p)]
      BY <2>3, ConcatProperties, ZenonT(30)
    <3>2. /\ DOMAIN r = 1..Len(r) /\ DOMAIN p = 1..Len(p)
          /\ Len(p) \in Nat /\ Len(q) \in Nat
      BY <2>3, <3>1, LenProperties
    <3> HIDE DEF p, q, r
    <3>3. \A j \in DOMAIN p : j \in DOMAIN r /\ r[j] = p[j]
      <4> SUFFICES ASSUME NEW j \in DOMAIN p PROVE j \in DOMAIN r /\ r[j] = p[j]
        OBVIOUS
      <4>1. j \in 1..(Len(p) + Len(q)) /\ j <= Len(p)
        BY <3>2
      <4> QED
        BY <3>1, <3>2, <4>1
    <3> QED
      BY <2>4, <3>3 DEF ToSet, p
  <2>5. CASE applied'[c] = p
    BY <2>5
  <2> QED
    BY <2>1, <2>2, <2>4, <2>5
<1>5. WriteInv'
  BY <1>2, <1>3, <1>4, ServersKeep
<1> QED
  BY <1>5 DEF Next

---------------------------------------------------------------------------
(* The steps of the thread.                                                *)

\* A step of the thread leaves the servers alone.
LEMMA ServersRest ==
  ASSUME WriteInv, UNCHANGED vars
  PROVE  /\ InsertInv' /\ conn' = conn /\ replies' = replies /\ applied' = applied
         /\ \A c : /\ Length(c)' = Length(c) /\ Stream(c)' = Stream(c)
                   /\ \A j : Redirected(c, j)' <=> Redirected(c, j)
         /\ \A n : Records(n)' = Records(n)
         /\ \A c \in Conns : Quiet(c)'
<1>1. conn' = conn /\ replies' = replies /\ applied' = applied
  BY DEF vars
<1>2. InsertInv'
  BY InsertStep DEF WriteInv
<1>3. \A c, n : Sent(c, n)' = Sent(c, n)
  BY <1>1 DEF Sent
<1>4. \A c : Length(c)' = Length(c)
  BY <1>1 DEF Length, Sent
<1>5. \A c : Stream(c)' = Stream(c)
  BY <1>1 DEF Stream, Sent
<1>6. \A c, j : Redirected(c, j)' <=> Redirected(c, j)
  BY <1>1 DEF Redirected
<1>7. ASSUME NEW c \in Conns
      PROVE  Quiet(c)'
  <2>1. Quiet(c)
    BY DEF WriteInv, ConnInv
  <2> QED
    BY <1>1, <1>6, <2>1 DEF Quiet
<1>8. \A n : Records(n)' = Records(n)
  BY DEF Records
<1> QED
  BY <1>1, <1>2, <1>4, <1>5, <1>6, <1>7, <1>8

\* A socket that keeps what it carries and what was read keeps the bounds.
LEMMA SocketKept ==
  ASSUME WriteInv, UNCHANGED vars, NEW c \in Conns,
         socket'[c].node = socket[c].node, socket'[c].carries = socket[c].carries,
         socket'[c].read = socket[c].read,
         \/ socket'[c].state = socket[c].state
         \/ socket'[c].state = "closed" /\ socket[c].state # "unused"
  PROVE  ConnInv(c)'
<1>1. ConnInv(c)
  BY DEF WriteInv
<1>2. /\ conn' = conn /\ replies' = replies /\ Quiet(c)' /\ Length(c)' = Length(c)
      /\ \A j : Redirected(c, j)' <=> Redirected(c, j)
      /\ \A n : Records(n)' = Records(n)
  BY ServersRest
<1>3. SocketInv(c)'
  BY <1>1, <1>2 DEF ConnInv, SocketInv, Length
<1>4. CutInv(c)'
  BY <1>1, <1>2 DEF ConnInv, CutInv
<1> QED
  BY <1>2, <1>3, <1>4 DEF ConnInv

\* The thread gives up an attempt, or goes on to its next batch.
LEMMA MovingOn ==
  ASSUME writer \in Writer
  PROVE  /\ NextBatch(writer) \in Writer /\ NextBatch(writer).pc \notin {"first", "rest"}
         /\ Failed(writer) \in Writer /\ Failed(writer).pc \notin {"first", "rest"}
<1>1. /\ writer.batch \in Nat /\ writer.retries \in Nat
      /\ writer.pc \in {"pick", "first", "rest", "done"}
      /\ writer = [pc |-> writer.pc, batch |-> writer.batch, retries |-> writer.retries,
                   conn |-> writer.conn, clean |-> writer.clean]
  BY DEF Writer
<1>2. NextBatch(writer) \in Writer /\ NextBatch(writer).pc \notin {"first", "rest"}
  <2>1. PICK pc \in {"pick", "done"} : pc = IF writer.batch < MaxBatches THEN "pick" ELSE "done"
    OBVIOUS
  <2>2. NextBatch(writer) = [pc |-> pc, batch |-> writer.batch + 1, retries |-> 0,
                             conn |-> NoNode, clean |-> TRUE]
    <3>1. NextBatch(writer) = [writer EXCEPT !.pc = pc, !.batch = writer.batch + 1, !.retries = 0,
                                             !.conn = NoNode, !.clean = TRUE]
      BY <2>1, Zenon DEF NextBatch
    <3> QED
      BY <1>1, <3>1
  <2>3. writer.batch + 1 \in Nat
    BY <1>1
  <2> QED
    BY <2>2, <2>3 DEF Writer
<1>3. Failed(writer) \in Writer /\ Failed(writer).pc \notin {"first", "rest"}
  <2>1. CASE writer.retries + 1 < MaxRetries
    <3>1. Failed(writer) = [pc |-> "pick", batch |-> writer.batch, retries |-> writer.retries + 1,
                            conn |-> NoNode, clean |-> TRUE]
      BY <1>1, <2>1 DEF Failed
    <3>2. writer.retries + 1 \in Nat
      BY <1>1
    <3> QED
      BY <1>1, <3>1, <3>2 DEF Writer
  <2>2. CASE ~(writer.retries + 1 < MaxRetries)
    BY <1>2, <2>2 DEF Failed
  <2> QED
    BY <2>1, <2>2
<1> QED
  BY <1>2, <1>3

\* The thread closes its socket and tries again or goes on.
LEMMA Leaving ==
  ASSUME WriteInv, UNCHANGED vars, written' = written,
         writer.pc \in {"first", "rest"}, registry' \in Nodes \cup {NoNode},
         socket' = [socket EXCEPT ![writer.conn].state = "closed"],
         writer' \in Writer, writer'.pc \notin {"first", "rest"}
  PROVE  WriteInv'
<1>1. PICK c : c = writer.conn
  OBVIOUS
<1>2. Waiting(c)
  BY <1>1 DEF WriteInv, WriterInv
<1>3. c \in Conns /\ socket[c].state = "busy"
  BY <1>2 DEF Waiting
<1>4. socket' = [socket EXCEPT ![c].state = "closed"]
  BY <1>1
<1>5. socket \in [Conns -> Socket] /\ socket[c] \in Socket
  BY <1>3 DEF WriteInv, ClientTypes
<1>6. /\ socket'[c].node = socket[c].node /\ socket'[c].carries = socket[c].carries
      /\ socket'[c].read = socket[c].read /\ socket'[c].state = "closed"
      /\ \A d \in Conns \ {c} : socket'[d] = socket[d]
      /\ socket' \in [Conns -> Socket]
  BY <1>3, <1>4, <1>5 DEF Socket
<1>7. \A d \in Conns : ConnInv(d)'
  BY <1>3, <1>6, SocketKept
<1>8. ClientTypes'
  BY <1>6 DEF ClientTypes
<1>9. WriterInv'
  BY DEF WriterInv
<1>10. CleanBatchIsApplied'
  <2>1. applied' = applied
    BY ServersRest
  <2>2. \A d \in Conns : \A i \in DOMAIN socket[d].carries :
          socket'[d].carries[i] = socket[d].carries[i]
    BY <1>6
  <2> QED
    BY <2>1, <2>2, ReportsKept
<1>11. InsertInv'
  BY ServersRest
<1> QED
  BY <1>7, <1>8, <1>9, <1>10, <1>11 DEF WriteInv

\* _recv_redirect and every failure.
LEMMA FollowRedirectKeeps ==
  ASSUME WriteInv, NEW l \in Nodes \cup {NoNode}, FollowRedirect(l)
  PROVE  WriteInv'
<1>1. writer \in Writer
  BY DEF WriteInv, ClientTypes
<1>2. writer' \in Writer /\ writer'.pc \notin {"first", "rest"}
  <2>1. CASE l = NoNode
    BY <1>1, <2>1, MovingOn DEF FollowRedirect
  <2>2. CASE l # NoNode
    <3>1. writer' = [writer EXCEPT !.pc = "pick", !.conn = NoNode]
      BY <2>2 DEF FollowRedirect
    <3> QED
      BY <1>1, <3>1 DEF Writer
  <2> QED
    BY <2>1, <2>2
<1> QED
  BY <1>2, Leaving DEF FollowRedirect

\* A timeout, or a connection that was closed.
LEMMA FailKeeps ==
  ASSUME WriteInv, Fail
  PROVE  WriteInv'
<1>1. writer' \in Writer /\ writer'.pc \notin {"first", "rest"}
  BY MovingOn DEF Fail, WriteInv, ClientTypes
<1> QED
  BY <1>1, Leaving DEF Fail

\* The thread sends to a node of the cluster.
LEMMA CurrentNodeIsOne ==
  ASSUME WriteInv
  PROVE  CurrentNode \in Nodes
<1>1. registry \in Nodes \cup {NoNode} /\ writer.retries \in Nat
  BY DEF WriteInv, ClientTypes, Writer
<1>2. PICK n \in Nat : n = Cardinality(Nodes)
  BY WriteConstants, FS_CardinalityType
<1>3. Nodes = 1..n /\ n > 0
  <2>1. Nodes = 1..n
    BY <1>2, WriteConstants
  <2>2. n # 0
    <3> SUFFICES ASSUME n = 0 PROVE FALSE
      OBVIOUS
    <3>1. Nodes = {}
      BY <2>1
    <3> QED
      BY <3>1 DEF WriteInv
  <2> QED
    BY <2>1, <2>2
<1>4. CASE registry # NoNode
  BY <1>1, <1>4 DEF CurrentNode
<1>5. CASE registry = NoNode
  <2>1. writer.retries % n \in 0..(n - 1)
    BY <1>1, <1>3
  <2>2. (writer.retries % n) + 1 \in 1..n
    BY <1>3, <2>1
  <2> QED
    BY <1>2, <1>3, <1>5, <2>2 DEF CurrentNode
<1> QED
  BY <1>4, <1>5

\* _get_socket and sendall: the batch is the next one of its socket.
LEMMA SendBatchKeeps ==
  ASSUME WriteInv, NEW c \in Conns, SendBatch(c)
  PROVE  WriteInv'
<1> DEFINE P == Pooled(CurrentNode)
           v == [socket[c] EXCEPT !.node = CurrentNode, !.state = "busy",
                                  !.carries = Append(@, writer.batch)]
<1>1. /\ socket[c] \in Socket /\ socket[c].carries \in Seq(Nat) /\ socket[c].read \in Nat
      /\ socket \in [Conns -> Socket] /\ writer \in Writer /\ writer.batch \in Nat
      /\ registry \in Nodes \cup {NoNode}
  BY SocketFields DEF WriteInv, ClientTypes, Writer
<1>2. /\ InsertInv' /\ conn' = conn /\ applied' = applied /\ Quiet(c)'
      /\ Length(c)' = Length(c)
      /\ \A j : Redirected(c, j)' <=> Redirected(c, j)
      /\ \A n : Records(n)' = Records(n)
  BY ServersRest DEF SendBatch
<1>3. writer.pc = "pick" /\ (socket[c].state = "unused" \/ c \in P)
  BY DEF SendBatch
<1>4. writer' = [writer EXCEPT !.pc = "first", !.conn = c] /\ UNCHANGED vars
      /\ registry' = registry /\ written' = written
  BY DEF SendBatch
<1>5. CurrentNode \in Nodes
  BY CurrentNodeIsOne
<1>6. PICK m \in Nat : m = Len(socket[c].carries)
  BY SocketFields DEF WriteInv
<1>7. PICK q : q = Append(socket[c].carries, writer.batch)
  OBVIOUS
<1>8. /\ q \in Seq(Nat) /\ Len(q) = m + 1 /\ q[m + 1] = writer.batch
      /\ \A i \in 1..m : q[i] = socket[c].carries[i]
      /\ DOMAIN socket[c].carries = 1..m
  BY <1>1, <1>6, <1>7, AppendProperties, LenProperties
<1>9. /\ v \in Socket /\ v.node = CurrentNode /\ v.state = "busy" /\ v.carries = q
      /\ v.read = socket[c].read
  <2>1. PICK n \in Nodes : n = CurrentNode
    BY <1>5
  <2>2. v = [socket[c] EXCEPT !.node = n, !.state = "busy", !.carries = q]
    BY <1>7, <2>1, Zenon
  <2> HIDE DEF v
  <2> QED
    BY <1>1, <1>8, <2>1, <2>2 DEF Socket
<1>10. /\ socket'[c] = v /\ socket' \in [Conns -> Socket]
       /\ \A d \in Conns \ {c} : \/ socket'[d] = socket[d]
                                 \/ d \in P /\ socket'[d] = [socket[d] EXCEPT !.state = "closed"]
  <2>1. socket' = [d \in Conns |->
                    CASE d = c -> v
                      [] d # c /\ d \in P -> [socket[d] EXCEPT !.state = "closed"]
                      [] OTHER -> socket[d]]
    BY DEF SendBatch
  <2> HIDE DEF v, P
  <2>2. socket'[c] = v
    BY <2>1
  <2>3. \A d \in Conns \ {c} : \/ socket'[d] = socket[d]
                               \/ d \in P /\ socket'[d] = [socket[d] EXCEPT !.state = "closed"]
    BY <2>1
  <2>4. ASSUME NEW d \in Conns \ {c}
        PROVE  socket'[d] \in Socket
    <3>1. socket[d] \in Socket
      BY <1>1
    <3>2. [socket[d] EXCEPT !.state = "closed"] \in Socket
      BY <3>1 DEF Socket
    <3> QED
      BY <2>3, <3>1, <3>2
  <2>5. socket' \in [Conns -> Socket]
    BY <1>9, <2>1, <2>2, <2>4
  <2> QED
    BY <2>2, <2>3, <2>5
<1> HIDE DEF v
<1>11. /\ ConnInv(c)
       /\ socket[c].state = "unused" => m = 0 /\ socket[c].read = 0
       /\ socket[c].state = "pooled" => socket[c].read = Records(m)
       /\ socket[c].read <= Records(m) /\ socket[c].read <= Length(c)
       /\ conn[c].received <= 2 * Records(m)
  BY <1>6 DEF WriteInv, ConnInv, SocketInv, Length
<1>12. socket[c].read = Records(m)
  <2>1. CASE socket[c].state = "unused"
    BY <1>11, <2>1, Batches
  <2>2. CASE c \in P
    BY <1>11, <2>2 DEF Pooled
  <2> QED
    BY <1>3, <2>1, <2>2
<1>13. /\ Records(m) \in Nat /\ Records(m + 1) = Records(m) + BatchLen /\ BatchLen \in Nat
       /\ (m + 1) - 1 = m
  <2>1. Records(m) \in Nat /\ Records(m + 1) = Records(m) + BatchLen
    BY Batches
  <2>2. (m + 1) - 1 = m
    OBVIOUS
  <2> QED
    BY <2>1, <2>2, Lengths
<1>14. ConnInv(c)'
  <2>1. PICK R \in Nat : R = Records(m)
    BY <1>13
  <2>2. PICK S \in Nat : S = Records(m + 1) /\ S >= R
    BY <1>13, <2>1
  <2>3. conn[c].received \in Nat
    BY AtRest, ConnFields DEF WriteInv
  <2>4. SocketInv(c)'
    <3>1. conn'[c].received <= 2 * S
      BY <1>2, <1>11, <2>1, <2>2, <2>3
    <3>2. socket[c].read <= S /\ socket[c].read = R
      BY <1>12, <2>1, <2>2
    <3>3. PICK w : w = socket'[c]
      OBVIOUS
    <3>4. /\ w.state = "busy" /\ w.node \in Nodes /\ w.read = R /\ Len(w.carries) = m + 1
          /\ Records(Len(w.carries) - 1) = R /\ Records(Len(w.carries)) = S
          /\ Len(w.carries) > 0 /\ R <= S
      BY <1>5, <1>8, <1>9, <1>10, <1>13, <2>1, <2>2, <3>2, <3>3
    <3>5. R <= Length(c)'
      BY <1>2, <1>11, <3>2
    <3> QED
      BY <1>2, <3>1, <3>3, <3>4, <3>5 DEF SocketInv, Length
  <2>5. CutInv(c)'
    <3>1. ASSUME NEW j, Redirected(c, j)
          PROVE  \E k \in 1..(m + 1) : /\ conn[c].received <= 2 * Records(k) /\ Records(k - 1) < j
                                       /\ j <= socket[c].read => Records(k - 1) + 1 < j
      <4>1. PICK k \in 1..m : /\ conn[c].received <= 2 * Records(k) /\ Records(k - 1) < j
                              /\ j <= socket[c].read => Records(k - 1) + 1 < j
        BY <1>6, <1>11, <3>1 DEF ConnInv, CutInv
      <4>2. k \in 1..(m + 1)
        BY <1>6
      <4> QED
        BY <4>1, <4>2
    <3> QED
      BY <1>2, <1>8, <1>9, <1>10, <3>1 DEF CutInv
  <2> QED
    BY <1>2, <2>4, <2>5 DEF ConnInv
<1>15. ASSUME NEW d \in Conns \ {c}
       PROVE  ConnInv(d)'
  <2>1. CASE socket'[d] = socket[d]
    BY <1>4, <2>1, SocketKept
  <2>2. CASE d \in P /\ socket'[d] = [socket[d] EXCEPT !.state = "closed"]
    <3>1. socket[d] \in Socket /\ socket[d].state = "pooled"
      BY <1>1, <2>2 DEF Pooled
    <3>2. /\ socket'[d].node = socket[d].node /\ socket'[d].carries = socket[d].carries
          /\ socket'[d].read = socket[d].read /\ socket'[d].state = "closed"
      BY <2>2, <3>1 DEF Socket
    <3> QED
      BY <1>4, <3>1, <3>2, SocketKept
  <2> QED
    BY <1>10, <2>1, <2>2
<1>16. ClientTypes'
  <2>1. writer' \in Writer
    BY <1>1, <1>4 DEF Writer
  <2> QED
    BY <1>1, <1>4, <1>10, <2>1 DEF ClientTypes
<1>17. WriterInv'
  <2>1. writer'.pc = "first" /\ writer'.conn = c /\ writer'.batch = writer.batch
    BY <1>1, <1>4 DEF Writer
  <2>2. Waiting(c)'
    <3>1. socket[c].read = Records((m + 1) - 1) + 0
      BY <1>12, <1>13
    <3>2. One(writer.pc = "rest")' = 0
      BY <2>1 DEF One
    <3> QED
      BY <1>2, <1>8, <1>9, <1>10, <2>1, <3>1, <3>2 DEF Waiting
  <2> QED
    BY <2>1, <2>2 DEF WriterInv
<1>18. CleanBatchIsApplied'
  <2>1. ASSUME NEW d \in Conns, NEW i \in DOMAIN socket[d].carries
        PROVE  socket'[d].carries[i] = socket[d].carries[i]
    <3>1. CASE d = c
      BY <1>8, <1>9, <1>10, <2>1, <3>1
    <3>2. CASE d # c
      <4>1. socket[d] \in Socket
        BY <1>1
      <4>2. socket'[d].carries = socket[d].carries
        BY <1>10, <3>2, <4>1 DEF Socket
      <4> QED
        BY <4>2
    <3> QED
      BY <3>1, <3>2
  <2> QED
    BY <1>2, <1>4, <2>1, ReportsKept
<1>19. \A d \in Conns : ConnInv(d)'
  BY <1>14, <1>15
<1> QED
  BY <1>2, <1>16, <1>17, <1>18, <1>19 DEF WriteInv

\* More of a batch was read: n bytes, none of which is the first of a redirect
\* that the next byte could be.
Advances(c, n) ==
  /\ socket'[c].node = socket[c].node /\ socket'[c].carries = socket[c].carries
  /\ socket'[c].read = socket[c].read + n
  /\ socket'[c].read <= Records(Len(socket[c].carries)) /\ socket'[c].read <= Length(c)
  /\ \/ socket'[c].state = socket[c].state
     \/ socket'[c].state = "pooled" /\ socket'[c].read = Records(Len(socket[c].carries))
  /\ socket' \in [Conns -> Socket] /\ \A d \in Conns \ {c} : socket'[d] = socket[d]
  /\ \A j : Redirected(c, j) /\ j > socket[c].read /\ j <= socket'[c].read =>
       Records(Len(socket[c].carries) - 1) + 1 < j

\* Reading keeps what is known of the sockets.
LEMMA ReadingKeeps ==
  ASSUME WriteInv, UNCHANGED vars, NEW c \in Conns, socket[c].state = "busy",
         NEW n \in Nat, Advances(c, n)
  PROVE  \A d \in Conns : ConnInv(d)'
<1>1. ConnInv(c) /\ replies[c] \in Replies
  BY Knowing DEF Known
<1>2. /\ conn' = conn /\ replies' = replies /\ Quiet(c)' /\ Length(c)' = Length(c)
      /\ \A j : Redirected(c, j)' <=> Redirected(c, j)
      /\ \A i : Records(i)' = Records(i)
  BY ServersRest
<1>3. PICK m \in Nat : m = Len(socket[c].carries)
  BY SocketFields DEF WriteInv
<1>4. PICK r \in Nat : r = socket[c].read
  BY SocketFields DEF WriteInv
<1>5. PICK w : w = socket'[c]
  OBVIOUS
<1>6. /\ w.node = socket[c].node /\ w.carries = socket[c].carries /\ w.read = r + n
      /\ w.read <= Records(m) /\ w.read <= Length(c)
      /\ w.state = "busy" \/ (w.state = "pooled" /\ w.read = Records(m))
      /\ \A j : Redirected(c, j) /\ j > r /\ j <= w.read => Records(m - 1) + 1 < j
  BY <1>3, <1>4, <1>5 DEF Advances
<1>7. /\ socket[c].node \in Nodes /\ m > 0 /\ Records(m - 1) <= r
      /\ conn[c].received <= 2 * Records(m)
  BY <1>1, <1>3, <1>4 DEF ConnInv, SocketInv
<1>8. PICK M \in Nat : M = Records(m - 1)
  BY <1>7, Batches
<1>9. SocketInv(c)'
  <2>1. M <= w.read
    BY <1>4, <1>6, <1>7, <1>8
  <2> QED
    BY <1>2, <1>3, <1>5, <1>6, <1>7, <1>8, <2>1 DEF SocketInv, Length
<1>10. CutInv(c)'
  <2>1. ASSUME NEW j, Redirected(c, j)
        PROVE  \E k \in 1..m : /\ conn[c].received <= 2 * Records(k) /\ Records(k - 1) < j
                               /\ j <= w.read => Records(k - 1) + 1 < j
    <3>1. PICK k \in 1..m : /\ conn[c].received <= 2 * Records(k) /\ Records(k - 1) < j
                            /\ j <= r => Records(k - 1) + 1 < j
      BY <1>1, <1>3, <1>4, <2>1 DEF ConnInv, CutInv
    <3>2. j \in Nat
      BY <1>1, <2>1, LenProperties DEF Redirected, Replies
    <3>3. k \in Nat \ {0} /\ k - 1 \in Nat /\ m - 1 \in Nat /\ k - 1 <= m - 1
      BY <3>1
    <3>4. Records(k - 1) \in Nat /\ Records(k - 1) <= M
      BY <1>8, <3>3, Batches
    <3>5. j <= w.read => Records(k - 1) + 1 < j
      BY <1>4, <1>6, <1>8, <2>1, <3>1, <3>2, <3>4
    <3> QED
      BY <3>1, <3>5
  <2> QED
    BY <1>2, <1>3, <1>5, <1>6, <2>1 DEF CutInv
<1>11. ASSUME NEW d \in Conns \ {c}
       PROVE  ConnInv(d)'
  <2>1. socket'[d] = socket[d]
    BY DEF Advances
  <2> QED
    BY <2>1, SocketKept
<1> QED
  BY <1>2, <1>9, <1>10, <1>11 DEF ConnInv

\* What the thread waits for.
LEMMA WaitingFor ==
  ASSUME WriteInv, writer.pc \in {"first", "rest"}, NEW c, c = writer.conn
  PROVE  /\ c \in Conns /\ Waiting(c) /\ Known(c) /\ socket[c].state = "busy"
         /\ socket[c].read \in Nat /\ socket[c] \in Socket /\ socket \in [Conns -> Socket]
         /\ Len(socket[c].carries) \in Nat \ {0}
         /\ Records(Len(socket[c].carries) - 1) \in Nat
         /\ Records(Len(socket[c].carries))
              = Records(Len(socket[c].carries) - 1) + BatchLen
<1>1. Waiting(c) /\ c \in Conns /\ socket[c].state = "busy"
  BY DEF WriteInv, WriterInv, Waiting
<1>2. Known(c)
  BY <1>1, Knowing
<1>3. /\ socket[c].read \in Nat /\ socket[c] \in Socket /\ socket \in [Conns -> Socket]
      /\ Len(socket[c].carries) \in Nat
  BY <1>1, SocketFields DEF WriteInv, ClientTypes
<1>4. Len(socket[c].carries) > 0
  BY <1>1, <1>2 DEF Known, ConnInv, SocketInv
<1>5. Len(socket[c].carries) \in Nat \ {0}
  BY <1>3, <1>4
<1> QED
  BY <1>1, <1>2, <1>3, <1>5, Batches

\* The first byte of an answer: not of a redirect.
LEMMA ReadFirstKeeps ==
  ASSUME WriteInv, ReadFirst
  PROVE  WriteInv'
<1>1. PICK c : c = writer.conn
  OBVIOUS
<1>2. /\ writer.pc = "first" /\ Unread(c) > 0 /\ Stream(c)[socket[c].read + 1] # "R"
      /\ socket' = [socket EXCEPT ![c].read = @ + 1]
      /\ writer' = [writer EXCEPT !.pc = "rest",
                                  !.clean = Stream(c)[socket[c].read + 1] = "ack"]
      /\ UNCHANGED vars /\ registry' = registry /\ written' = written
  BY <1>1 DEF ReadFirst
<1>3. /\ c \in Conns /\ Waiting(c) /\ Known(c) /\ socket[c].state = "busy"
      /\ socket[c].read \in Nat /\ socket[c] \in Socket /\ socket \in [Conns -> Socket]
  BY <1>1, <1>2, WaitingFor
<1>4. PICK m \in Nat \ {0} : m = Len(socket[c].carries)
  BY <1>1, <1>2, WaitingFor
<1>5. PICK M \in Nat : M = Records(m - 1) /\ Records(m) = M + BatchLen
  BY <1>1, <1>2, <1>4, WaitingFor
<1>6. PICK r \in Nat : r = socket[c].read
  BY <1>3
<1>7. r = M
  <2>1. socket[c].read = Records(Len(socket[c].carries) - 1) + 0
    BY <1>2, <1>3 DEF Waiting, One
  <2> QED
    BY <1>4, <1>5, <1>6, <2>1
<1>8. PICK L \in Nat : L = Length(c)
  BY <1>3 DEF Known
<1>9. r + 1 <= L
  <2>1. Len(Stream(c)) = L
    BY <1>3, <1>8 DEF Known
  <2> QED
    BY <1>2, <1>6, <2>1 DEF Unread
<1>10. ~Redirected(c, r + 1)
  <2>1. \A p \in 1..L : Stream(c)[p] = "R" <=> Redirected(c, p)
    BY <1>3, <1>8 DEF Known, IsStream
  <2>2. r + 1 \in 1..L
    BY <1>9
  <2> QED
    BY <1>2, <1>6, <2>1, <2>2
<1>11. /\ socket'[c].node = socket[c].node /\ socket'[c].carries = socket[c].carries
       /\ socket'[c].read = r + 1 /\ socket'[c].state = socket[c].state
       /\ socket' \in [Conns -> Socket] /\ \A d \in Conns \ {c} : socket'[d] = socket[d]
  <2> DEFINE v == [socket[c] EXCEPT !.read = r + 1]
  <2>1. /\ v \in Socket /\ v.node = socket[c].node /\ v.carries = socket[c].carries
        /\ v.read = r + 1 /\ v.state = socket[c].state
    <3>1. PICK u \in Socket : u = socket[c]
      BY <1>3
    <3>2. PICK x \in Nat : x = r + 1
      OBVIOUS
    <3>3. v = [u EXCEPT !.read = x]
      BY <3>1, <3>2
    <3> HIDE DEF v
    <3> QED
      BY <3>1, <3>2, <3>3 DEF Socket
  <2>2. socket' = [socket EXCEPT ![c] = v]
    BY <1>2, <1>6
  <2> HIDE DEF v
  <2> QED
    BY <1>3, <2>1, <2>2
<1>12. BatchLen \in Nat /\ BatchLen > 0
  BY Lengths
<1>13. Advances(c, 1)
  <2>1. r + 1 <= Records(m)
    BY <1>5, <1>7, <1>12
  <2>2. ASSUME NEW j, Redirected(c, j), j > r, j <= r + 1
        PROVE  Records(m - 1) + 1 < j
    <3>1. j \in Nat
      BY <1>3, <2>2, LenProperties DEF Known, Redirected, Replies
    <3>2. j = r + 1
      BY <2>2, <3>1
    <3> QED
      BY <1>10, <2>2, <3>2
  <2> QED
    BY <1>4, <1>6, <1>8, <1>9, <1>11, <2>1, <2>2 DEF Advances
<1>14. \A d \in Conns : ConnInv(d)'
  BY <1>2, <1>3, <1>13, ReadingKeeps
<1>15. /\ InsertInv' /\ applied' = applied /\ Stream(c)' = Stream(c)
       /\ \A n : Records(n)' = Records(n)
  BY <1>2, ServersRest
<1>16. writer \in Writer /\ writer' \in Writer /\ writer'.pc = "rest"
       /\ writer'.conn = c /\ writer'.batch = writer.batch
       /\ (writer'.clean => Stream(c)[r + 1] = "ack")
  <2>1. writer \in Writer
    BY DEF WriteInv, ClientTypes
  <2>2. PICK b \in BOOLEAN : b = (Stream(c)[socket[c].read + 1] = "ack")
    OBVIOUS
  <2>3. writer' = [writer EXCEPT !.pc = "rest", !.clean = b]
    BY <1>2, <2>2
  <2>4. writer' \in Writer /\ writer'.pc = "rest" /\ writer'.clean = b
        /\ writer'.conn = c /\ writer'.batch = writer.batch
    BY <1>1, <2>1, <2>3 DEF Writer
  <2> QED
    BY <1>6, <2>1, <2>2, <2>4
<1>17. ClientTypes'
  BY <1>2, <1>11, <1>16 DEF WriteInv, ClientTypes
<1>18. WriterInv'
  <2>1. Waiting(c)'
    <3>1. One(writer.pc = "rest")' = 1
      BY <1>16 DEF One
    <3>2. socket'[c].read = Records(Len(socket'[c].carries) - 1) + 1
      BY <1>4, <1>5, <1>7, <1>11
    <3>3. socket'[c].carries[Len(socket'[c].carries)] = writer'.batch
      BY <1>3, <1>11, <1>16 DEF Waiting
    <3> QED
      BY <1>3, <1>11, <1>15, <1>16, <3>1, <3>2, <3>3 DEF Waiting
  <2> QED
    BY <1>16, <2>1 DEF WriterInv
<1>19. CleanBatchIsApplied'
  <2>1. \A d \in Conns : \A i \in DOMAIN socket[d].carries :
          socket'[d].carries[i] = socket[d].carries[i]
    BY <1>11
  <2> QED
    BY <1>2, <1>15, <2>1, ReportsKept
<1> QED
  BY <1>14, <1>15, <1>17, <1>18, <1>19 DEF WriteInv

\* The rest of a batch: with it its socket is read as far as it was sent.
LEMMA ReadRestKeeps ==
  ASSUME WriteInv, ReadRest
  PROVE  WriteInv'
<1>1. PICK c : c = writer.conn
  OBVIOUS
<1>2. /\ writer.pc = "rest" /\ Cardinality(Counted(c)) = BatchLen - 1
      /\ socket' = [socket EXCEPT ![c].read = @ + BatchLen - 1, ![c].state = "pooled"]
      /\ registry' = socket[c].node /\ writer' = NextBatch(writer)
      /\ written' = written \cup
           {[batch |-> writer.batch,
             clean |-> writer.clean /\ \A i \in Counted(c) : Stream(c)[i] = "ack"]}
      /\ UNCHANGED vars
  BY <1>1 DEF ReadRest
<1>3. /\ c \in Conns /\ Waiting(c) /\ Known(c) /\ socket[c].state = "busy"
      /\ socket[c].read \in Nat /\ socket[c] \in Socket /\ socket \in [Conns -> Socket]
  BY <1>1, <1>2, WaitingFor
<1>4. PICK m \in Nat \ {0} : m = Len(socket[c].carries)
  BY <1>1, <1>2, WaitingFor
<1>5. PICK M \in Nat : M = Records(m - 1) /\ Records(m) = M + BatchLen
  BY <1>1, <1>2, <1>4, WaitingFor
<1>6. PICK r \in Nat : r = socket[c].read
  BY <1>3
<1>7. r = M + 1
  <2>1. socket[c].read = Records(Len(socket[c].carries) - 1) + 1
    BY <1>2, <1>3 DEF Waiting, One
  <2> QED
    BY <1>4, <1>5, <1>6, <2>1
<1>8. PICK n \in Nat : n = BatchLen - 1
  BY Lengths
<1>9. r + n = Records(m)
  BY <1>5, <1>7, <1>8, Lengths
<1>10. r + n <= Length(c)
  BY <1>2, <1>3, <1>6, <1>8, Counting
<1>11. /\ socket'[c].node = socket[c].node /\ socket'[c].carries = socket[c].carries
       /\ socket'[c].read = r + n /\ socket'[c].state = "pooled"
       /\ socket' \in [Conns -> Socket] /\ \A d \in Conns \ {c} : socket'[d] = socket[d]
  <2> DEFINE v == [[socket[c] EXCEPT !.read = r + n] EXCEPT !.state = "pooled"]
  <2>1. /\ v \in Socket /\ v.node = socket[c].node /\ v.carries = socket[c].carries
        /\ v.read = r + n /\ v.state = "pooled"
    <3>1. PICK u \in Socket : u = socket[c]
      BY <1>3
    <3>2. PICK x \in Nat : x = r + n
      OBVIOUS
    <3>3. v = [[u EXCEPT !.read = x] EXCEPT !.state = "pooled"]
      BY <3>1, <3>2
    <3> HIDE DEF v
    <3> QED
      BY <3>1, <3>2, <3>3 DEF Socket
  <2>2. socket' = [socket EXCEPT ![c] = v]
    BY <1>2, <1>3, <1>6, <1>8
  <2> HIDE DEF v
  <2> QED
    BY <1>3, <2>1, <2>2
<1>12. Advances(c, n)
  <2>1. ASSUME NEW j, Redirected(c, j), j > r, j <= r + n
        PROVE  Records(m - 1) + 1 < j
    BY <1>5, <1>7, <2>1
  <2>2. Records(m) <= Records(m)
    BY <1>9
  <2> QED
    BY <1>4, <1>6, <1>9, <1>10, <1>11, <2>1, <2>2 DEF Advances
<1>13. \A d \in Conns : ConnInv(d)'
  BY <1>2, <1>3, <1>12, ReadingKeeps
<1>14. InsertInv' /\ applied' = applied
  BY <1>2, ServersRest
<1>15. writer' \in Writer /\ writer'.pc \notin {"first", "rest"} /\ writer \in Writer
  BY <1>2, MovingOn DEF WriteInv, ClientTypes
<1>16. ClientTypes'
  <2>1. registry' \in Nodes
    BY <1>2, <1>3 DEF Known, ConnInv, SocketInv
  <2> QED
    BY <1>11, <1>15, <2>1 DEF ClientTypes
<1>17. WriterInv'
  BY <1>15 DEF WriterInv
<1>18. \A d \in Conns : /\ \A i \in DOMAIN socket[d].carries :
                             socket'[d].carries[i] = socket[d].carries[i]
                        /\ ToSet(applied[d]) \subseteq ToSet(applied'[d])
  BY <1>11, <1>14
<1>19. CleanBatchIsApplied'
  <2> SUFFICES ASSUME NEW w \in written', w.clean
               PROVE  AppliedOf(w.batch)' = 1..BatchLen
    BY DEF CleanBatchIsApplied
  <2>1. AppliedOf(w.batch) = 1..BatchLen
    <3>1. CASE w \in written
      BY <3>1 DEF WriteInv, CleanBatchIsApplied
    <3>2. CASE w \notin written
      <4>1. /\ w.batch = writer.batch
            /\ writer.clean /\ \A i \in Counted(c) : Stream(c)[i] = "ack"
        <5>1. PICK b \in BOOLEAN :
                b = (writer.clean /\ \A i \in Counted(c) : Stream(c)[i] = "ack")
          OBVIOUS
        <5>2. written' = written \cup {[batch |-> writer.batch, clean |-> b]}
          BY <1>2, <5>1
        <5>3. w = [batch |-> writer.batch, clean |-> b]
          BY <3>2, <5>2
        <5>4. w.batch = writer.batch /\ w.clean = b
          BY <5>3
        <5> QED
          BY <5>1, <5>4
      <4>2. AppliedOf(writer.batch) = 1..BatchLen
        BY <1>1, <1>2, <4>1, CleanRead
      <4> QED
        BY <4>1, <4>2
    <3> QED
      BY <3>1, <3>2
  <2> QED
    BY <1>18, <2>1, AppliedKept
<1> QED
  BY <1>13, <1>14, <1>16, <1>17, <1>19 DEF WriteInv

---------------------------------------------------------------------------
(* The theorems.                                                           *)

\* The invariant holds before the first batch.
LEMMA WriteStart ==
  ASSUME WriteInit
  PROVE  WriteInv
<1>1. InsertInv
  BY InsertInit DEF WriteInit
<1>2. /\ writer = [pc |-> "pick", batch |-> 1, retries |-> 0, conn |-> NoNode, clean |-> TRUE]
      /\ registry \in Nodes \cup {NoNode} /\ written = {}
      /\ socket = [c \in Conns |-> [node |-> NoNode, state |-> "unused", carries |-> <<>>, read |-> 0]]
  BY DEF WriteInit
<1>3. <<>> \in Seq(Nat) /\ Len(<<>>) = 0 /\ DOMAIN <<>> = {}
  OBVIOUS
<1>4. ClientTypes
  BY <1>2, <1>3 DEF ClientTypes, Writer, Socket
<1>5. WriterInv
  BY <1>2 DEF WriterInv
<1>6. CleanBatchIsApplied
  BY <1>2 DEF CleanBatchIsApplied
<1>7. ASSUME NEW c \in Conns
      PROVE  ConnInv(c)
  <2>1. conn[c] = NoConn /\ replies[c] = <<>>
    BY DEF WriteInit, Init
  <2>2. conn[c].handle = "none" /\ conn[c].received = 0
    BY <2>1 DEF NoConn
  <2>3. \A j : ~Redirected(c, j)
    BY <1>3, <2>1 DEF Redirected
  <2>4. Sent(c, Len(replies[c])) = 0
    <3>1. OneRedirect(replies[c])
      BY <1>3, <2>1 DEF OneRedirect, Replies
    <3>2. 0 \in 0..Len(replies[c]) /\ Len(replies[c]) = 0
      BY <1>3, <2>1
    <3> QED
      BY <2>3, <3>1, <3>2, Sending
  <2>5. socket[c].state = "unused" /\ socket[c].carries = <<>> /\ socket[c].read = 0
    BY <1>2
  <2>6. SocketInv(c)
    BY <1>3, <2>2, <2>4, <2>5, Batches DEF SocketInv
  <2>7. CutInv(c) /\ Quiet(c)
    BY <2>1, <2>3 DEF CutInv, Quiet
  <2> QED
    BY <2>6, <2>7 DEF ConnInv
<1>8. Nodes # {}
  BY DEF WriteInit, Init
<1> QED
  BY <1>1, <1>4, <1>5, <1>6, <1>7, <1>8 DEF WriteInv

\* Every step keeps it, and is a step of the cluster or leaves it alone.
LEMMA WriteStep ==
  ASSUME WriteInv, [WriteNext]_writeVars
  PROVE  WriteInv' /\ [Next]_vars
<1>1. CASE \E c \in Conns : SendBatch(c)
  BY <1>1, SendBatchKeeps DEF SendBatch
<1>2. CASE \E l \in Nodes \cup {NoNode} : FollowRedirect(l)
  BY <1>2, FollowRedirectKeeps DEF FollowRedirect
<1>3. CASE ReadFirst
  BY <1>3, ReadFirstKeeps DEF ReadFirst
<1>4. CASE ReadRest
  BY <1>4, ReadRestKeeps DEF ReadRest
<1>5. CASE Fail
  BY <1>5, FailKeeps DEF Fail
<1>6. CASE UNCHANGED clientVars /\ \E c \in Conns : ServeClient(c)
  BY <1>6, ServeClientKeeps
<1>7. CASE /\ UNCHANGED clientVars
           /\ \E n \in Nodes : MemtableFlushed(n) \/ StepDown(n) \/ \E k \in {0} \cup DOMAIN log : Elect(n, k)
  BY <1>7, ClusterKeeps
<1>8. CASE UNCHANGED clientVars /\ \E i \in DOMAIN log : FsmApply(i)
  BY <1>8, ApplyKeeps
<1>9. CASE UNCHANGED writeVars
  <2>1. UNCHANGED vars /\ UNCHANGED clientVars
    BY <1>9 DEF writeVars
  <2>2. WriteInv'
    <3>1. /\ InsertInv' /\ Talks /\ applied' = applied
      BY <2>1, ServersRest DEF Talks, Tells, Loop
    <3> QED
      BY <2>1, <3>1, ServersTell
  <2> QED
    BY <2>1, <2>2
<1> QED
  BY <1>1, <1>2, <1>3, <1>4, <1>5, <1>6, <1>7, <1>8, <1>9 DEF WriteNext

\* WriteInv holds in every reachable state.
LEMMA WriteInvariance == WriteSpec => []WriteInv
<1>1. WriteInit => WriteInv
  BY WriteStart
<1>2. WriteInv /\ [WriteNext]_writeVars => WriteInv'
  BY WriteStep
<1> QED
  BY <1>1, <1>2, PTL DEF WriteSpec

\* _flush_batch: a batch that was answered by acknowledgements only is applied
\* completely, however often it was retried and whatever its sockets carried
\* before, for every size of a batch and of a redirect.
THEOREM AcknowledgedBatchIsApplied == WriteSpec => []CleanBatchIsApplied
<1>1. WriteInv => CleanBatchIsApplied
  BY DEF WriteInv
<1> QED
  BY <1>1, WriteInvariance, PTL

\* The client is one of the peers that the insert ports allow: what is proved of
\* the ports holds with it.
THEOREM WriterIsAPeer == WriteSpec => Spec
<1>1. WriteInit => Init
  BY DEF WriteInit
<1>2. WriteInv /\ [WriteNext]_writeVars => [Next]_vars
  BY WriteStep
<1> QED
  BY <1>1, <1>2, WriteInvariance, PTL DEF WriteSpec, Spec

====
