----------------------------- MODULE LsmtProofs -----------------------------
(***************************************************************************)
(* Proofs about the storage engine: type correctness, that no accepted     *)
(* record is lost, that lsmt_flush returns only when everything is on      *)
(* disk, and that the engine implements RecordStore.                       *)
(***************************************************************************)
EXTENDS Lsmt, SequenceTheorems, FiniteSetTheorems, WellFoundedInduction, TLAPS

---------------------------------------------------------------------------
(* The inductive invariant.                                                *)

\* Only accepted records are ever stored, and there are finitely many.
Grounded ==
  /\ IsFiniteSet(accepted)
  /\ \A m \in 1..Len(mem) : mem[m].recs \subseteq accepted
  /\ \A t \in 1..Len(sst) : sst[t].recs \subseteq accepted

\* The memtable in use is not registered as immutable, so the content of an
\* immutable one no longer changes; it is empty while lsmt_flush runs.
MemInv ==
  /\ Len(mem) \notin immutables
  /\ Flushing => mem[Len(mem)].recs = {}

\* A table that counts is on disk and will not be removed by a release, and
\* the tables to be deleted are none of those that count.
TableInv ==
  /\ \A t \in Held : t \in files /\ ~sst[t].old
  /\ \A t \in compactor.garbage : t \notin Held
  /\ \A t \in compactor.inputs : t \notin list

\* A table that was written and is not listed yet.
Fresh(t) == t \in files /\ ~sst[t].old /\ t \notin Held /\ t \notin compactor.garbage

\* The memtable being flushed stays registered until its records are listed.
FlusherInv ==
  /\ flusher.pc \in {"write", "add", "persist", "unregister"} => flusher.mem \in immutables
  /\ flusher.pc = "release" => flusher.mem \in 1..Len(mem)
  /\ flusher.pc = "add" => Fresh(flusher.tab) /\ sst[flusher.tab].recs = mem[flusher.mem].recs
  /\ flusher.pc \in {"persist", "unregister"} => mem[flusher.mem].recs \subseteq RecordsOf(Held)

\* A merge's inputs count until its output, with the same records, is listed.
CompactorInv ==
  /\ compactor.pc \in {"wait_active", "wait_count", "add"} =>
       Fresh(compactor.tab) /\ (flusher.pc = "add" => flusher.tab # compactor.tab)
  /\ compactor.pc = "add" => sst[compactor.tab].recs = RecordsOf(compactor.inputs)
  /\ compactor.inputs # {} =>
       compactor.pc \in {"merge", "wait_active", "wait_count", "add", "abort"}

\* While lsmt_flush waits, an idle pool means that nothing is left to flush.
FlushCallInv ==
  (active = 0 /\ writer.pc \in {"flush_signal", "flush_check", "flush_wait"})
    => immutables = {}

\* Every accepted record is in a registered memtable or in a table that counts.
Kept ==
  \A r \in accepted : \/ \E m \in immutables \cup {Len(mem)} : r \in mem[m].recs
                      \/ \E t \in Held : r \in sst[t].recs

IInv ==
  /\ TypeOK /\ Grounded /\ MemInv /\ TableInv /\ FlusherInv /\ CompactorInv
  /\ FlushCallInv /\ Kept

---------------------------------------------------------------------------
(* Lemmas on the operators.                                                *)

\* A function on 1..n is a sequence of length n.
LEMMA FunctionIsSeq ==
  ASSUME NEW S, NEW n \in Nat, NEW f \in [1..n -> S]
  PROVE  f \in Seq(S) /\ Len(f) = n
<1>1. f \in Seq(S)
  BY SeqDef
<1>2. 1..n = 1..Len(f) /\ Len(f) \in Nat
  BY <1>1, LenProperties
<1> QED
  BY <1>1, <1>2

\* Retaining tables changes no table's records or mark.
LEMMA RetainProperties ==
  ASSUME NEW s \in Seq(SSTable), NEW T
  PROVE  /\ Retain(s, T) \in Seq(SSTable)
         /\ Len(Retain(s, T)) = Len(s)
         /\ \A t \in 1..Len(s) : /\ Retain(s, T)[t].recs = s[t].recs
                                 /\ Retain(s, T)[t].old = s[t].old
<1>1. s \in [1..Len(s) -> SSTable] /\ Len(s) \in Nat
  BY LenProperties
<1>2. Retain(s, T) \in [1..Len(s) -> SSTable]
  <2>1. ASSUME NEW t \in 1..Len(s) PROVE [s[t] EXCEPT !.ref = @ + 1] \in SSTable
    <3>1. s[t] \in SSTable /\ s[t].ref \in Int
      BY <1>1 DEF SSTable
    <3>2. s[t].ref + 1 \in Int
      BY <3>1
    <3> QED
      BY <3>1, <3>2 DEF SSTable
  <2>2. DOMAIN s = 1..Len(s)
    BY <1>1
  <2> QED
    BY <1>1, <2>1, <2>2 DEF Retain
<1>3. \A t \in 1..Len(s) : /\ Retain(s, T)[t].recs = s[t].recs
                           /\ Retain(s, T)[t].old = s[t].old
  BY <1>1 DEF Retain, SSTable
<1> QED
  BY <1>1, <1>2, <1>3, FunctionIsSeq

\* Releasing tables changes no table's records or mark.
LEMMA ReleaseProperties ==
  ASSUME NEW s \in Seq(SSTable), NEW T
  PROVE  /\ Release(s, T) \in Seq(SSTable)
         /\ Len(Release(s, T)) = Len(s)
         /\ \A t \in 1..Len(s) : /\ Release(s, T)[t].recs = s[t].recs
                                 /\ Release(s, T)[t].old = s[t].old
<1>1. s \in [1..Len(s) -> SSTable] /\ Len(s) \in Nat
  BY LenProperties
<1>2. Release(s, T) \in [1..Len(s) -> SSTable]
  <2>1. ASSUME NEW t \in 1..Len(s) PROVE [s[t] EXCEPT !.ref = @ - 1] \in SSTable
    <3>1. s[t] \in SSTable /\ s[t].ref \in Int
      BY <1>1 DEF SSTable
    <3>2. s[t].ref - 1 \in Int
      BY <3>1
    <3> QED
      BY <3>1, <3>2 DEF SSTable
  <2>2. DOMAIN s = 1..Len(s)
    BY <1>1
  <2> QED
    BY <1>1, <2>1, <2>2 DEF Release
<1>3. \A t \in 1..Len(s) : /\ Release(s, T)[t].recs = s[t].recs
                           /\ Release(s, T)[t].old = s[t].old
  BY <1>1 DEF Release, SSTable
<1> QED
  BY <1>1, <1>2, <1>3, FunctionIsSeq

\* A set of numbers has a least element: the flush daemon takes a memtable
\* that is registered.
LEMMA MinProperties ==
  ASSUME NEW S \in SUBSET Nat, S # {}
  PROVE  Min(S) \in S /\ \A y \in S : Min(S) <= y
<1> DEFINE R == OpToRel(<, Nat)
<1>1. \E x \in S : \A y \in S : ~(<<y, x>> \in R)
  BY NatLessThanWellFounded, WFMin
<1>2. PICK x \in S : \A y \in S : ~(<<y, x>> \in R)
  BY <1>1
<1>3. ASSUME NEW y \in S PROVE x =< y
  <2>1. x \in Nat /\ y \in Nat
    OBVIOUS
  <2>2. ~(y < x)
    BY <1>2, <2>1, Zenon DEF OpToRel
  <2> QED
    BY <2>1, <2>2
<1> QED
  BY <1>3 DEF Min

---------------------------------------------------------------------------
(* Type correctness.                                                       *)

USE DEF memVars, poolVars, flagVars, tableVars, metaVars, storage, history,
        daemonsAndReaders, notFlusher, notCompactor, notReader

\* Memtables and tables are only ever added, so what referred to one still does.
LEMMA TypesMonotone ==
  ASSUME TypeOK, MemType', TableType', Len(mem) <= Len(mem'), Len(sst) <= Len(sst')
  PROVE  /\ flusher' = flusher => FlusherType'
         /\ compactor' = compactor => CompactorType'
         /\ iter' = iter => IterType'
<1>1. Len(mem) \in Nat /\ Len(mem') \in Nat /\ Len(sst) \in Nat /\ Len(sst') \in Nat
  BY DEF TypeOK, MemType, TableType
<1>2. 0..Len(mem) \subseteq 0..Len(mem') /\ 0..Len(sst) \subseteq 0..Len(sst')
      /\ SUBSET (1..Len(sst)) \subseteq SUBSET (1..Len(sst'))
  BY <1>1
<1>3. flusher' = flusher => FlusherType'
  BY <1>2 DEF TypeOK, FlusherType
<1>4. compactor' = compactor => CompactorType'
  BY <1>2 DEF TypeOK, CompactorType
<1>5. iter' = iter => IterType'
  BY <1>2 DEF TypeOK, IterType
<1> QED
  BY <1>3, <1>4, <1>5

\* What a compaction daemon that knows n tables may hold in its variables.
CompactorSet(n) ==
  [pc : CompactorPC, tier : Nat, top : Nat, inputs : SUBSET (1..n), tab : 0..n,
   left : Nat, garbage : SUBSET (1..n), gen : Nat, copy : SUBSET (1..n)]

\* Moving on to the next tier keeps the daemon's variables in their types.
LEMMA NextTierType ==
  ASSUME NEW n \in Nat, NEW c \in CompactorSet(n)
  PROVE  NextTier(c) \in CompactorSet(n)
<1>1. [c EXCEPT !.pc = "tier", !.tier = @ + 1] \in CompactorSet(n)
  <2>1. c.tier + 1 \in Nat
    BY DEF CompactorSet
  <2> QED
    BY <2>1 DEF CompactorSet, CompactorPC
<1>2. [c EXCEPT !.pc = "copy"] \in CompactorSet(n) /\ NoCompaction \in CompactorSet(n)
  BY DEF CompactorSet, CompactorPC, NoCompaction
<1> QED
  BY <1>1, <1>2 DEF NextTier

\* The tables in T are marked for deletion.
Marked(T) ==
  [t \in DOMAIN sst |-> IF t \in T THEN [sst[t] EXCEPT !.old = TRUE] ELSE sst[t]]

\* Marking tables changes no table's records, and no other table's mark.
LEMMA MarkedProperties ==
  ASSUME TypeOK, NEW T
  PROVE  /\ Marked(T) \in Seq(SSTable) /\ Len(Marked(T)) = Len(sst)
         /\ \A t \in 1..Len(sst) : /\ Marked(T)[t].recs = sst[t].recs
                                   /\ t \notin T => Marked(T)[t].old = sst[t].old
<1>1. sst \in [1..Len(sst) -> SSTable] /\ Len(sst) \in Nat /\ DOMAIN sst = 1..Len(sst)
  BY DEF TypeOK, TableType
<1>2. \A t \in 1..Len(sst) : [sst[t] EXCEPT !.old = TRUE] \in SSTable
  BY <1>1 DEF SSTable
<1>3. Marked(T) \in [1..Len(sst) -> SSTable]
  BY <1>1, <1>2 DEF Marked
<1>4. \A t \in 1..Len(sst) : /\ Marked(T)[t].recs = sst[t].recs
                             /\ t \notin T => Marked(T)[t].old = sst[t].old
  BY <1>1 DEF Marked, SSTable
<1> QED
  BY <1>1, <1>3, <1>4, FunctionIsSeq

\* Taking or dropping a reference to a memtable leaves its records alone.
LEMMA MemRefType ==
  ASSUME TypeOK, NEW m \in 1..Len(mem)
  PROVE  /\ [mem EXCEPT ![m].ref = @ + 1] \in Seq(Memtable)
         /\ [mem EXCEPT ![m].ref = @ - 1] \in Seq(Memtable)
         /\ Len([mem EXCEPT ![m].ref = @ + 1]) = Len(mem)
         /\ Len([mem EXCEPT ![m].ref = @ - 1]) = Len(mem)
<1>1. mem \in [1..Len(mem) -> Memtable] /\ Len(mem) \in Nat
  BY DEF TypeOK, MemType
<1>2. mem[m] \in Memtable /\ mem[m].ref + 1 \in Int /\ mem[m].ref - 1 \in Int
  <2>1. mem[m].ref \in Int /\ mem[m] \in Memtable
    BY <1>1 DEF Memtable
  <2> QED
    BY <2>1
<1>3. [mem[m] EXCEPT !.ref = @ + 1] \in Memtable /\ [mem[m] EXCEPT !.ref = @ - 1] \in Memtable
  BY <1>2 DEF Memtable
<1>4. /\ [mem EXCEPT ![m].ref = @ + 1] \in [1..Len(mem) -> Memtable]
      /\ [mem EXCEPT ![m].ref = @ - 1] \in [1..Len(mem) -> Memtable]
  BY <1>1, <1>3
<1> QED
  BY <1>1, <1>4, FunctionIsSeq

\* Every step keeps every variable in its type.
LEMMA TypeStep == IInv /\ Next => TypeOK'
<1> SUFFICES ASSUME IInv, Next PROVE TypeOK'
  OBVIOUS
<1> USE ConstantsAssumption
<1> Len(mem) \in Nat \ {0} /\ Len(sst) \in Nat
  BY DEF IInv, TypeOK, MemType, TableType
<1>ok. TypeOK
  BY DEF IInv
<1>1. ASSUME NEW k \in Keys \cup {ReservedKey}, InsertBlocked(k) PROVE TypeOK'
  BY <1>1, <1>ok DEF InsertBlocked, WriterPC, TypeOK, MemType, FlagType, TableType,
     WriterType, FlusherType, CompactorType, IterType, HistoryType
<1>2. ASSUME NEW k \in Keys \cup {ReservedKey}, InsertPlace(k) PROVE TypeOK'
  <2> DEFINE rec == <<k, inserted + 1>>
  <2>1. rec \in Record
    BY <1>ok DEF TypeOK, HistoryType, Record
  <2>2. mem' \in Seq(Memtable) /\ Len(mem') = Len(mem)
    <3>1. mem \in [1..Len(mem) -> Memtable] /\ mem[Len(mem)] \in Memtable
      BY <1>ok DEF TypeOK, MemType
    <3>2. [mem[Len(mem)] EXCEPT !.recs = @ \cup {rec}] \in Memtable
      BY <2>1, <3>1 DEF Memtable
    <3>3. mem' \in [1..Len(mem) -> Memtable]
      BY <1>2, <3>1, <3>2 DEF InsertPlace, Current
    <3> QED
      BY <3>3, FunctionIsSeq
  <2>3. MemType'
    BY <1>2, <1>ok, <2>2 DEF InsertPlace, TypeOK, MemType
  <2>4. HistoryType'
    <3>1. accepted \subseteq Record /\ inserted \in Nat /\ flushes \in Nat
      BY <1>ok DEF TypeOK, HistoryType
    <3>2. /\ accepted' = accepted \/ accepted' = accepted \cup {rec}
          /\ inserted' = inserted \/ inserted' = inserted + 1
          /\ flushes' = flushes
      BY <1>2 DEF InsertPlace, Accept
    <3> HIDE DEF rec
    <3> QED
      BY <2>1, <3>1, <3>2 DEF HistoryType
  <2>5. TableType' /\ FlagType' /\ WriterType'
    BY <1>2, <1>ok DEF InsertPlace, Idle, WriterPC, TypeOK, TableType, FlagType, WriterType
  <2> QED
    BY <1>2, <1>ok, <2>2, <2>3, <2>4, <2>5, TypesMonotone DEF InsertPlace, TypeOK
<1>3. ASSUME NEW k \in Keys \cup {ReservedKey}, InsertRotate(k) PROVE TypeOK'
  <2> DEFINE rec == <<k, inserted + 1>>
  <2>1. rec \in Record
    BY <1>ok DEF TypeOK, HistoryType, Record
  <2>2. mem' \in Seq(Memtable) /\ Len(mem') = Len(mem) + 1
    <3>1. NewMemtable \in Memtable /\ [NewMemtable EXCEPT !.recs = {rec}] \in Memtable
      BY <2>1 DEF NewMemtable, Memtable
    <3>2. mem \in Seq(Memtable)
      BY <1>ok DEF TypeOK, MemType
    <3> QED
      BY <1>3, <3>1, <3>2 DEF InsertRotate
  <2>3. MemType'
    BY <1>3, <1>ok, <2>2 DEF InsertRotate, Current, TypeOK, MemType
  <2>4. HistoryType'
    <3>1. accepted \subseteq Record /\ inserted \in Nat /\ flushes \in Nat
      BY <1>ok DEF TypeOK, HistoryType
    <3>2. /\ accepted' = accepted \/ accepted' = accepted \cup {rec}
          /\ inserted' = inserted \/ inserted' = inserted + 1
          /\ flushes' = flushes
      BY <1>3 DEF InsertRotate, Accept
    <3> HIDE DEF rec
    <3> QED
      BY <2>1, <3>1, <3>2 DEF HistoryType
  <2>5. TableType' /\ FlagType' /\ WriterType'
    BY <1>3, <1>ok DEF InsertRotate, Idle, WriterPC, TypeOK, TableType, FlagType, WriterType
  <2> QED
    BY <1>3, <1>ok, <2>2, <2>3, <2>4, <2>5, TypesMonotone DEF InsertRotate, TypeOK
<1>4. CASE InsertWait
  BY <1>4, <1>ok DEF InsertWait, WriterPC, TypeOK, MemType, FlagType, TableType, WriterType,
     FlusherType, CompactorType, IterType, HistoryType
<1>5. CASE InsertSignal
  BY <1>5, <1>ok DEF InsertSignal, WriterPC, Idle, TypeOK, MemType, FlagType, TableType,
     WriterType, FlusherType, CompactorType, IterType, HistoryType
<1>6. CASE FlushRegister
  <2>1. mem' \in Seq(Memtable) /\ Len(mem) <= Len(mem') /\ immutables' \subseteq 1..Len(mem')
    <3>1. NewMemtable \in Memtable
      BY DEF NewMemtable, Memtable
    <3>2. mem \in Seq(Memtable) /\ immutables \subseteq 1..Len(mem)
      BY <1>ok DEF TypeOK, MemType
    <3>3. CASE Cardinality(immutables) < MaxImmutables
      <4>1. mem' = Append(mem, NewMemtable) /\ immutables' = immutables \cup {Len(mem)}
        BY <1>6, <3>3 DEF FlushRegister, Current
      <4>2. mem' \in Seq(Memtable) /\ Len(mem') = Len(mem) + 1
        BY <3>1, <3>2, <4>1
      <4>3. 1..Len(mem) \subseteq 1..Len(mem') /\ Len(mem) \in 1..Len(mem') /\ Len(mem) <= Len(mem')
        BY <4>2
      <4> QED
        BY <3>2, <4>1, <4>2, <4>3
    <3>4. CASE ~(Cardinality(immutables) < MaxImmutables)
      BY <1>6, <3>2, <3>4 DEF FlushRegister
    <3> QED
      BY <3>3, <3>4
  <2>2. MemType'
    BY <2>1 DEF MemType
  <2>3. TableType' /\ FlagType' /\ WriterType' /\ HistoryType'
    <3>1. TableType' /\ FlagType'
      BY <1>6, <1>ok DEF FlushRegister, TypeOK, TableType, FlagType
    <3>2. HistoryType'
      BY <1>6, <1>ok DEF FlushRegister, TypeOK, HistoryType
    <3>3. WriterType'
      BY <1>6 DEF FlushRegister, Idle, WriterPC, WriterType
    <3> QED
      BY <3>1, <3>2, <3>3
  <2> QED
    BY <1>6, <1>ok, <2>1, <2>2, <2>3, TypesMonotone DEF FlushRegister, TypeOK
<1>7. CASE FlushPool
  BY <1>7, <1>ok DEF FlushPool, WriterPC, Idle, TypeOK, MemType, FlagType, TableType,
     WriterType, FlusherType, CompactorType, IterType, HistoryType
<1>8. CASE FlushSignal
  BY <1>8, <1>ok DEF FlushSignal, WriterPC, Idle, TypeOK, MemType, FlagType, TableType,
     WriterType, FlusherType, CompactorType, IterType, HistoryType
<1>9. CASE FlushCheck
  BY <1>9, <1>ok DEF FlushCheck, WriterPC, Idle, TypeOK, MemType, FlagType, TableType,
     WriterType, FlusherType, CompactorType, IterType, HistoryType
<1>10. CASE SpuriousWakeup
  BY <1>10, <1>ok DEF SpuriousWakeup, WriterPC, Woken, TypeOK, MemType, FlagType, TableType,
     WriterType, FlusherType, CompactorType, IterType, HistoryType
<1>11. CASE Free
  BY <1>11, <1>ok DEF Free, WriterPC, Idle, TypeOK, MemType, FlagType, TableType, WriterType,
     FlusherType, CompactorType, IterType, HistoryType
<1>12. CASE FreeJoinFlush
  BY <1>12, <1>ok DEF FreeJoinFlush, WriterPC, Idle, TypeOK, MemType, FlagType, TableType,
     WriterType, FlusherType, CompactorType, IterType, HistoryType
<1>13. CASE FreeJoinCompact
  <2>1. sst' \in Seq(SSTable) /\ Len(sst') = Len(sst)
    BY <1>13, <1>ok, ReleaseProperties DEF FreeJoinCompact, TypeOK, TableType
  <2>2. TableType'
    BY <1>13, <1>ok, <2>1 DEF FreeJoinCompact, TypeOK, TableType
  <2>3. MemType' /\ FlagType' /\ WriterType' /\ HistoryType'
    BY <1>13, <1>ok DEF FreeJoinCompact, Idle, WriterPC, TypeOK, MemType, FlagType,
                       WriterType, HistoryType
  <2> QED
    BY <1>13, <1>ok, <2>1, <2>2, <2>3, TypesMonotone DEF FreeJoinCompact, TypeOK
<1>14. CASE FlushDaemonWake
  BY <1>14, <1>ok DEF FlushDaemonWake, FlusherPC, TypeOK, MemType, FlagType, TableType,
     WriterType, FlusherType, CompactorType, IterType, HistoryType
<1>15. CASE FlushScan
  <2>1. Min(immutables) \in 0..Len(mem)
    BY <1>15, <1>ok, MinProperties DEF FlushScan, TypeOK, MemType
  <2>2. FlusherType'
    BY <1>15, <1>ok, <2>1 DEF FlushScan, TypeOK, FlusherType, FlusherPC
  <2> QED
    BY <1>15, <1>ok, <2>2 DEF FlushScan, TypeOK, MemType, FlagType, TableType, WriterType,
       FlusherType, CompactorType, IterType, HistoryType
<1>16. CASE FlushIdle
  <2>1. FlusherType'
    BY <1>16, <1>ok DEF FlushIdle, NoJob, FlusherPC, FlusherType
  <2>2. WriterType'
    BY <1>16, <1>ok DEF FlushIdle, Woken, WriterPC, TypeOK, WriterType
  <2>3. FlagType'
    BY <1>16, <1>ok DEF FlushIdle, TypeOK, FlagType
  <2> QED
    BY <1>16, <1>ok, <2>1, <2>2, <2>3 DEF FlushIdle, TypeOK, MemType, FlagType, TableType,
       WriterType, FlusherType, CompactorType, IterType, HistoryType
<1>17. CASE FlushWrite
  <2>1. mem[flusher.mem].recs \in SUBSET Record
    <3>1. flusher.mem \in 1..Len(mem)
      BY <1>17, <1>ok DEF FlushWrite, IInv, FlusherInv, TypeOK, MemType
    <3>2. mem[flusher.mem] \in Memtable
      BY <1>ok, <3>1 DEF TypeOK, MemType
    <3> QED
      BY <3>2 DEF Memtable
  <2>2. [recs |-> mem[flusher.mem].recs, level |-> 0, ref |-> 1, old |-> FALSE] \in SSTable
    BY <2>1 DEF SSTable
  <2>3. /\ sst' \in Seq(SSTable) /\ Len(sst) <= Len(sst')
        /\ files' \subseteq 1..Len(sst') /\ flusher'.tab \in 0..Len(sst')
    <3>1. sst \in Seq(SSTable) /\ files \subseteq 1..Len(sst)
      BY <1>ok DEF TypeOK, TableType
    <3>2. CASE mem[flusher.mem].recs = {}
      BY <1>17, <1>ok, <3>1, <3>2 DEF FlushWrite, TypeOK, FlusherType
    <3>3. CASE mem[flusher.mem].recs # {}
      <4> DEFINE new == [recs |-> mem[flusher.mem].recs, level |-> 0, ref |-> 1, old |-> FALSE]
      <4>0. sst' = Append(sst, new)
        BY <1>17, <3>3 DEF FlushWrite
      <4> HIDE DEF new
      <4>1. sst' \in Seq(SSTable) /\ Len(sst') = Len(sst) + 1
        BY <2>2, <3>1, <4>0 DEF new
      <4>2. flusher'.tab = Len(sst) + 1 /\ files' = files \cup {Len(sst) + 1}
        BY <1>17, <1>ok, <3>3 DEF FlushWrite, TypeOK, FlusherType
      <4>3. /\ 1..Len(sst) \subseteq 1..Len(sst') /\ Len(sst) <= Len(sst')
            /\ Len(sst) + 1 \in 1..Len(sst') /\ Len(sst) + 1 \in 0..Len(sst')
        BY <4>1
      <4> QED
        BY <3>1, <4>1, <4>2, <4>3
    <3> QED
      BY <3>2, <3>3
  <2>4. TableType'
    BY <1>17, <1>ok, <2>3, SMTT(30) DEF FlushWrite, TypeOK, TableType
  <2>5. MemType' /\ FlagType' /\ WriterType' /\ HistoryType'
    BY <1>17, <1>ok DEF FlushWrite, TypeOK, MemType, FlagType, WriterType, HistoryType
  <2>6. FlusherType'
    <3>1. SUBSET (1..Len(sst)) \subseteq SUBSET (1..Len(sst'))
      BY <2>3
    <3>2. /\ flusher' = [flusher EXCEPT !.pc = flusher'.pc, !.tab = flusher'.tab]
          /\ flusher'.pc \in FlusherPC
      BY <1>17, <1>ok DEF FlushWrite, TypeOK, FlusherType, FlusherPC
    <3> QED
      BY <1>17, <1>ok, <2>3, <3>1, <3>2 DEF FlushWrite, TypeOK, FlusherType
  <2> QED
    BY <1>17, <1>ok, <2>3, <2>4, <2>5, <2>6, TypesMonotone DEF FlushWrite, TypeOK
<1>18. CASE FlushAdd
  <2>1. flusher.tab \in 1..Len(sst)
    BY <1>18, <1>ok DEF FlushAdd, IInv, FlusherInv, Fresh, TypeOK, TableType
  <2>2. TableType' /\ list' \subseteq 1..Len(sst)
    <3>1. /\ sst \in Seq(SSTable) /\ list \cup files \cup disk \subseteq 1..Len(sst)
          /\ highest_tier \in Nat /\ metadata_generation \in Nat /\ disk_generation \in Nat
      BY <1>ok DEF TypeOK, TableType
    <3>2. UNCHANGED <<sst, files, disk, disk_generation>> /\ list' = list \cup {flusher.tab}
      BY <1>18 DEF FlushAdd, AddTable
    <3>3. list' \subseteq 1..Len(sst)
      BY <2>1, <3>1, <3>2
    <3>4. highest_tier' \in Nat /\ metadata_generation' \in Nat
      BY <1>18, <3>1 DEF FlushAdd, AddTable
    <3> QED
      BY <3>1, <3>2, <3>3, <3>4 DEF TableType
  <2>3. FlusherType'
    BY <1>18, <1>ok, <2>2 DEF FlushAdd, TypeOK, FlusherType, FlusherPC, TableType
  <2> QED
    BY <1>18, <1>ok, <2>2, <2>3 DEF FlushAdd, TypeOK, MemType, FlagType, TableType,
       WriterType, FlusherType, CompactorType, IterType, HistoryType
<1>19. CASE FlushPersist
  BY <1>19, <1>ok DEF FlushPersist, FlusherPC, WriteMetadata, TypeOK, MemType, FlagType,
     TableType, WriterType, FlusherType, CompactorType, IterType, HistoryType
<1>20. CASE FlushUnregister
  BY <1>20, <1>ok DEF FlushUnregister, FlusherPC, Shifted, TypeOK, MemType, FlagType,
     TableType, WriterType, FlusherType, CompactorType, IterType, HistoryType
<1>21. CASE FlushRelease
  <2>1. mem' \in Seq(Memtable) /\ Len(mem') = Len(mem)
    <3>1. flusher.mem \in 1..Len(mem)
      BY <1>21 DEF FlushRelease, IInv, FlusherInv
    <3> QED
      BY <1>21, <1>ok, <3>1, MemRefType DEF FlushRelease
  <2>2. MemType'
    BY <1>21, <1>ok, <2>1 DEF FlushRelease, TypeOK, MemType
  <2>3. FlusherType'
    BY <1>21, <2>1 DEF FlushRelease, NoJob, FlusherType, FlusherPC
  <2>4. FlagType' /\ TableType' /\ WriterType' /\ HistoryType'
    BY <1>21, <1>ok DEF FlushRelease, TypeOK, FlagType, TableType, WriterType, HistoryType
  <2> QED
    BY <1>21, <1>ok, <2>1, <2>2, <2>3, <2>4, TypesMonotone DEF FlushRelease, TypeOK
<1>22. CASE FlushNotifyCompaction
  BY <1>22, <1>ok DEF FlushNotifyCompaction, FlusherPC, TypeOK, MemType, FlagType, TableType,
     WriterType, FlusherType, CompactorType, IterType, HistoryType
<1>23. CASE FlushNotifyPool
  BY <1>23, <1>ok DEF FlushNotifyPool, FlusherPC, WriterPC, Woken, TypeOK, MemType, FlagType,
     TableType, WriterType, FlusherType, CompactorType, IterType, HistoryType
<1>24. CASE CompactionDaemonWake
  BY <1>24, <1>ok DEF CompactionDaemonWake, CompactorPC, TypeOK, MemType, FlagType, TableType,
     WriterType, FlusherType, CompactorType, IterType, HistoryType
<1>25. CASE CompactStart
  BY <1>25, <1>ok DEF CompactStart, CompactorPC, TypeOK, MemType, FlagType, TableType,
     WriterType, FlusherType, CompactorType, IterType, HistoryType
<1>26. CASE TierFits
  <2>1. CompactorType'
    BY <1>26, <1>ok, NextTierType DEF TierFits, TypeOK, CompactorType, CompactorSet
  <2> QED
    BY <1>26, <1>ok, <2>1 DEF TierFits, TypeOK, MemType, FlagType, TableType, WriterType,
       FlusherType, CompactorType, IterType, HistoryType
<1>27. CASE TierPop
  BY <1>27, <1>ok DEF TierPop, CompactorPC, TierTables, Oldest, TypeOK, MemType, FlagType,
     TableType, WriterType, FlusherType, CompactorType, IterType, HistoryType
<1>28. CASE MergeOpen
  <2> DEFINE new == [recs |-> {}, level |-> compactor.tier + 1, ref |-> 1, old |-> FALSE]
  <2>1. new \in SSTable
    BY <1>ok DEF TypeOK, CompactorType, SSTable
  <2>2. sst' \in Seq(SSTable) /\ Len(sst') = Len(sst) + 1
    BY <1>28, <1>ok, <2>1, RetainProperties DEF MergeOpen, TypeOK, TableType
  <2>3. TableType'
    BY <1>28, <1>ok, <2>2 DEF MergeOpen, TypeOK, TableType
  <2>4. MemType' /\ FlagType' /\ WriterType' /\ HistoryType'
    BY <1>28, <1>ok DEF MergeOpen, TypeOK, MemType, FlagType, WriterType, HistoryType
  <2>5. 1 + (Cardinality(RecordsOf(compactor.inputs)) \div MergeChunk) \in Nat
    <3>1. RecordsOf(compactor.inputs) \in SUBSET accepted
      BY <1>ok DEF IInv, Grounded, RecordsOf, TypeOK, CompactorType
    <3>2. Cardinality(RecordsOf(compactor.inputs)) \in Nat
      BY <3>1, FS_Subset, FS_CardinalityType DEF IInv, Grounded
    <3> QED
      BY <3>2
  <2>6. CompactorType'
    <3>1. SUBSET (1..Len(sst)) \subseteq SUBSET (1..Len(sst')) /\ Len(sst) + 1 \in 0..Len(sst')
      BY <2>2
    <3> QED
      BY <1>28, <1>ok, <2>5, <3>1 DEF MergeOpen, TypeOK, CompactorType, CompactorPC
  <2> QED
    BY <1>28, <1>ok, <2>2, <2>3, <2>4, <2>6, TypesMonotone DEF MergeOpen, TypeOK
<1>29. CASE MergePollActive
  BY <1>29, <1>ok DEF MergePollActive, CompactorPC, TypeOK, MemType, FlagType, TableType,
     WriterType, FlusherType, CompactorType, IterType, HistoryType
<1>30. CASE MergePollCount
  BY <1>30, <1>ok DEF MergePollCount, CompactorPC, TypeOK, MemType, FlagType, TableType,
     WriterType, FlusherType, CompactorType, IterType, HistoryType
<1>31. CASE MergeWrite
  <2>1. compactor.left - 1 \in Nat
    BY <1>31, <1>ok DEF MergeWrite, TypeOK, CompactorType
  <2>2. CompactorType'
    BY <1>31, <1>ok, <2>1 DEF MergeWrite, TypeOK, CompactorType, CompactorPC
  <2> QED
    BY <1>31, <1>ok, <2>2 DEF MergeWrite, TypeOK, MemType, FlagType, TableType, WriterType,
       FlusherType, CompactorType, IterType, HistoryType
<1>32. CASE MergeFinish
  <2>1. RecordsOf(compactor.inputs) \in SUBSET Record
    <3>1. \A t \in compactor.inputs : sst[t] \in SSTable
      BY <1>ok DEF TypeOK, CompactorType, TableType
    <3> QED
      BY <3>1 DEF RecordsOf, SSTable
  <2>2. sst' \in Seq(SSTable) /\ Len(sst') = Len(sst)
    <3> DEFINE s == Release(sst, compactor.inputs)
    <3>1. s \in Seq(SSTable) /\ Len(s) = Len(sst)
      BY <1>ok, ReleaseProperties DEF TypeOK, TableType
    <3>2. s \in [1..Len(sst) -> SSTable] /\ compactor.tab \in 1..Len(sst)
      BY <1>32, <1>ok, <3>1 DEF MergeFinish, IInv, CompactorInv, Fresh, TypeOK, TableType
    <3>3. [s[compactor.tab] EXCEPT !.recs = Merged(compactor.inputs)] \in SSTable
      BY <2>1, <3>2 DEF Merged, SSTable
    <3>4. sst' = [s EXCEPT ![compactor.tab] =
                    [s[compactor.tab] EXCEPT !.recs = Merged(compactor.inputs)]]
      BY <1>32 DEF MergeFinish
    <3>5. sst' \in [1..Len(sst) -> SSTable]
      BY <3>2, <3>3, <3>4
    <3> QED
      BY <3>5, FunctionIsSeq
  <2>3. TableType'
    BY <1>32, <1>ok, <2>2 DEF MergeFinish, TypeOK, TableType
  <2>4. CompactorType'
    BY <1>32, <1>ok, <2>2 DEF MergeFinish, TypeOK, CompactorType, CompactorPC
  <2>5. MemType' /\ FlagType' /\ WriterType' /\ HistoryType'
    BY <1>32, <1>ok DEF MergeFinish, TypeOK, MemType, FlagType, WriterType, HistoryType
  <2> QED
    BY <1>32, <1>ok, <2>2, <2>3, <2>4, <2>5, TypesMonotone DEF MergeFinish, TypeOK
<1>33. CASE CompactAdd
  <2> DEFINE c == [compactor EXCEPT !.inputs = {}, !.tab = 0,
                                    !.garbage = @ \cup compactor.inputs]
  <2>1. compactor.tab \in 1..Len(sst)
    BY <1>33, <1>ok DEF CompactAdd, IInv, CompactorInv, Fresh, TypeOK, TableType
  <2>2. c \in CompactorSet(Len(sst))
    <3>1. compactor.garbage \cup compactor.inputs \in SUBSET (1..Len(sst))
      BY <1>ok DEF TypeOK, CompactorType
    <3>2. compactor \in CompactorSet(Len(sst)) /\ 0 \in 0..Len(sst)
      BY <1>ok DEF TypeOK, CompactorType, CompactorSet
    <3> QED
      BY <3>1, <3>2, Zenon DEF CompactorSet
  <2>3. CompactorType'
    BY <1>33, <2>2, NextTierType DEF CompactAdd, CompactorType, CompactorSet
  <2>4. TableType'
    <3>1. highest_tier' \in Nat
      BY <1>33, <1>ok DEF CompactAdd, AddTable, TypeOK, TableType
    <3> QED
      BY <1>33, <1>ok, <2>1, <3>1 DEF CompactAdd, AddTable, TypeOK, TableType
  <2> QED
    BY <1>33, <1>ok, <2>3, <2>4 DEF CompactAdd, TypeOK, MemType, FlagType, TableType,
       WriterType, FlusherType, CompactorType, IterType, HistoryType
<1>34. CASE CompactCopy
  <2>1. CompactorType'
    <3>1. metadata_generation + 1 \in Nat /\ list \subseteq 1..Len(sst)
      BY <1>ok DEF TypeOK, TableType
    <3> QED
      BY <1>34, <1>ok, <3>1 DEF CompactCopy, TypeOK, CompactorType, CompactorPC
  <2>2. TableType'
    BY <1>34, <1>ok DEF CompactCopy, TypeOK, TableType
  <2> QED
    BY <1>34, <1>ok, <2>1, <2>2 DEF CompactCopy, TypeOK, MemType, FlagType, TableType,
       WriterType, FlusherType, CompactorType, IterType, HistoryType
<1>35. CASE CompactPersist
  BY <1>35, <1>ok DEF CompactPersist, CompactorPC, WriteMetadata, TypeOK, MemType, FlagType,
     TableType, WriterType, FlusherType, CompactorType, IterType, HistoryType
<1>36. CASE CompactDelete
  <2> DEFINE marked == Marked(compactor.garbage)
  <2>1. marked \in Seq(SSTable) /\ Len(marked) = Len(sst)
    BY <1>ok, MarkedProperties
  <2>2. sst' \in Seq(SSTable) /\ Len(sst') = Len(sst)
    BY <1>36, <2>1, ReleaseProperties DEF CompactDelete, Marked
  <2>3. TableType'
    BY <1>36, <1>ok, <2>2 DEF CompactDelete, TypeOK, TableType
  <2>4. CompactorType'
    BY <1>36, <2>2 DEF CompactDelete, NoCompaction, CompactorType, CompactorPC
  <2>5. MemType' /\ FlagType' /\ WriterType' /\ HistoryType'
    BY <1>36, <1>ok DEF CompactDelete, TypeOK, MemType, FlagType, WriterType, HistoryType
  <2> QED
    BY <1>36, <1>ok, <2>2, <2>3, <2>4, <2>5, TypesMonotone DEF CompactDelete, TypeOK
<1>37. ASSUME NEW r \in Readers, IteratorCreate(r) PROVE TypeOK'
  <2> DEFINE m == IF Size(Current) > 0 THEN Current ELSE 0
  <2>1. mem' \in Seq(Memtable) /\ Len(mem') = Len(mem)
    <3>1. CASE m = 0
      BY <1>37, <1>ok, <3>1 DEF IteratorCreate, TypeOK, MemType
    <3>2. CASE m # 0
      <4>1. m \in 1..Len(mem)
        BY <3>2 DEF Current
      <4>2. mem' = [mem EXCEPT ![m].ref = @ + 1]
        BY <1>37, <3>2 DEF IteratorCreate
      <4> HIDE DEF m
      <4> QED
        BY <1>ok, <4>1, <4>2, MemRefType
    <3> QED
      BY <3>1, <3>2
  <2>2. sst' \in Seq(SSTable) /\ Len(sst') = Len(sst)
    BY <1>37, <1>ok, RetainProperties DEF IteratorCreate, TypeOK, TableType
  <2>3. MemType' /\ TableType'
    BY <1>37, <1>ok, <2>1, <2>2 DEF IteratorCreate, TypeOK, MemType, TableType
  <2>4. [open |-> TRUE, mem |-> m, tabs |-> list]
          \in [open : BOOLEAN, mem : 0..Len(mem), tabs : SUBSET (1..Len(sst))]
    BY <1>ok DEF Current, TypeOK, TableType
  <2>5. IterType'
    BY <1>37, <1>ok, <2>1, <2>2, <2>4 DEF IteratorCreate, TypeOK, IterType
  <2>6. FlagType' /\ WriterType' /\ HistoryType'
    BY <1>37, <1>ok DEF IteratorCreate, TypeOK, FlagType, WriterType, HistoryType
  <2> QED
    BY <1>37, <1>ok, <2>1, <2>2, <2>3, <2>5, <2>6, TypesMonotone DEF IteratorCreate, TypeOK
<1>38. ASSUME NEW r \in Readers, IteratorClose(r) PROVE TypeOK'
  <2>1. mem' \in Seq(Memtable) /\ Len(mem') = Len(mem)
    <3>1. iter[r].mem \in 0..Len(mem)
      BY <1>ok DEF TypeOK, IterType
    <3>2. CASE iter[r].mem = 0
      BY <1>38, <1>ok, <3>2 DEF IteratorClose, TypeOK, MemType
    <3>3. CASE iter[r].mem # 0
      <4>1. mem' = [mem EXCEPT ![iter[r].mem].ref = @ - 1] /\ iter[r].mem \in 1..Len(mem)
        BY <1>38, <3>1, <3>3 DEF IteratorClose
      <4> QED
        BY <1>ok, <4>1, MemRefType
    <3> QED
      BY <3>2, <3>3
  <2>2. sst' \in Seq(SSTable) /\ Len(sst') = Len(sst)
    BY <1>38, <1>ok, ReleaseProperties DEF IteratorClose, TypeOK, TableType
  <2>3. MemType' /\ TableType'
    BY <1>38, <1>ok, <2>1, <2>2 DEF IteratorClose, TypeOK, MemType, TableType
  <2>4. NoIterator \in [open : BOOLEAN, mem : 0..Len(mem), tabs : SUBSET (1..Len(sst))]
    BY DEF NoIterator
  <2>5. IterType'
    BY <1>38, <1>ok, <2>1, <2>2, <2>4 DEF IteratorClose, TypeOK, IterType
  <2>6. FlagType' /\ WriterType' /\ HistoryType'
    BY <1>38, <1>ok DEF IteratorClose, TypeOK, FlagType, WriterType, HistoryType
  <2> QED
    BY <1>38, <1>ok, <2>1, <2>2, <2>3, <2>5, <2>6, TypesMonotone DEF IteratorClose, TypeOK
<1>39. CASE Stopped
  BY <1>39, <1>ok DEF Stopped, vars, TypeOK, MemType, FlagType, TableType, WriterType,
     FlusherType, CompactorType, IterType, HistoryType
<1> QED
  BY <1>1, <1>2, <1>3, <1>4, <1>5, <1>6, <1>7, <1>8, <1>9, <1>10, <1>11, <1>12,
     <1>13, <1>14, <1>15, <1>16, <1>17, <1>18, <1>19, <1>20, <1>21, <1>22, <1>23,
     <1>24, <1>25, <1>26, <1>27, <1>28, <1>29, <1>30, <1>31, <1>32, <1>33, <1>34,
     <1>35, <1>36, <1>37, <1>38, <1>39, <1>ok
  DEF Next, Step, Calls, WriterStep, FlusherStep, CompactorStep, TypeOK, WriterType

---------------------------------------------------------------------------
(* What most steps leave alone, and the parts of the invariant that follow. *)

MemsKept ==
  /\ Len(mem') = Len(mem)
  /\ \A m \in 1..Len(mem) : mem'[m].recs = mem[m].recs

TablesKept ==
  /\ Len(sst') = Len(sst)
  /\ \A t \in 1..Len(sst) : sst'[t].recs = sst[t].recs /\ sst'[t].old = sst[t].old

\* Only files of tables marked old are removed.
FilesKept == \A t \in files : ~sst[t].old => t \in files'

HeldKept ==
  /\ list' = list
  /\ compactor'.inputs = compactor.inputs /\ compactor'.garbage = compactor.garbage

\* No record leaves the tables that count.
DurableKept == RecordsOf(Held) \subseteq RecordsOf(Held)'

\* A step that keeps the records of the memtables and the tables, and which of
\* them count, keeps what the invariant says about records and tables.
LEMMA RecordsStep ==
  ASSUME IInv, MemsKept, TablesKept, FilesKept, HeldKept,
         immutables' = immutables, accepted' = accepted
  PROVE  Grounded' /\ TableInv' /\ Kept' /\ DurableKept
<1>1. /\ Held' = Held /\ Held \subseteq 1..Len(sst) /\ Len(mem) \in 1..Len(mem)
      /\ immutables \subseteq 1..Len(mem)
  BY DEF IInv, TypeOK, MemType, TableType, CompactorType, Held, HeldKept
<1>2. Grounded'
  BY DEF IInv, Grounded, MemsKept, TablesKept
<1>3. TableInv'
  BY <1>1 DEF IInv, TableInv, TablesKept, FilesKept, HeldKept
<1>4. Kept'
  BY <1>1 DEF IInv, Kept, MemsKept, TablesKept
<1>5. DurableKept
  BY <1>1 DEF RecordsOf, TablesKept, DurableKept
<1> QED
  BY <1>2, <1>3, <1>4, <1>5

\* ... and, when the flush daemon does not move, what it says about the daemon.
LEMMA FlusherKept ==
  ASSUME IInv, MemsKept, TablesKept, FilesKept, HeldKept,
         immutables' = immutables, flusher' = flusher
  PROVE  FlusherInv'
<1>1. /\ Held' = Held /\ Held \subseteq 1..Len(sst)
      /\ immutables \subseteq 1..Len(mem) /\ files \subseteq 1..Len(sst)
  BY DEF IInv, TypeOK, MemType, TableType, CompactorType, Held, HeldKept
<1>2. RecordsOf(Held)' = RecordsOf(Held)
  BY <1>1 DEF RecordsOf, TablesKept
<1>3. \A t : Fresh(t) => Fresh(t)'
  BY <1>1 DEF Fresh, TablesKept, FilesKept, HeldKept
<1>4. flusher.pc \in {"write", "add", "persist", "unregister"} => flusher.mem \in 1..Len(mem)
  BY <1>1 DEF IInv, FlusherInv
<1>5. flusher.pc = "add" => flusher.tab \in 1..Len(sst)
  BY <1>1 DEF IInv, FlusherInv, Fresh
<1>6. flusher.pc = "add" =>
        Fresh(flusher.tab)' /\ sst'[flusher.tab].recs = mem'[flusher.mem].recs
  BY <1>3, <1>4, <1>5 DEF IInv, FlusherInv, MemsKept, TablesKept
<1>7. flusher.pc \in {"persist", "unregister"} => mem'[flusher.mem].recs \subseteq RecordsOf(Held)'
  BY <1>2, <1>4 DEF IInv, FlusherInv, MemsKept
<1>8. flusher.pc = "release" => flusher.mem \in 1..Len(mem')
  BY DEF IInv, FlusherInv, MemsKept
<1> QED
  BY <1>6, <1>7, <1>8 DEF IInv, FlusherInv

\* ... and, when the compaction daemon does not move and the flush daemon has
\* no table to list that it had not before, what it says about compaction.
LEMMA CompactorKept ==
  ASSUME IInv, TablesKept, FilesKept, list' = list, compactor' = compactor,
         flusher'.pc = "add" => flusher.pc = "add" /\ flusher'.tab = flusher.tab
  PROVE  CompactorInv'
<1>1. /\ Held' = Held /\ compactor.inputs \subseteq 1..Len(sst) /\ files \subseteq 1..Len(sst)
  BY DEF IInv, TypeOK, TableType, CompactorType, Held
<1>2. RecordsOf(compactor.inputs)' = RecordsOf(compactor.inputs)
  BY <1>1 DEF RecordsOf, TablesKept
<1>3. \A t : Fresh(t) => Fresh(t)' /\ t \in 1..Len(sst)
  BY <1>1 DEF Fresh, TablesKept, FilesKept
<1>4. compactor.pc = "add" => sst'[compactor.tab].recs = RecordsOf(compactor.inputs)'
  BY <1>2, <1>3 DEF IInv, CompactorInv, TablesKept
<1> QED
  BY <1>3, <1>4 DEF IInv, CompactorInv

---------------------------------------------------------------------------
(* The steps of the writer.                                                *)

\* The writer's steps that only move it on, or set a flag.
LEMMA WriterQuiet ==
  ASSUME IInv,
         \/ \E k \in Keys \cup {ReservedKey} : InsertBlocked(k)
         \/ InsertWait \/ InsertSignal \/ FlushPool \/ FlushSignal \/ FlushCheck
         \/ SpuriousWakeup \/ Free \/ FreeJoinFlush
  PROVE  Grounded' /\ MemInv' /\ TableInv' /\ FlusherInv' /\ CompactorInv'
         /\ FlushCallInv' /\ Kept' /\ DurableKept
<1>1. UNCHANGED <<mem, immutables, sst, list, files, flusher, compactor, accepted>>
  BY DEF InsertBlocked, InsertWait, InsertSignal, FlushPool, FlushSignal, FlushCheck,
         SpuriousWakeup, Free, FreeJoinFlush
<1>2. MemsKept /\ TablesKept /\ FilesKept /\ HeldKept
  BY <1>1 DEF MemsKept, TablesKept, FilesKept, HeldKept
<1>3. writer.pc \in WriterPC
  BY DEF IInv, TypeOK, WriterType
<1>4. Flushing' => Flushing
  BY <1>3 DEF InsertBlocked, InsertWait, InsertSignal, FlushPool, FlushSignal, FlushCheck,
         SpuriousWakeup, Free, FreeJoinFlush, Flushing, Idle, Woken, IInv, TypeOK, WriterType
<1>5. MemInv'
  BY <1>1, <1>4 DEF IInv, MemInv
<1>6. FlushCallInv'
  BY <1>1 DEF InsertBlocked, InsertWait, InsertSignal, FlushPool, FlushSignal, FlushCheck,
         SpuriousWakeup, Free, FreeJoinFlush, FlushCallInv, Idle, Woken, IInv, TypeOK, WriterType
<1> QED
  BY <1>1, <1>2, <1>5, <1>6, RecordsStep, FlusherKept, CompactorKept

\* lsmt_free's last step, and the readers' steps, only move references.
LEMMA ReferencesStep ==
  ASSUME IInv,
         \/ FreeJoinCompact
         \/ \E r \in Readers : IteratorCreate(r) \/ IteratorClose(r)
  PROVE  Grounded' /\ MemInv' /\ TableInv' /\ FlusherInv' /\ CompactorInv'
         /\ FlushCallInv' /\ Kept' /\ DurableKept
<1>1. UNCHANGED <<immutables, active, list, flusher, compactor, accepted>>
  BY DEF FreeJoinCompact, IteratorCreate, IteratorClose
<1>2. mem \in [1..Len(mem) -> Memtable] /\ Len(mem) \in Nat
  BY DEF IInv, TypeOK, MemType
<1>3. MemsKept
  <2>1. CASE FreeJoinCompact
    BY <2>1 DEF FreeJoinCompact, MemsKept
  <2>2. ASSUME NEW r \in Readers, IteratorCreate(r) PROVE MemsKept
    <3>1. PICK m \in {0, Len(mem)} : mem' = IF m = 0 THEN mem ELSE [mem EXCEPT ![m].ref = @ + 1]
      BY <2>2 DEF IteratorCreate, Current
    <3>2. CASE m = 0
      BY <3>1, <3>2 DEF MemsKept
    <3>3. CASE m # 0
      <4>1. m \in 1..Len(mem) /\ mem' = [mem EXCEPT ![m].ref = @ + 1]
        BY <1>2, <3>1, <3>3
      <4>2. Len(mem') = Len(mem)
        BY <4>1, MemRefType DEF IInv
      <4> QED
        BY <1>2, <4>1, <4>2 DEF MemsKept, Memtable
    <3> QED
      BY <3>2, <3>3
  <2>3. ASSUME NEW r \in Readers, IteratorClose(r) PROVE MemsKept
    <3>1. iter[r].mem \in 0..Len(mem)
      BY DEF IInv, TypeOK, IterType
    <3>2. CASE iter[r].mem = 0
      BY <2>3, <3>2 DEF IteratorClose, MemsKept
    <3>3. CASE iter[r].mem # 0
      <4>1. iter[r].mem \in 1..Len(mem) /\ mem' = [mem EXCEPT ![iter[r].mem].ref = @ - 1]
        BY <2>3, <3>1, <3>3 DEF IteratorClose
      <4>2. Len(mem') = Len(mem)
        BY <4>1, MemRefType DEF IInv
      <4> QED
        BY <1>2, <4>1, <4>2 DEF MemsKept, Memtable
    <3> QED
      BY <3>2, <3>3
  <2> QED
    BY <2>1, <2>2, <2>3
<1>4. TablesKept
  <2>1. sst \in Seq(SSTable)
    BY DEF IInv, TypeOK, TableType
  <2>2. (\E T : sst' = Retain(sst, T)) \/ (\E T : sst' = Release(sst, T))
    BY DEF FreeJoinCompact, IteratorCreate, IteratorClose
  <2> QED
    BY <2>1, <2>2, RetainProperties, ReleaseProperties DEF TablesKept
<1>5. FilesKept
  BY DEF FreeJoinCompact, IteratorCreate, IteratorClose, Removed, FilesKept
<1>6. writer' = writer \/ writer'.pc = "freed"
  BY DEF FreeJoinCompact, IteratorCreate, IteratorClose, Idle
<1>7. MemInv'
  BY <1>1, <1>2, <1>3, <1>6 DEF IInv, TypeOK, MemType, MemInv, MemsKept, Flushing
<1>8. FlushCallInv'
  BY <1>1, <1>6 DEF IInv, FlushCallInv
<1>9. HeldKept
  BY <1>1 DEF HeldKept
<1> QED
  BY <1>1, <1>3, <1>4, <1>5, <1>7, <1>8, <1>9, RecordsStep, FlusherKept, CompactorKept

\* A step that adds a record to the memtable in use, or makes it immutable and
\* puts a new one in its place, and touches nothing else.
MemtableGrows ==
  /\ UNCHANGED <<sst, list, files, flusher, compactor>>
  /\ \/ immutables' = immutables /\ Len(mem') = Len(mem)
     \/ immutables' = immutables \cup {Len(mem)} /\ Len(mem') = Len(mem) + 1
  /\ \A m \in 1..Len(mem) : mem[m].recs \subseteq mem'[m].recs
  /\ \A m \in immutables : mem'[m].recs = mem[m].recs
  /\ \A m \in 1..Len(mem') : mem'[m].recs \subseteq accepted'
  /\ IsFiniteSet(accepted')
  /\ accepted \subseteq accepted' /\ accepted' \subseteq accepted \cup mem'[Len(mem')].recs

\* Such a step keeps every part of the invariant but the writer's.
LEMMA MemtableGrowsStep ==
  ASSUME IInv, MemtableGrows
  PROVE  Grounded' /\ Len(mem') \notin immutables' /\ TableInv' /\ FlusherInv'
         /\ CompactorInv' /\ Kept' /\ DurableKept
<1>1. /\ Len(mem) \in Nat \ {0} /\ immutables \subseteq 1..Len(mem) /\ Len(mem) \notin immutables
  BY DEF IInv, TypeOK, MemType, MemInv
<1>2. TablesKept /\ FilesKept /\ HeldKept
  BY DEF MemtableGrows, TablesKept, FilesKept, HeldKept
<1>3. Grounded'
  BY DEF IInv, Grounded, MemtableGrows
<1>4. Len(mem') \notin immutables'
  BY <1>1 DEF MemtableGrows
<1>5. Held' = Held
  BY DEF MemtableGrows, Held
<1>6. TableInv'
  BY <1>5 DEF IInv, TableInv, MemtableGrows
<1>7. CompactorInv'
  BY <1>2, CompactorKept DEF MemtableGrows
<1>8. FlusherInv'
  <2>1. RecordsOf(Held)' = RecordsOf(Held)
    BY <1>5 DEF RecordsOf, MemtableGrows
  <2>2. \A t : Fresh(t) => Fresh(t)'
    BY <1>5 DEF Fresh, MemtableGrows
  <2>3. flusher.pc \in {"write", "add", "persist", "unregister"} =>
          flusher.mem \in immutables' /\ mem'[flusher.mem].recs = mem[flusher.mem].recs
    BY DEF IInv, FlusherInv, MemtableGrows
  <2>4. flusher.pc = "release" => flusher.mem \in 1..Len(mem')
    BY <1>1 DEF IInv, FlusherInv, MemtableGrows
  <2> QED
    BY <2>1, <2>2, <2>3, <2>4 DEF IInv, FlusherInv, MemtableGrows
<1>9. Kept'
  <2> SUFFICES ASSUME NEW r \in accepted'
               PROVE  \/ \E m \in immutables' \cup {Len(mem')} : r \in mem'[m].recs
                      \/ \E t \in Held' : r \in sst'[t].recs
    BY DEF Kept
  <2>1. CASE r \notin accepted
    BY <2>1 DEF MemtableGrows
  <2>2. CASE r \in accepted
    <3>1. CASE \E t \in Held : r \in sst[t].recs
      BY <1>5, <3>1 DEF MemtableGrows
    <3>2. CASE \E m \in immutables \cup {Len(mem)} : r \in mem[m].recs
      <4>1. PICK m \in immutables \cup {Len(mem)} : r \in mem[m].recs
        BY <3>2
      <4>2. r \in mem'[m].recs
        BY <1>1, <4>1 DEF MemtableGrows
      <4>3. m \in immutables' \cup {Len(mem')}
        BY <4>1 DEF MemtableGrows
      <4> QED
        BY <4>2, <4>3
    <3> QED
      BY <2>2, <3>1, <3>2 DEF IInv, Kept
  <2> QED
    BY <2>1, <2>2
<1>10. DurableKept
  BY <1>5 DEF RecordsOf, MemtableGrows, DurableKept
<1> QED
  BY <1>3, <1>4, <1>6, <1>7, <1>8, <1>9, <1>10

\* lsmt_insert when the memtable has room.
LEMMA InsertPlaceStep ==
  ASSUME IInv, NEW k \in Keys \cup {ReservedKey}, InsertPlace(k)
  PROVE  Grounded' /\ MemInv' /\ TableInv' /\ FlusherInv' /\ CompactorInv'
         /\ FlushCallInv' /\ Kept' /\ DurableKept
<1> DEFINE rec == <<k, inserted + 1>>
<1>1. /\ mem \in [1..Len(mem) -> Memtable] /\ Len(mem) \in Nat \ {0}
      /\ immutables \subseteq 1..Len(mem) /\ Len(mem) \notin immutables
  BY DEF IInv, TypeOK, MemType, MemInv
<1>2. \/ mem' = mem /\ accepted' = accepted
      \/ /\ mem' = [mem EXCEPT ![Len(mem)].recs = @ \cup {rec}]
         /\ accepted' = accepted \cup {rec}
  BY DEF InsertPlace, Accept, Current
<1>3. UNCHANGED <<immutables, active, sst, list, files, flusher, compactor>> /\ writer'.pc = "idle"
  BY DEF InsertPlace, Idle
<1>4. IsFiniteSet(accepted')
  BY <1>2, FS_AddElement DEF IInv, Grounded
<1>5. MemtableGrows
  <2>1. CASE mem' = mem /\ accepted' = accepted
    BY <1>3, <1>4, <2>1 DEF MemtableGrows, IInv, Grounded
  <2>2. CASE /\ mem' = [mem EXCEPT ![Len(mem)].recs = @ \cup {rec}]
             /\ accepted' = accepted \cup {rec}
    <3> HIDE DEF rec
    <3>1. DOMAIN mem' = 1..Len(mem) /\ mem'[Len(mem)].recs = mem[Len(mem)].recs \cup {rec}
      BY <1>1, <2>2 DEF Memtable
    <3>2. \A m \in 1..Len(mem) : m # Len(mem) => mem'[m] = mem[m]
      BY <1>1, <2>2
    <3>3. Len(mem') = Len(mem)
      <4>1. mem' \in [1..Len(mem) -> {mem'[m] : m \in 1..Len(mem)}]
        BY <2>2, <3>1
      <4> QED
        BY <1>1, <4>1, FunctionIsSeq
    <3> QED
      BY <1>1, <1>3, <1>4, <2>2, <3>1, <3>2, <3>3 DEF MemtableGrows, IInv, Grounded
  <2> QED
    BY <1>2, <2>1, <2>2
<1> QED
  BY <1>3, <1>5, MemtableGrowsStep DEF MemInv, FlushCallInv, Flushing

\* lsmt_insert when the memtable is full and becomes immutable.
LEMMA InsertRotateStep ==
  ASSUME IInv, NEW k \in Keys \cup {ReservedKey}, InsertRotate(k)
  PROVE  Grounded' /\ MemInv' /\ TableInv' /\ FlusherInv' /\ CompactorInv'
         /\ FlushCallInv' /\ Kept' /\ DurableKept
<1> DEFINE rec == <<k, inserted + 1>>
<1>1. /\ mem \in Seq(Memtable) /\ Len(mem) \in Nat \ {0} /\ immutables \subseteq 1..Len(mem)
  BY DEF IInv, TypeOK, MemType
<1>2. PICK new : /\ mem' = Append(mem, new)
                 /\ \/ new.recs = {} /\ accepted' = accepted
                    \/ new.recs = {rec} /\ accepted' = accepted \cup {rec}
  BY DEF InsertRotate, Accept, NewMemtable
<1>3. /\ UNCHANGED <<sst, list, files, flusher, compactor>>
      /\ writer'.pc \in {"idle", "signal"} /\ immutables' = immutables \cup {Len(mem)}
  BY DEF InsertRotate, Idle, Current
<1>4. IsFiniteSet(accepted')
  BY <1>2, FS_AddElement DEF IInv, Grounded
<1>5. /\ Len(mem') = Len(mem) + 1 /\ mem'[Len(mem')] = new
      /\ \A m \in 1..Len(mem) : mem'[m] = mem[m]
  BY <1>1, <1>2
<1>6. MemtableGrows
  <2> HIDE DEF rec
  <2>1. \A m \in 1..Len(mem') : m \in 1..Len(mem) \/ m = Len(mem')
    BY <1>1, <1>5
  <2>2. \A m \in 1..Len(mem') : mem'[m].recs \subseteq accepted'
    BY <1>2, <1>5, <2>1 DEF IInv, Grounded
  <2> QED
    BY <1>1, <1>2, <1>3, <1>4, <1>5, <2>2 DEF MemtableGrows
<1> QED
  BY <1>3, <1>6, MemtableGrowsStep DEF MemInv, FlushCallInv, Flushing

\* lsmt_flush registers the memtable.
LEMMA FlushRegisterStep ==
  ASSUME IInv, FlushRegister
  PROVE  Grounded' /\ MemInv' /\ TableInv' /\ FlusherInv' /\ CompactorInv'
         /\ FlushCallInv' /\ Kept' /\ DurableKept
<1>1. /\ mem \in Seq(Memtable) /\ Len(mem) \in Nat \ {0} /\ immutables \subseteq 1..Len(mem)
  BY DEF IInv, TypeOK, MemType
<1>2. UNCHANGED <<sst, list, files, flusher, compactor, accepted>>
  BY DEF FlushRegister
<1>3. CASE Cardinality(immutables) < MaxImmutables
  <2>1. /\ mem' = Append(mem, NewMemtable) /\ immutables' = immutables \cup {Len(mem)}
        /\ writer'.pc = "flush_pool"
    BY <1>3 DEF FlushRegister, Current, Idle
  <2>2. /\ Len(mem') = Len(mem) + 1 /\ mem'[Len(mem')].recs = {}
        /\ \A m \in 1..Len(mem) : mem'[m] = mem[m]
    BY <1>1, <2>1 DEF NewMemtable
  <2>3. \A m \in 1..Len(mem') : m \in 1..Len(mem) \/ m = Len(mem')
    BY <1>1, <2>2
  <2>4. \A m \in 1..Len(mem') : mem'[m].recs \subseteq accepted'
    BY <1>2, <2>2, <2>3 DEF IInv, Grounded
  <2>5. MemtableGrows
    BY <1>1, <1>2, <2>1, <2>2, <2>4 DEF MemtableGrows, IInv, Grounded
  <2> QED
    BY <2>1, <2>2, <2>5, MemtableGrowsStep DEF MemInv, FlushCallInv
<1>4. CASE ~(Cardinality(immutables) < MaxImmutables)
  <2>1. UNCHANGED <<mem, immutables>> /\ writer'.pc = "overflow"
    BY <1>4 DEF FlushRegister, Idle
  <2>2. MemtableGrows
    BY <1>1, <1>2, <2>1 DEF MemtableGrows, IInv, Grounded
  <2> QED
    BY <2>1, <2>2, MemtableGrowsStep DEF MemInv, FlushCallInv, Flushing
<1> QED
  BY <1>3, <1>4

---------------------------------------------------------------------------
(* The steps of the flush daemon.                                          *)

\* The daemon's steps that change neither the tables nor what is registered.
LEMMA FlusherQuiet ==
  ASSUME IInv,
         \/ FlushDaemonWake \/ FlushScan \/ FlushIdle \/ FlushPersist \/ FlushRelease
         \/ FlushNotifyCompaction \/ FlushNotifyPool
  PROVE  Grounded' /\ MemInv' /\ TableInv' /\ FlusherInv' /\ CompactorInv'
         /\ FlushCallInv' /\ Kept' /\ DurableKept
<1> USE DEF FlushDaemonWake, FlushScan, FlushIdle, FlushPersist, FlushRelease,
            FlushNotifyCompaction, FlushNotifyPool
<1>1. UNCHANGED <<immutables, sst, list, files, compactor, accepted>>
  OBVIOUS
<1>2. /\ mem \in [1..Len(mem) -> Memtable] /\ Len(mem) \in Nat \ {0}
      /\ immutables \subseteq 1..Len(mem)
  BY DEF IInv, TypeOK, MemType
<1>3. MemsKept
  <2>1. CASE FlushRelease
    <3>1. flusher.mem \in 1..Len(mem) /\ mem' = [mem EXCEPT ![flusher.mem].ref = @ - 1]
      BY <2>1 DEF IInv, FlusherInv
    <3>2. Len(mem') = Len(mem)
      BY <3>1, MemRefType DEF IInv
    <3> QED
      BY <1>2, <3>1, <3>2 DEF MemsKept, Memtable
  <2>2. CASE ~FlushRelease
    <3>1. mem' = mem
      BY <2>2
    <3> QED
      BY <3>1 DEF MemsKept
  <2> QED
    BY <2>1, <2>2
<1>4. TablesKept /\ FilesKept /\ HeldKept
  BY <1>1 DEF TablesKept, FilesKept, HeldKept
<1>5. /\ flusher'.pc \in {"exited", "scan", "idle", "write", "unregister", "notify_compact", "notify_pool"}
      /\ flusher'.pc = "write" => flusher'.mem \in immutables
      /\ flusher'.pc = "unregister" => flusher.pc = "persist" /\ flusher'.mem = flusher.mem
  <2>1. flusher \in [pc : FlusherPC, mem : 0..Len(mem), tab : 0..Len(sst), gen : Nat,
                     copy : SUBSET (1..Len(sst))]
    BY DEF IInv, TypeOK, FlusherType
  <2>2. immutables # {} => Min(immutables) \in immutables
    BY <1>2, MinProperties
  <2>3. CASE FlushScan
    BY <2>1, <2>2, <2>3
  <2>4. CASE FlushPersist
    BY <2>1, <2>4
  <2>5. CASE FlushDaemonWake \/ FlushNotifyCompaction \/ FlushNotifyPool
    BY <2>1, <2>5
  <2>6. CASE FlushIdle \/ FlushRelease
    BY <2>6 DEF NoJob
  <2> QED
    BY <2>3, <2>4, <2>5, <2>6
<1>6. FlusherInv'
  <2>1. RecordsOf(Held)' = RecordsOf(Held)
    BY <1>1 DEF RecordsOf, Held
  <2>2. flusher'.pc = "unregister" =>
          /\ flusher'.mem \in immutables'
          /\ mem'[flusher'.mem].recs \subseteq RecordsOf(Held)'
    BY <1>1, <1>2, <1>3, <1>5, <2>1 DEF IInv, FlusherInv, MemsKept
  <2> QED
    BY <1>1, <1>5, <2>2 DEF FlusherInv
<1>7. writer' = writer \/ writer' = Woken(writer)
  OBVIOUS
<1>8. /\ writer'.pc \in {"flush_signal", "flush_check", "flush_wait"}
           => writer.pc \in {"flush_signal", "flush_check", "flush_wait"}
      /\ Flushing' => Flushing
  BY <1>7 DEF Woken, Flushing, IInv, TypeOK, WriterType
<1>9. MemInv'
  BY <1>1, <1>2, <1>3, <1>8 DEF IInv, MemInv, MemsKept
<1>10. FlushCallInv'
  <2>1. active' = active \/ immutables = {}
    OBVIOUS
  <2> QED
    BY <1>1, <1>8, <2>1 DEF IInv, FlushCallInv
<1> QED
  BY <1>1, <1>3, <1>4, <1>5, <1>6, <1>9, <1>10, RecordsStep, CompactorKept

\* memtable_to_disk: a table is written and not listed yet.
LEMMA FlushWriteStep ==
  ASSUME IInv, FlushWrite
  PROVE  Grounded' /\ MemInv' /\ TableInv' /\ FlusherInv' /\ CompactorInv'
         /\ FlushCallInv' /\ Kept' /\ DurableKept
<1> DEFINE recs == mem[flusher.mem].recs
           new  == [recs |-> recs, level |-> 0, ref |-> 1, old |-> FALSE]
<1>0. PICK n : n = Len(sst) + 1
  OBVIOUS
<1>1. UNCHANGED <<mem, immutables, active, writer, list, compactor, accepted>>
  BY DEF FlushWrite
<1>2. /\ flusher.mem \in immutables /\ flusher.mem \in 1..Len(mem) /\ sst \in Seq(SSTable)
      /\ Len(sst) \in Nat /\ files \subseteq 1..Len(sst) /\ Held \subseteq 1..Len(sst)
      /\ compactor.garbage \subseteq 1..Len(sst) /\ compactor.inputs \subseteq 1..Len(sst)
      /\ Held' = Held
  BY <1>1 DEF IInv, FlusherInv, FlushWrite, TypeOK, MemType, TableType, CompactorType, Held
<1>3. MemInv' /\ FlushCallInv'
  BY <1>1 DEF IInv, MemInv, FlushCallInv, Flushing
<1>4. CASE recs = {}
  <2>1. sst' = sst /\ files' = files /\ flusher'.pc = "unregister" /\ flusher'.mem = flusher.mem
    BY <1>4 DEF FlushWrite, IInv, TypeOK, FlusherType
  <2>2. MemsKept /\ TablesKept /\ FilesKept /\ HeldKept
    BY <1>1, <2>1 DEF MemsKept, TablesKept, FilesKept, HeldKept
  <2>3. FlusherInv'
    BY <1>1, <1>2, <1>4, <2>1 DEF FlusherInv
  <2> QED
    BY <1>1, <1>3, <2>1, <2>2, <2>3, RecordsStep, CompactorKept
<1>5. CASE recs # {}
  <2>1. /\ sst' = Append(sst, new) /\ files' = files \cup {n} /\ flusher'.pc = "add"
        /\ flusher'.tab = n /\ flusher'.mem = flusher.mem
    BY <1>0, <1>5 DEF FlushWrite, IInv, TypeOK, FlusherType
  <2>2. /\ Len(sst') = n /\ sst'[n] = new /\ \A t \in 1..Len(sst) : sst'[t] = sst[t]
    BY <1>0, <1>2, <2>1
  <2>3. n \notin 1..Len(sst) /\ \A t \in 1..n : t \in 1..Len(sst) \/ t = n
    BY <1>0, <1>2
  <2> HIDE DEF new
  <2>4. Grounded'
    <3>1. sst'[n].recs \subseteq accepted
      BY <1>2, <2>2 DEF IInv, Grounded, new
    <3> QED
      BY <1>1, <2>2, <2>3, <3>1 DEF IInv, Grounded
  <2>5. TableInv'
    BY <1>1, <1>2, <2>1, <2>2 DEF IInv, TableInv
  <2>6. \A t : Fresh(t) => Fresh(t)' /\ t # n
    BY <1>1, <1>2, <2>1, <2>2, <2>3 DEF Fresh
  <2>7. Fresh(n)' /\ sst'[n].recs = recs
    <3>1. n \notin Held' /\ n \notin compactor'.garbage /\ n \in files'
      BY <1>1, <1>2, <2>1, <2>3
    <3>2. sst'[n].recs = recs /\ ~sst'[n].old
      BY <2>2 DEF new
    <3> QED
      BY <3>1, <3>2 DEF Fresh
  <2>8. FlusherInv'
    <3>1. (Fresh(flusher.tab) /\ sst[flusher.tab].recs = mem[flusher.mem].recs)'
      BY <1>1, <2>1, <2>7
    <3> QED
      BY <1>1, <1>2, <2>1, <3>1 DEF FlusherInv
  <2>9. CompactorInv'
    <3>1. RecordsOf(compactor.inputs)' = RecordsOf(compactor.inputs)
      BY <1>1, <1>2, <2>2 DEF RecordsOf
    <3>2. compactor.pc \in {"wait_active", "wait_count", "add"} =>
            Fresh(compactor.tab)' /\ n # compactor.tab /\ compactor.tab \in 1..Len(sst)
      <4>1. compactor.pc \in {"wait_active", "wait_count", "add"} =>
              Fresh(compactor.tab) /\ compactor.tab \in files
        BY DEF IInv, CompactorInv, Fresh
      <4> QED
        BY <1>1, <1>2, <2>6, <4>1
    <3>3. compactor.pc = "add" => sst'[compactor.tab].recs = RecordsOf(compactor.inputs)'
      BY <2>2, <3>1, <3>2 DEF IInv, CompactorInv
    <3> QED
      BY <1>1, <2>1, <3>2, <3>3 DEF IInv, CompactorInv
  <2>10. Kept'
    BY <1>1, <1>2, <2>2 DEF IInv, Kept
  <2>11. DurableKept
    BY <1>2, <2>2 DEF RecordsOf, DurableKept
  <2> QED
    BY <1>3, <2>4, <2>5, <2>8, <2>9, <2>10, <2>11
<1> QED
  BY <1>4, <1>5

\* The flushed table is listed: from here its records are also on disk.
LEMMA FlushAddStep ==
  ASSUME IInv, FlushAdd
  PROVE  Grounded' /\ MemInv' /\ TableInv' /\ FlusherInv' /\ CompactorInv'
         /\ FlushCallInv' /\ Kept' /\ DurableKept
<1>1. UNCHANGED <<mem, immutables, active, writer, sst, files, compactor, accepted>>
  BY DEF FlushAdd
<1>2. /\ list' = list \cup {flusher.tab} /\ Held' = Held \cup {flusher.tab}
      /\ flusher'.pc = "persist" /\ flusher'.mem = flusher.mem
  BY <1>1 DEF FlushAdd, AddTable, IInv, TypeOK, FlusherType, Held
<1>3. /\ Fresh(flusher.tab) /\ sst[flusher.tab].recs = mem[flusher.mem].recs
      /\ flusher.mem \in immutables
  BY DEF FlushAdd, IInv, FlusherInv
<1>4. Grounded' /\ MemInv' /\ FlushCallInv'
  BY <1>1 DEF IInv, Grounded, MemInv, FlushCallInv, Flushing
<1>5. TableInv'
  <2>1. flusher.tab \notin compactor.inputs
    BY <1>3 DEF Fresh, Held
  <2> QED
    BY <1>1, <1>2, <1>3, <2>1 DEF IInv, TableInv, Fresh
<1>6. FlusherInv'
  <2>1. mem'[flusher.mem].recs \subseteq RecordsOf(Held)'
    BY <1>1, <1>2, <1>3 DEF RecordsOf
  <2> QED
    BY <1>1, <1>2, <1>3, <2>1 DEF FlusherInv
<1>7. CompactorInv'
  <2>1. RecordsOf(compactor.inputs)' = RecordsOf(compactor.inputs)
    BY <1>1 DEF RecordsOf
  <2>2. compactor.pc \in {"wait_active", "wait_count", "add"} => Fresh(compactor.tab)'
    BY <1>1, <1>2 DEF FlushAdd, IInv, CompactorInv, Fresh
  <2> QED
    BY <1>1, <1>2, <2>1, <2>2 DEF IInv, CompactorInv
<1>8. Kept'
  BY <1>1, <1>2 DEF IInv, Kept
<1>9. DurableKept
  BY <1>1, <1>2 DEF RecordsOf, DurableKept
<1> QED
  BY <1>4, <1>5, <1>6, <1>7, <1>8, <1>9

\* The memtable is unregistered, when its records are in a listed table.
LEMMA FlushUnregisterStep ==
  ASSUME IInv, FlushUnregister
  PROVE  Grounded' /\ MemInv' /\ TableInv' /\ FlusherInv' /\ CompactorInv'
         /\ FlushCallInv' /\ Kept' /\ DurableKept
<1>1. UNCHANGED <<mem, active, writer, sst, list, files, compactor, accepted>>
  BY DEF FlushUnregister
<1>2. /\ immutables' = immutables \ {flusher.mem} /\ Held' = Held
      /\ flusher'.pc = "release" /\ flusher'.mem = flusher.mem
  BY <1>1 DEF FlushUnregister, Shifted, IInv, TypeOK, FlusherType, Held
<1>3. flusher.mem \in immutables /\ flusher.mem \in 1..Len(mem)
      /\ mem[flusher.mem].recs \subseteq RecordsOf(Held)
  BY DEF FlushUnregister, IInv, FlusherInv, TypeOK, MemType
<1>4. Grounded' /\ MemInv' /\ FlushCallInv'
  BY <1>1, <1>2 DEF IInv, Grounded, MemInv, FlushCallInv, Flushing
<1>5. TableInv'
  BY <1>1, <1>2 DEF IInv, TableInv
<1>6. FlusherInv'
  BY <1>1, <1>2, <1>3 DEF FlusherInv
<1>7. CompactorInv'
  <2>1. TablesKept /\ FilesKept
    BY <1>1 DEF TablesKept, FilesKept
  <2> QED
    BY <1>1, <1>2, <2>1, CompactorKept
<1>8. Kept'
  <2> SUFFICES ASSUME NEW r \in accepted
               PROVE  \/ \E m \in immutables' \cup {Len(mem)} : r \in mem[m].recs
                      \/ \E t \in Held : r \in sst[t].recs
    BY <1>1, <1>2 DEF Kept
  <2>1. CASE r \in mem[flusher.mem].recs
    BY <1>3, <2>1 DEF RecordsOf
  <2>2. CASE r \notin mem[flusher.mem].recs
    BY <1>2, <2>2 DEF IInv, Kept
  <2> QED
    BY <2>1, <2>2
<1>9. DurableKept
  BY <1>1, <1>2 DEF RecordsOf, DurableKept
<1> QED
  BY <1>4, <1>5, <1>6, <1>7, <1>8, <1>9

---------------------------------------------------------------------------
(* The steps of the compaction daemon.                                     *)

\* The daemon's steps that change no table and take none from the list.
LEMMA CompactorQuiet ==
  ASSUME IInv,
         \/ CompactionDaemonWake \/ CompactStart \/ TierFits \/ MergePollActive
         \/ MergePollCount \/ MergeWrite \/ CompactCopy \/ CompactPersist
  PROVE  Grounded' /\ MemInv' /\ TableInv' /\ FlusherInv' /\ CompactorInv'
         /\ FlushCallInv' /\ Kept' /\ DurableKept
<1> USE DEF CompactionDaemonWake, CompactStart, TierFits, MergePollActive,
            MergePollCount, MergeWrite, CompactCopy, CompactPersist
<1>1. UNCHANGED <<mem, immutables, active, writer, sst, list, files, flusher, accepted>>
  OBVIOUS
<1>2. compactor \in CompactorSet(Len(sst))
  BY DEF IInv, TypeOK, CompactorType, CompactorSet
<1>3. ASSUME MergePollActive \/ MergePollCount \/ MergeWrite
      PROVE  /\ CompactorInv' /\ compactor'.inputs = compactor.inputs
             /\ compactor'.garbage = compactor.garbage
  <2>1. /\ compactor.pc \in {"wait_active", "wait_count"}
        /\ compactor'.pc \in {"wait_active", "wait_count"}
        /\ compactor'.tab = compactor.tab
        /\ compactor'.inputs = compactor.inputs /\ compactor'.garbage = compactor.garbage
    BY <1>2, <1>3 DEF CompactorSet
  <2>2. CompactorInv'
    BY <1>1, <2>1 DEF IInv, CompactorInv, Fresh, Held
  <2> QED
    BY <2>1, <2>2
<1>4. ASSUME ~(MergePollActive \/ MergePollCount \/ MergeWrite)
      PROVE  /\ CompactorInv' /\ compactor'.inputs = compactor.inputs
             /\ compactor'.garbage = compactor.garbage
  <2>1. /\ compactor.pc \in {"idle", "start", "tier", "copy", "persist"}
        /\ compactor.inputs = {}
    BY <1>4 DEF IInv, CompactorInv
  <2>2. /\ compactor'.pc \in {"idle", "exited", "start", "tier", "copy", "persist", "delete"}
        /\ compactor'.inputs = compactor.inputs /\ compactor'.garbage = compactor.garbage
    <3>1. CASE TierFits
      BY <1>2, <2>1, <3>1 DEF NextTier, NoCompaction, CompactorSet
    <3>2. CASE ~TierFits
      BY <1>2, <1>4, <3>2 DEF CompactorSet
    <3> QED
      BY <3>1, <3>2
  <2>3. CompactorInv'
    BY <2>1, <2>2 DEF CompactorInv
  <2> QED
    BY <2>2, <2>3
<1>5. CompactorInv' /\ HeldKept
  <2>1. /\ CompactorInv' /\ compactor'.inputs = compactor.inputs
        /\ compactor'.garbage = compactor.garbage
    BY <1>3, <1>4
  <2> QED
    BY <1>1, <2>1 DEF HeldKept
<1>6. MemsKept /\ TablesKept /\ FilesKept
  BY <1>1 DEF MemsKept, TablesKept, FilesKept
<1>7. MemInv' /\ FlushCallInv'
  BY <1>1 DEF IInv, MemInv, FlushCallInv, Flushing
<1> QED
  BY <1>1, <1>5, <1>6, <1>7, RecordsStep, FlusherKept

\* Tables leave the list to be merged; they still count.
LEMMA TierPopStep ==
  ASSUME IInv, TierPop
  PROVE  Grounded' /\ MemInv' /\ TableInv' /\ FlusherInv' /\ CompactorInv'
         /\ FlushCallInv' /\ Kept' /\ DurableKept
<1>1. UNCHANGED <<mem, immutables, active, writer, sst, files, flusher, accepted>>
  BY DEF TierPop
<1>2. compactor \in CompactorSet(Len(sst)) /\ compactor.pc = "tier" /\ compactor.inputs = {}
  BY DEF TierPop, IInv, CompactorInv, TypeOK, CompactorType, CompactorSet
<1>3. PICK O \in SUBSET list :
        /\ list' = list \ O
        /\ \E pc \in {"abort", "merge"} : compactor' = [compactor EXCEPT !.pc = pc, !.inputs = O]
  <2> DEFINE T == TierTables(compactor.tier)
             N == PopCount(T, SumSizes(T) - Threshold[compactor.tier])
  <2>1. Oldest(T, N) \in SUBSET list
    BY DEF Oldest, TierTables
  <2>2. /\ list' = list \ Oldest(T, N)
        /\ compactor' = [compactor EXCEPT !.pc = IF N < 2 THEN "abort" ELSE "merge",
                                          !.inputs = Oldest(T, N)]
    BY DEF TierPop
  <2> HIDE DEF T, N
  <2> QED
    BY <2>1, <2>2
<1>4. /\ compactor'.inputs = O /\ compactor'.garbage = compactor.garbage
      /\ compactor'.pc \in {"abort", "merge"} /\ Held' = Held
  BY <1>2, <1>3 DEF CompactorSet, Held
<1>5. Grounded' /\ MemInv' /\ FlushCallInv' /\ Kept'
  BY <1>1, <1>4 DEF IInv, Grounded, MemInv, FlushCallInv, Flushing, Kept
<1>6. TableInv'
  BY <1>1, <1>3, <1>4 DEF IInv, TableInv
<1>7. FlusherInv'
  <2>1. RecordsOf(Held)' = RecordsOf(Held)
    BY <1>1, <1>4 DEF RecordsOf
  <2>2. \A t : Fresh(t) => Fresh(t)'
    BY <1>1, <1>4 DEF Fresh
  <2> QED
    BY <1>1, <2>1, <2>2 DEF IInv, FlusherInv
<1>8. CompactorInv'
  BY <1>4 DEF CompactorInv
<1>9. DurableKept
  BY <1>1, <1>4 DEF RecordsOf, DurableKept
<1> QED
  BY <1>5, <1>6, <1>7, <1>8, <1>9

\* A merge begins: its output is created, empty and not listed.
LEMMA MergeOpenStep ==
  ASSUME IInv, MergeOpen
  PROVE  Grounded' /\ MemInv' /\ TableInv' /\ FlusherInv' /\ CompactorInv'
         /\ FlushCallInv' /\ Kept' /\ DurableKept
<1> DEFINE new == [recs |-> {}, level |-> compactor.tier + 1, ref |-> 1, old |-> FALSE]
           s   == Retain(sst, compactor.inputs)
<1>0. PICK n : n = Len(sst) + 1
  OBVIOUS
<1>1. UNCHANGED <<mem, immutables, active, writer, list, flusher, accepted>>
  BY DEF MergeOpen
<1>2. /\ sst \in Seq(SSTable) /\ Len(sst) \in Nat /\ files \subseteq 1..Len(sst)
      /\ Held \subseteq 1..Len(sst) /\ compactor.garbage \subseteq 1..Len(sst)
      /\ immutables \subseteq 1..Len(mem)
  BY DEF IInv, TypeOK, MemType, TableType, CompactorType, Held
<1>3. /\ s \in Seq(SSTable) /\ Len(s) = Len(sst)
      /\ \A t \in 1..Len(sst) : s[t].recs = sst[t].recs /\ s[t].old = sst[t].old
  BY <1>2, RetainProperties
<1>4. sst' = Append(s, new) /\ files' = files \cup {n}
  BY <1>0 DEF MergeOpen
<1>5. /\ compactor'.pc = "wait_active" /\ compactor'.tab = n
      /\ compactor'.inputs = compactor.inputs /\ compactor'.garbage = compactor.garbage
      /\ Held' = Held
  BY <1>0, <1>1 DEF MergeOpen, IInv, TypeOK, CompactorType, Held
<1> HIDE DEF s, new
<1>6. /\ Len(sst') = n /\ sst'[n] = new
      /\ \A t \in 1..Len(sst) : sst'[t].recs = sst[t].recs /\ sst'[t].old = sst[t].old
  BY <1>0, <1>2, <1>3, <1>4
<1>7. n \notin 1..Len(sst) /\ \A t \in 1..n : t \in 1..Len(sst) \/ t = n
  BY <1>0, <1>2
<1>8. MemInv' /\ FlushCallInv'
  BY <1>1 DEF IInv, MemInv, FlushCallInv, Flushing
<1>9. Grounded'
  BY <1>1, <1>6, <1>7 DEF IInv, Grounded, new
<1>10. TableInv'
  BY <1>1, <1>2, <1>4, <1>5, <1>6 DEF IInv, TableInv
<1>11. \A t : Fresh(t) => Fresh(t)' /\ t # n /\ t \in 1..Len(sst)
  BY <1>2, <1>4, <1>5, <1>6, <1>7 DEF Fresh
<1>12. FlusherInv'
  <2>1. RecordsOf(Held)' = RecordsOf(Held)
    BY <1>2, <1>5, <1>6 DEF RecordsOf
  <2>2. flusher.pc = "add" =>
          (Fresh(flusher.tab) /\ sst[flusher.tab].recs = mem[flusher.mem].recs)'
    BY <1>1, <1>6, <1>11 DEF IInv, FlusherInv
  <2> QED
    BY <1>1, <2>1, <2>2 DEF IInv, FlusherInv
<1>13. CompactorInv'
  <2>1. Fresh(n)'
    <3>1. n \in files' /\ n \notin Held' /\ n \notin compactor'.garbage
      BY <1>2, <1>4, <1>5, <1>7
    <3>2. ~sst'[n].old
      BY <1>6 DEF new
    <3> QED
      BY <3>1, <3>2 DEF Fresh
  <2>2. flusher.pc = "add" => flusher.tab # n
    BY <1>11 DEF IInv, FlusherInv
  <2> QED
    BY <1>1, <1>5, <2>1, <2>2 DEF CompactorInv
<1>14. Kept'
  BY <1>1, <1>2, <1>5, <1>6 DEF IInv, Kept
<1>15. DurableKept
  BY <1>2, <1>5, <1>6 DEF RecordsOf, DurableKept
<1> QED
  BY <1>8, <1>9, <1>10, <1>12, <1>13, <1>14, <1>15

\* A merge ends: its output holds the records of its inputs.
LEMMA MergeFinishStep ==
  ASSUME IInv, MergeFinish
  PROVE  Grounded' /\ MemInv' /\ TableInv' /\ FlusherInv' /\ CompactorInv'
         /\ FlushCallInv' /\ Kept' /\ DurableKept
<1> DEFINE s == Release(sst, compactor.inputs)
<1>0. PICK n : n = compactor.tab
  OBVIOUS
<1>1. UNCHANGED <<mem, immutables, active, writer, list, flusher, accepted>>
  BY DEF MergeFinish
<1>2. /\ sst \in Seq(SSTable) /\ Len(sst) \in Nat /\ files \subseteq 1..Len(sst)
      /\ Held \subseteq 1..Len(sst) /\ compactor.inputs \subseteq Held
  BY DEF IInv, TypeOK, TableType, CompactorType, Held
<1>3. /\ s \in Seq(SSTable) /\ Len(s) = Len(sst)
      /\ \A t \in 1..Len(sst) : s[t].recs = sst[t].recs /\ s[t].old = sst[t].old
  BY <1>2, ReleaseProperties
<1>4. Fresh(n) /\ n \in 1..Len(sst) /\ (flusher.pc = "add" => flusher.tab # n)
  BY <1>0, <1>2 DEF MergeFinish, IInv, CompactorInv, Fresh
<1>5. /\ compactor'.pc = "add" /\ compactor'.tab = n
      /\ compactor'.inputs = compactor.inputs /\ compactor'.garbage = compactor.garbage
      /\ Held' = Held
  BY <1>0, <1>1 DEF MergeFinish, IInv, TypeOK, CompactorType, Held
<1>6. sst' = [s EXCEPT ![n].recs = RecordsOf(compactor.inputs)]
  BY <1>0 DEF MergeFinish, Merged
<1> HIDE DEF s
<1>7. /\ Len(sst') = Len(sst)
      /\ sst'[n].recs = RecordsOf(compactor.inputs) /\ sst'[n].old = sst[n].old
      /\ \A t \in 1..Len(sst) : t # n => sst'[t].recs = sst[t].recs /\ sst'[t].old = sst[t].old
  <2>1. s \in [1..Len(sst) -> SSTable]
    BY <1>2, <1>3
  <2>2. sst' \in [1..Len(sst) -> {sst'[t] : t \in 1..Len(sst)}]
    BY <1>6, <2>1
  <2>3. Len(sst') = Len(sst)
    BY <1>2, <2>2, FunctionIsSeq
  <2>4. sst'[n] = [s[n] EXCEPT !.recs = RecordsOf(compactor.inputs)] /\ s[n] \in SSTable
    BY <1>4, <1>6, <2>1
  <2>5. \A t \in 1..Len(sst) : t # n => sst'[t] = s[t]
    BY <1>6, <2>1
  <2> QED
    BY <1>3, <1>4, <2>3, <2>4, <2>5 DEF SSTable
<1>8. \A t \in files : ~sst[t].old => t \in files'
  BY DEF MergeFinish, Removed
<1>9. MemInv' /\ FlushCallInv'
  BY <1>1 DEF IInv, MemInv, FlushCallInv, Flushing
<1>10. Grounded'
  <2>1. RecordsOf(compactor.inputs) \subseteq accepted
    BY <1>2 DEF RecordsOf, IInv, Grounded
  <2> QED
    BY <1>1, <1>7, <2>1 DEF IInv, Grounded
<1>11. \A t \in Held : t # n /\ t \in 1..Len(sst)
  BY <1>2, <1>4 DEF Fresh
<1>12. TableInv'
  BY <1>1, <1>5, <1>7, <1>8, <1>11 DEF IInv, TableInv
<1>13. \A t : Fresh(t) => Fresh(t)' /\ t \in 1..Len(sst)
  BY <1>2, <1>5, <1>7, <1>8 DEF Fresh
<1>14. RecordsOf(Held)' = RecordsOf(Held)
       /\ RecordsOf(compactor.inputs)' = RecordsOf(compactor.inputs)
  BY <1>2, <1>5, <1>7, <1>11 DEF RecordsOf
<1>15. FlusherInv'
  <2>1. flusher.pc = "add" =>
          (Fresh(flusher.tab) /\ sst[flusher.tab].recs = mem[flusher.mem].recs)'
    BY <1>1, <1>4, <1>7, <1>13 DEF IInv, FlusherInv
  <2> QED
    BY <1>1, <1>14, <2>1 DEF IInv, FlusherInv
<1>16. CompactorInv'
  BY <1>1, <1>4, <1>5, <1>7, <1>13, <1>14 DEF CompactorInv
<1>17. Kept'
  BY <1>1, <1>5, <1>7, <1>11 DEF IInv, Kept
<1> QED
  BY <1>9, <1>10, <1>12, <1>14, <1>15, <1>16, <1>17 DEF DurableKept

\* The output takes the place of the inputs.
LEMMA CompactAddStep ==
  ASSUME IInv, CompactAdd
  PROVE  Grounded' /\ MemInv' /\ TableInv' /\ FlusherInv' /\ CompactorInv'
         /\ FlushCallInv' /\ Kept' /\ DurableKept
<1>0. PICK n : n = compactor.tab
  OBVIOUS
<1>1. UNCHANGED <<mem, immutables, active, writer, sst, files, flusher, accepted>>
  BY DEF CompactAdd
<1>2. compactor \in CompactorSet(Len(sst))
  BY DEF IInv, TypeOK, CompactorType, CompactorSet
<1>3. /\ Fresh(n) /\ (flusher.pc = "add" => flusher.tab # n)
      /\ sst[n].recs = RecordsOf(compactor.inputs)
  BY <1>0 DEF CompactAdd, IInv, CompactorInv
<1>4. list' = list \cup {n}
  BY <1>0 DEF CompactAdd, AddTable
<1>5. /\ compactor'.inputs = {} /\ compactor'.garbage = compactor.garbage \cup compactor.inputs
      /\ compactor'.pc \in {"idle", "tier", "copy"}
  <2> DEFINE c == [compactor EXCEPT !.inputs = {}, !.tab = 0,
                                    !.garbage = @ \cup compactor.inputs]
  <2>1. compactor' = NextTier(c)
    BY DEF CompactAdd
  <2>2. c.inputs = {} /\ c.garbage = compactor.garbage \cup compactor.inputs
    BY <1>2 DEF CompactorSet
  <2>3. DOMAIN c = {"pc", "tier", "top", "inputs", "tab", "left", "garbage", "gen", "copy"}
    BY <1>2 DEF CompactorSet
  <2> HIDE DEF c
  <2> QED
    BY <2>1, <2>2, <2>3 DEF NextTier, NoCompaction
<1>6. Held' = list \cup {n}
  BY <1>4, <1>5 DEF Held
<1>7. Grounded' /\ MemInv' /\ FlushCallInv'
  BY <1>1 DEF IInv, Grounded, MemInv, FlushCallInv, Flushing
<1>8. TableInv'
  <2>1. \A t \in list \cup {n} : t \in files /\ ~sst[t].old
    BY <1>3 DEF IInv, TableInv, Fresh, Held
  <2>2. \A t \in compactor.garbage \cup compactor.inputs : t \notin list /\ t # n
    BY <1>3 DEF IInv, TableInv, Fresh, Held
  <2> QED
    BY <1>1, <1>5, <1>6, <2>1, <2>2 DEF TableInv
<1>9. RecordsOf(Held) \subseteq RecordsOf(Held)'
  BY <1>1, <1>3, <1>6 DEF RecordsOf, Held
<1>10. \A t : Fresh(t) /\ t # n => Fresh(t)'
  BY <1>1, <1>5, <1>6 DEF Fresh, Held
<1>11. FlusherInv'
  BY <1>1, <1>3, <1>9, <1>10 DEF IInv, FlusherInv
<1>12. CompactorInv'
  BY <1>5 DEF CompactorInv
<1>13. Kept'
  <2> SUFFICES ASSUME NEW r \in accepted, NEW t \in Held, r \in sst[t].recs
               PROVE  \E u \in Held' : r \in sst[u].recs
    BY <1>1 DEF IInv, Kept
  <2>1. CASE t \in list
    BY <1>6, <2>1
  <2>2. CASE t \in compactor.inputs
    BY <1>3, <1>6, <2>2 DEF RecordsOf
  <2> QED
    BY <2>1, <2>2 DEF Held
<1> QED
  BY <1>7, <1>8, <1>9, <1>11, <1>12, <1>13 DEF DurableKept

\* The merged tables are marked and released; none of them counts any more.
LEMMA CompactDeleteStep ==
  ASSUME IInv, CompactDelete
  PROVE  Grounded' /\ MemInv' /\ TableInv' /\ FlusherInv' /\ CompactorInv'
         /\ FlushCallInv' /\ Kept' /\ DurableKept
<1> DEFINE G == compactor.garbage
           s == Marked(G)
<1>1. UNCHANGED <<mem, immutables, active, writer, list, flusher, accepted>>
  BY DEF CompactDelete
<1>2. /\ files \subseteq 1..Len(sst) /\ Held \subseteq 1..Len(sst) /\ Len(sst) \in Nat
  BY DEF IInv, TypeOK, TableType, CompactorType, Held
<1>3. /\ s \in Seq(SSTable) /\ Len(s) = Len(sst)
      /\ \A t \in 1..Len(sst) : /\ s[t].recs = sst[t].recs
                                /\ t \notin G => s[t].old = sst[t].old
  BY MarkedProperties DEF IInv
<1>4. sst' = Release(s, G) /\ files' = files \ Removed(s, G)
  BY DEF CompactDelete, Marked
<1>5. /\ compactor'.pc = "idle" /\ compactor'.inputs = {} /\ compactor'.garbage = {}
      /\ compactor.inputs = {} /\ Held' = Held
  BY <1>1 DEF CompactDelete, NoCompaction, IInv, CompactorInv, Held
<1> HIDE DEF s
<1>6. /\ Len(sst') = Len(sst)
      /\ \A t \in 1..Len(sst) : /\ sst'[t].recs = sst[t].recs
                                /\ t \notin G => sst'[t].old = sst[t].old
  BY <1>3, <1>4, ReleaseProperties
<1>7. \A t \in files : t \notin G => t \in files'
  BY <1>4 DEF Removed
<1>8. MemInv' /\ FlushCallInv' /\ Grounded'
  BY <1>1, <1>6 DEF IInv, MemInv, FlushCallInv, Flushing, Grounded
<1>9. TableInv'
  BY <1>2, <1>5, <1>6, <1>7 DEF IInv, TableInv
<1>10. \A t : Fresh(t) => Fresh(t)' /\ t \in 1..Len(sst)
  BY <1>2, <1>5, <1>6, <1>7 DEF Fresh
<1>11. RecordsOf(Held)' = RecordsOf(Held)
  BY <1>2, <1>5, <1>6 DEF RecordsOf
<1>12. FlusherInv'
  <2>1. flusher.pc = "add" =>
          (Fresh(flusher.tab) /\ sst[flusher.tab].recs = mem[flusher.mem].recs)'
    BY <1>1, <1>6, <1>10 DEF IInv, FlusherInv
  <2> QED
    BY <1>1, <1>11, <2>1 DEF IInv, FlusherInv
<1>13. CompactorInv'
  BY <1>5 DEF CompactorInv
<1>14. Kept'
  BY <1>1, <1>2, <1>5, <1>6 DEF IInv, Kept
<1> QED
  BY <1>8, <1>9, <1>11, <1>12, <1>13, <1>14 DEF DurableKept

---------------------------------------------------------------------------
(* The invariant and the theorems.                                         *)

\* The engine starts empty.
LEMMA InitInv == Init => IInv
<1> SUFFICES ASSUME Init PROVE IInv
  OBVIOUS
<1> USE DEF Init
<1>1. mem = <<NewMemtable>> /\ Len(mem) = 1 /\ mem[1] = NewMemtable /\ mem \in Seq(Memtable)
  BY DEF NewMemtable, Memtable
<1>2. sst = <<>> /\ Len(sst) = 0 /\ sst \in Seq(SSTable)
  OBVIOUS
<1>3. Held = {} /\ ~Flushing
  BY DEF Held, NoCompaction, Flushing, Idle
<1>4. TypeOK
  <2>1. MemType /\ TableType /\ FlagType /\ HistoryType
    <3>1. MemType
      BY <1>1 DEF MemType
    <3>2. TableType
      BY <1>2 DEF TableType
    <3>3. FlagType
      BY DEF FlagType
    <3>4. HistoryType
      BY DEF HistoryType
    <3> QED
      BY <3>1, <3>2, <3>3, <3>4
  <2>2. WriterType
    BY DEF WriterType, Idle, WriterPC
  <2>3. FlusherType
    BY <1>1, <1>2 DEF FlusherType, NoJob, FlusherPC
  <2>4. CompactorType
    BY <1>2 DEF CompactorType, NoCompaction, CompactorPC
  <2>5. IterType
    BY <1>1, <1>2 DEF IterType, NoIterator
  <2> QED
    BY <2>1, <2>2, <2>3, <2>4, <2>5 DEF TypeOK
<1>5. Grounded
  <2>1. IsFiniteSet(accepted)
    BY FS_EmptySet
  <2> QED
    BY <1>1, <1>2, <2>1 DEF Grounded, NewMemtable
<1>6. MemInv /\ TableInv /\ FlushCallInv /\ Kept
  BY <1>1, <1>2, <1>3 DEF MemInv, TableInv, FlushCallInv, Kept, NoCompaction, Idle
<1>7. FlusherInv /\ CompactorInv
  BY DEF FlusherInv, CompactorInv, NoJob, NoCompaction
<1> QED
  BY <1>4, <1>5, <1>6, <1>7 DEF IInv

\* Every step keeps the invariant, and the records the tables hold.
LEMMA InvStep == IInv /\ [Next]_vars => IInv' /\ DurableKept
<1> SUFFICES ASSUME IInv, [Next]_vars PROVE IInv' /\ DurableKept
  OBVIOUS
<1> DEFINE Parts == Grounded' /\ MemInv' /\ TableInv' /\ FlusherInv' /\ CompactorInv'
                    /\ FlushCallInv' /\ Kept' /\ DurableKept
<1>1. CASE UNCHANGED vars
  <2>1. UNCHANGED <<mem, immutables, active, writer, sst, list, files, flusher, compactor,
                    accepted>>
    BY <1>1 DEF vars
  <2>2. TypeOK'
    BY <1>1 DEF vars, IInv, TypeOK, MemType, FlagType, TableType, WriterType, FlusherType,
                CompactorType, IterType, HistoryType
  <2>3. Grounded' /\ MemInv' /\ FlushCallInv' /\ Kept' /\ TableInv'
    BY <2>1 DEF IInv, Grounded, MemInv, FlushCallInv, Flushing, Kept, TableInv, Held
  <2>4. FlusherInv' /\ CompactorInv'
    BY <2>1 DEF IInv, FlusherInv, CompactorInv, Fresh, Held, RecordsOf
  <2>5. DurableKept
    BY <2>1 DEF DurableKept, RecordsOf, Held
  <2> QED
    BY <2>2, <2>3, <2>4, <2>5 DEF IInv
<1>2. CASE Step /\ Next
  <2>1. TypeOK'
    BY <1>2, TypeStep
  <2>2. ASSUME Calls \/ WriterStep \/ SpuriousWakeup PROVE Parts
    <3>1. ASSUME NEW k \in Keys \cup {ReservedKey},
                 InsertBlocked(k) \/ InsertPlace(k) \/ InsertRotate(k)
          PROVE  Parts
      BY <3>1, WriterQuiet, InsertPlaceStep, InsertRotateStep
    <3>2. CASE Calls
      BY <3>1, <3>2, FlushRegisterStep, WriterQuiet DEF Calls
    <3>3. writer.key \in Keys \cup {ReservedKey}
      BY DEF IInv, TypeOK, WriterType
    <3>4. CASE WriterStep
      BY <3>1, <3>3, <3>4, WriterQuiet, ReferencesStep DEF WriterStep
    <3> QED
      BY <2>2, <3>2, <3>4, WriterQuiet
  <2>3. ASSUME FlusherStep PROVE Parts
    BY <2>3, FlusherQuiet, FlushWriteStep, FlushAddStep, FlushUnregisterStep DEF FlusherStep
  <2>4. ASSUME CompactorStep PROVE Parts
    BY <2>4, CompactorQuiet, TierPopStep, MergeOpenStep, MergeFinishStep, CompactAddStep,
       CompactDeleteStep DEF CompactorStep
  <2>5. ASSUME \E r \in Readers : IteratorCreate(r) \/ IteratorClose(r) PROVE Parts
    BY <2>5, ReferencesStep
  <2>6. Parts
    BY <1>2, <2>2, <2>3, <2>4, <2>5 DEF Step
  <2> HIDE DEF Parts
  <2> QED
    BY <2>1, <2>6 DEF IInv, Parts
<1> QED
  BY <1>1, <1>2 DEF Next, Stopped

\* The invariant holds in every reachable state.
LEMMA Invariance == Spec => []IInv
BY InitInv, InvStep, PTL DEF Spec

\* The engine's variables keep their types: in particular every reference a
\* daemon, the metadata or an iterator holds is to a memtable or table that
\* was created.
THEOREM TypeCorrect == Spec => []TypeOK
<1>1. IInv => TypeOK
  BY DEF IInv
<1> QED
  BY <1>1, Invariance, PTL

\* No record that lsmt_insert accepted is ever lost, whatever the order in
\* which memtables are rotated and flushed and tables merged and deleted.
THEOREM RecordsAreKept == Spec => []NoRecordLost
<1>1. ASSUME IInv PROVE NoRecordLost
  <2>1. ASSUME NEW r \in accepted
        PROVE  \/ r \in UNION {mem[m].recs : m \in immutables \cup {Current}}
               \/ r \in RecordsOf(Held \cap files)
    BY <1>1 DEF IInv, Kept, TableInv, Current, RecordsOf
  <2> QED
    BY <2>1 DEF NoRecordLost
<1> QED
  BY <1>1, Invariance, PTL

\* When lsmt_flush finds the pool idle nothing is left in memory.
LEMMA FlushReturns ==
  ASSUME IInv, writer.pc = "flush_check", active = 0
  PROVE  accepted \subseteq RecordsOf(Held \cap files)
<1>1. immutables = {} /\ mem[Len(mem)].recs = {}
  BY DEF IInv, FlushCallInv, MemInv, Flushing
<1> QED
  BY <1>1 DEF IInv, Kept, TableInv, RecordsOf

\* Only lsmt_flush's own check ends its wait, and it does so when the pool is
\* idle.
LEMMA FlushReturnStep ==
  ASSUME IInv, Next, writer.pc = "flush_check", writer'.pc = "idle"
  PROVE  active = 0
<1>1. CASE FlushCheck
  BY <1>1 DEF FlushCheck, Idle, IInv, TypeOK, FlagType
<1>2. CASE ~FlushCheck
  <2>1. writer' = writer
    BY <1>2 DEF Next, Stopped, Step, Calls, WriterStep, FlusherStep, CompactorStep, vars,
       InsertBlocked, InsertPlace, InsertRotate, Inserting, FlushRegister, Free, InsertWait,
       InsertSignal, FlushPool, FlushSignal, FreeJoinFlush, FreeJoinCompact, SpuriousWakeup,
       FlushDaemonWake, FlushScan, FlushIdle, FlushWrite, FlushAdd, FlushPersist,
       FlushUnregister, FlushRelease, FlushNotifyCompaction, FlushNotifyPool, Woken,
       CompactionDaemonWake, CompactStart, TierFits, TierPop, MergeOpen, MergePollActive,
       MergePollCount, MergeWrite, MergeFinish, CompactAdd, CompactCopy, CompactPersist,
       CompactDelete, IteratorCreate, IteratorClose
  <2> QED
    BY <2>1
<1> QED
  BY <1>1, <1>2

\* lsmt_flush returns only when every record accepted so far is in a table.
THEOREM FlushIsComplete == Spec => FlushDrains
<1>1. ASSUME IInv, [Next]_vars
      PROVE  [ (writer.pc = "flush_check" /\ writer'.pc = "idle")
               => accepted \subseteq RecordsOf(Held) ]_vars
  <2> SUFFICES ASSUME Next, writer.pc = "flush_check", writer'.pc = "idle"
               PROVE  accepted \subseteq RecordsOf(Held)
    BY <1>1
  <2>1. accepted \subseteq RecordsOf(Held \cap files)
    BY <1>1, FlushReturns, FlushReturnStep
  <2> QED
    BY <2>1 DEF RecordsOf
<1> QED
  BY <1>1, Invariance, PTL DEF Spec, FlushDrains

---------------------------------------------------------------------------
(* Refinement.                                                             *)

\* The tables that count are on disk and hold accepted records only.
LEMMA DurableIsHeld ==
  ASSUME IInv
  PROVE  RecordsOf(Held \cap files) = RecordsOf(Held) /\ RecordsOf(Held) \subseteq accepted
<1>1. Held \cap files = Held /\ Held \subseteq 1..Len(sst)
  BY DEF IInv, TableInv, TypeOK, TableType, CompactorType, Held
<1> QED
  BY <1>1 DEF RecordsOf, IInv, Grounded

\* A step either accepts records outside lsmt_flush, or begins or ends a call of
\* lsmt_flush, or does neither.
LEMMA StepKinds ==
  ASSUME IInv, Next
  PROVE  \/ /\ ~Flushing /\ ~Flushing' /\ UNCHANGED <<sst, list, files, compactor>>
            /\ \/ accepted' = accepted
               \/ \E r : r \notin accepted /\ accepted' = accepted \cup {r}
         \/ /\ ~Flushing /\ Flushing' /\ UNCHANGED <<sst, list, files, compactor, accepted>>
         \/ /\ Flushing /\ ~Flushing' /\ UNCHANGED <<sst, list, files, compactor, accepted>>
            /\ writer.pc = "flush_check" /\ writer'.pc = "idle"
         \/ Flushing' = Flushing /\ accepted' = accepted
<1> USE DEF Flushing
<1>1. ASSUME NEW k, InsertPlace(k) \/ InsertRotate(k)
      PROVE  /\ ~Flushing /\ ~Flushing' /\ UNCHANGED <<sst, list, files, compactor>>
             /\ \/ accepted' = accepted
                \/ \E r : r \notin accepted /\ accepted' = accepted \cup {r}
  <2>1. /\ writer.pc \in {"idle", "retry"} /\ writer'.pc \in {"idle", "signal"}
        /\ UNCHANGED <<sst, list, files, compactor>>
    BY <1>1 DEF InsertPlace, InsertRotate, Inserting, Idle
  <2>2. accepted' = accepted \/ accepted' = accepted \cup {<<k, inserted + 1>>}
    BY <1>1 DEF InsertPlace, InsertRotate, Accept
  <2>3. accepted' = accepted \/ (\E r : r \notin accepted /\ accepted' = accepted \cup {r})
    <3>1. CASE <<k, inserted + 1>> \in accepted
      BY <2>2, <3>1
    <3>2. CASE <<k, inserted + 1>> \notin accepted
      BY <2>2, <3>2
    <3> QED
      BY <3>1, <3>2
  <2> QED
    BY <2>1, <2>3
<1>2. ASSUME FlushRegister
      PROVE  /\ ~Flushing /\ UNCHANGED <<sst, list, files, compactor, accepted>>
  BY <1>2 DEF FlushRegister
<1>3. ASSUME FlushCheck
      PROVE  /\ UNCHANGED <<sst, list, files, compactor, accepted>>
             /\ writer.pc = "flush_check" /\ writer'.pc \in {"idle", "flush_wait"}
  BY <1>3 DEF FlushCheck, Idle
<1>4. ASSUME \/ \E k : InsertBlocked(k)
             \/ Free \/ InsertWait \/ InsertSignal \/ FlushPool \/ FlushSignal
             \/ FreeJoinFlush \/ FreeJoinCompact \/ SpuriousWakeup
      PROVE  Flushing' = Flushing /\ accepted' = accepted
  BY <1>4 DEF InsertBlocked, Inserting, Free, InsertWait, InsertSignal, FlushPool, FlushSignal,
     FreeJoinFlush, FreeJoinCompact, SpuriousWakeup, Woken, Idle, IInv, TypeOK, WriterType
<1>5. ASSUME FlusherStep \/ CompactorStep \/ (\E r \in Readers : IteratorCreate(r) \/ IteratorClose(r))
      PROVE  Flushing' = Flushing /\ accepted' = accepted
  <2>1. accepted' = accepted /\ (writer' = writer \/ writer' = Woken(writer))
    BY <1>5 DEF FlusherStep, CompactorStep,
       FlushDaemonWake, FlushScan, FlushIdle, FlushWrite, FlushAdd, FlushPersist,
       FlushUnregister, FlushRelease, FlushNotifyCompaction, FlushNotifyPool,
       CompactionDaemonWake, CompactStart, TierFits, TierPop, MergeOpen, MergePollActive,
       MergePollCount, MergeWrite, MergeFinish, CompactAdd, CompactCopy, CompactPersist,
       CompactDelete, IteratorCreate, IteratorClose
  <2> QED
    BY <2>1 DEF Woken, IInv, TypeOK, WriterType
<1>6. ASSUME Stopped PROVE Flushing' = Flushing /\ accepted' = accepted
  BY <1>6 DEF Stopped, vars
<1>7. CASE \E k : InsertPlace(k) \/ InsertRotate(k)
  BY <1>1, <1>7
<1>8. CASE FlushRegister
  BY <1>2, <1>8
<1>9. CASE FlushCheck
  BY <1>3, <1>9
<1> QED
  BY <1>4, <1>5, <1>6, <1>7, <1>8, <1>9 DEF Next, Step, Calls, WriterStep

\* The engine implements RecordStore: it keeps what it accepted, moves records
\* to disk and never back, and lsmt_flush returns only when everything accepted
\* before the call is on disk.
THEOREM EngineImplementsRecordStore == Spec => ImplementsRecordStore
<1> DEFINE D == RecordsOf(Held \cap files)
           F == IF Flushing THEN accepted ELSE {}
<1>1. Init => Store!Init
  BY DEF Init, Store!Init, RecordsOf, Held, NoCompaction, Flushing, Idle
<1>2. ASSUME IInv, IInv', [Next]_vars, DurableKept
      PROVE  [Store!Next]_(Store!vars)
  <2>1. CASE UNCHANGED vars
    BY <2>1 DEF vars, Store!vars, RecordsOf, Held, Flushing
  <2>2. CASE Next
    <3>1. D \subseteq D' /\ D' \subseteq accepted'
      <4>1. D = RecordsOf(Held)
        BY <1>2, DurableIsHeld
      <4>2. (RecordsOf(Held \cap files) = RecordsOf(Held) /\ RecordsOf(Held) \subseteq accepted)'
        <5>1. (Held \cap files)' = Held' /\ Held' \subseteq 1..Len(sst')
          BY <1>2 DEF IInv, TableInv, TypeOK, TableType, CompactorType, Held
        <5> QED
          BY <1>2, <5>1 DEF RecordsOf, IInv, Grounded
      <4> QED
        BY <1>2, <4>1, <4>2 DEF DurableKept
    <3>2. UNCHANGED <<sst, list, files, compactor>> => D' = D
      BY DEF RecordsOf, Held
    <3>3. (writer.pc = "flush_check" /\ writer'.pc = "idle") => accepted \subseteq D
      BY <1>2, <2>2, FlushReturns, FlushReturnStep
    <3>4. CASE /\ ~Flushing /\ ~Flushing' /\ UNCHANGED <<sst, list, files, compactor>>
               /\ \/ accepted' = accepted
                  \/ \E r : r \notin accepted /\ accepted' = accepted \cup {r}
      <4>1. F = {} /\ F' = {} /\ D' = D
        BY <3>2, <3>4
      <4>2. CASE accepted' = accepted
        BY <4>1, <4>2 DEF Store!vars
      <4>3. CASE \E r : r \notin accepted /\ accepted' = accepted \cup {r}
        BY <4>1, <4>3 DEF Store!Next, Store!Put
      <4> QED
        BY <3>4, <4>2, <4>3
    <3>5. CASE ~Flushing /\ Flushing' /\ UNCHANGED <<sst, list, files, compactor, accepted>>
      <4>1. F = {} /\ F' = accepted /\ D' = D /\ accepted' = accepted
        BY <3>2, <3>5
      <4> QED
        BY <4>1 DEF Store!Next, Store!FlushCall
    <3>6. CASE /\ Flushing /\ ~Flushing' /\ UNCHANGED <<sst, list, files, compactor, accepted>>
               /\ writer.pc = "flush_check" /\ writer'.pc = "idle"
      <4>1. F = accepted /\ F' = {} /\ D' = D /\ accepted' = accepted /\ accepted \subseteq D
        BY <3>2, <3>3, <3>6
      <4> QED
        BY <4>1 DEF Store!Next, Store!FlushReturn
    <3>7. CASE Flushing' = Flushing /\ accepted' = accepted
      <4>1. F' = F /\ accepted' = accepted
        BY <3>7
      <4> QED
        BY <3>1, <4>1 DEF Store!Next, Store!Harden
    <3> QED
      BY <1>2, <2>2, <3>4, <3>5, <3>6, <3>7, StepKinds
  <2> QED
    BY <1>2, <2>1, <2>2
<1>3. IInv /\ [Next]_vars => DurableKept
  BY InvStep
<1> QED
  BY <1>1, <1>2, <1>3, Invariance, PTL DEF Spec, ImplementsRecordStore, Store!Spec
====
