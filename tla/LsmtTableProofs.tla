-------------------------- MODULE LsmtTableProofs --------------------------
(***************************************************************************)
(* More proofs about the storage engine, each from a further invariant     *)
(* that is inductive together with IInv of LsmtProofs: no record is in two *)
(* tables, the metadata file names what it should, an iterator misses      *)
(* nothing but records in transit, references are counted exactly so that  *)
(* nothing in use is freed and no file is kept for ever, and a tier over   *)
(* its limit can always be merged.                                         *)
(***************************************************************************)
EXTENDS LsmtProofs

USE DEF memVars, poolVars, flagVars, tableVars, metaVars, storage, history,
        daemonsAndReaders, notFlusher, notCompactor, notReader

---------------------------------------------------------------------------
(* What the steps do to the tables and memtables.                          *)

\* The numbers that name memtables and tables.
LEMMA Ranges ==
  ASSUME IInv
  PROVE  /\ Len(mem) \in Nat /\ Len(mem) \in 1..Len(mem) /\ Len(sst) \in Nat
         /\ immutables \subseteq 1..Len(mem) /\ Len(mem) \notin immutables
         /\ Held \subseteq 1..Len(sst) /\ list \subseteq 1..Len(sst)
         /\ compactor.inputs \subseteq 1..Len(sst) /\ compactor.garbage \subseteq 1..Len(sst)
         /\ files \subseteq 1..Len(sst) /\ disk \subseteq 1..Len(sst)
<1>1. Len(mem) \in Nat /\ Len(mem) # 0 /\ Len(sst) \in Nat
  BY DEF IInv, TypeOK, MemType, TableType
<1>2. Len(mem) \in 1..Len(mem)
  BY <1>1
<1>3. immutables \subseteq 1..Len(mem) /\ Len(mem) \notin immutables
  BY DEF IInv, TypeOK, MemType, MemInv
<1>4. /\ list \subseteq 1..Len(sst) /\ files \subseteq 1..Len(sst) /\ disk \subseteq 1..Len(sst)
      /\ compactor.inputs \subseteq 1..Len(sst) /\ compactor.garbage \subseteq 1..Len(sst)
  BY DEF IInv, TypeOK, TableType, CompactorType
<1> QED
  BY <1>1, <1>2, <1>3, <1>4 DEF Held

One(b) == IF b THEN 1 ELSE 0

\* Every table keeps its records and its mark; those in T gain d references.
Counted(T, d) ==
  /\ Len(sst') = Len(sst)
  /\ \A t \in 1..Len(sst) :
       /\ sst'[t].recs = sst[t].recs /\ sst'[t].old = sst[t].old
       /\ sst'[t].ref = sst[t].ref + d * One(t \in T)

\* Retaining and releasing change the count by one.
LEMMA RetainRelease ==
  ASSUME TypeOK, NEW T
  PROVE  /\ sst' = sst => Counted(T, 0)
         /\ sst' = Retain(sst, T) => Counted(T, 1)
         /\ sst' = Release(sst, T) => Counted(T, -1)
<1>1. /\ sst \in [1..Len(sst) -> SSTable] /\ Len(sst) \in Nat /\ DOMAIN sst = 1..Len(sst)
      /\ sst \in Seq(SSTable)
  BY DEF TypeOK, TableType
<1>2. \A t \in 1..Len(sst) : sst[t] \in SSTable /\ sst[t].ref \in Int
  BY <1>1 DEF SSTable
<1>3. ASSUME sst' = sst PROVE Counted(T, 0)
  BY <1>2, <1>3 DEF Counted, One
<1>4. ASSUME sst' = Retain(sst, T) PROVE Counted(T, 1)
  <2>1. Len(sst') = Len(sst)
    BY <1>1, <1>4, RetainProperties
  <2>2. ASSUME NEW t \in 1..Len(sst)
        PROVE  /\ sst'[t].recs = sst[t].recs /\ sst'[t].old = sst[t].old
               /\ sst'[t].ref = sst[t].ref + 1 * One(t \in T)
    <3>1. sst'[t] = IF t \in T THEN [sst[t] EXCEPT !.ref = @ + 1] ELSE sst[t]
      BY <1>1, <1>4 DEF Retain
    <3> QED
      BY <1>2, <3>1 DEF SSTable, One
  <2> QED
    BY <2>1, <2>2 DEF Counted
<1>5. ASSUME sst' = Release(sst, T) PROVE Counted(T, -1)
  <2>1. Len(sst') = Len(sst)
    BY <1>1, <1>5, ReleaseProperties
  <2>2. ASSUME NEW t \in 1..Len(sst)
        PROVE  /\ sst'[t].recs = sst[t].recs /\ sst'[t].old = sst[t].old
               /\ sst'[t].ref = sst[t].ref + (-1) * One(t \in T)
    <3>1. sst'[t] = IF t \in T THEN [sst[t] EXCEPT !.ref = @ - 1] ELSE sst[t]
      BY <1>1, <1>5 DEF Release
    <3> QED
      BY <1>2, <3>1 DEF SSTable, One
  <2> QED
    BY <2>1, <2>2 DEF Counted
<1> QED
  BY <1>3, <1>4, <1>5

\* A new table is created, with one reference; those in T gain one.
Created(T) ==
  /\ Len(sst') = Len(sst) + 1
  /\ \A t \in 1..Len(sst) :
       /\ sst'[t].recs = sst[t].recs /\ sst'[t].old = sst[t].old
       /\ sst'[t].ref = sst[t].ref + One(t \in T)
  /\ sst'[Len(sst) + 1].ref = 1 /\ ~sst'[Len(sst) + 1].old
  /\ files' = files \cup {Len(sst) + 1}

\* The flush daemon and a merge create tables.
LEMMA CreateTable ==
  ASSUME IInv
  PROVE  /\ FlushWrite /\ mem[flusher.mem].recs # {} => Created({})
         /\ MergeOpen => Created(compactor.inputs)
<1>1. /\ sst \in [1..Len(sst) -> SSTable] /\ Len(sst) \in Nat /\ DOMAIN sst = 1..Len(sst)
      /\ sst \in Seq(SSTable)
  BY DEF IInv, TypeOK, TableType
<1>2. \A t \in 1..Len(sst) : sst[t] \in SSTable /\ sst[t].ref \in Int
  BY <1>1 DEF SSTable
<1>3. ASSUME FlushWrite, mem[flusher.mem].recs # {} PROVE Created({})
  <2> DEFINE new == [recs |-> mem[flusher.mem].recs, level |-> 0, ref |-> 1, old |-> FALSE]
  <2>1. sst' = Append(sst, new) /\ files' = files \cup {Len(sst) + 1}
    BY <1>3 DEF FlushWrite
  <2>2. new.ref = 1 /\ ~new.old
    OBVIOUS
  <2> HIDE DEF new
  <2>3. Len(sst') = Len(sst) + 1 /\ sst'[Len(sst) + 1] = new /\ \A t \in 1..Len(sst) : sst'[t] = sst[t]
    BY <1>1, <2>1
  <2> QED
    BY <1>2, <2>1, <2>2, <2>3 DEF Created, One
<1>4. ASSUME MergeOpen PROVE Created(compactor.inputs)
  <2> DEFINE new == [recs |-> {}, level |-> compactor.tier + 1, ref |-> 1, old |-> FALSE]
             s   == Retain(sst, compactor.inputs)
  <2>1. sst' = Append(s, new) /\ files' = files \cup {Len(sst) + 1}
    BY <1>4 DEF MergeOpen
  <2>2. new.ref = 1 /\ ~new.old
    OBVIOUS
  <2>3. s \in Seq(SSTable) /\ Len(s) = Len(sst)
    BY <1>1, RetainProperties
  <2>4. \A t \in 1..Len(sst) :
          s[t] = IF t \in compactor.inputs THEN [sst[t] EXCEPT !.ref = @ + 1] ELSE sst[t]
    BY <1>1 DEF Retain
  <2> HIDE DEF new, s
  <2>5. ASSUME NEW t \in 1..Len(sst)
        PROVE  /\ s[t].recs = sst[t].recs /\ s[t].old = sst[t].old
               /\ s[t].ref = sst[t].ref + One(t \in compactor.inputs)
    <3>1. s[t] = IF t \in compactor.inputs THEN [sst[t] EXCEPT !.ref = @ + 1] ELSE sst[t]
      BY <2>4
    <3> QED
      BY <1>2, <3>1 DEF SSTable, One
  <2>6. Len(sst') = Len(sst) + 1 /\ sst'[Len(sst) + 1] = new /\ \A t \in 1..Len(sst) : sst'[t] = s[t]
    BY <1>1, <2>1, <2>3
  <2> QED
    BY <2>1, <2>2, <2>5, <2>6 DEF Created
<1> QED
  BY <1>3, <1>4

\* A finished merge releases its inputs and fills its output.
LEMMA MergeFinishTables ==
  ASSUME IInv, MergeFinish
  PROVE  /\ Len(sst') = Len(sst)
         /\ compactor.tab \in 1..Len(sst) /\ Fresh(compactor.tab)
         /\ \A t \in 1..Len(sst) :
              /\ t # compactor.tab => sst'[t].recs = sst[t].recs
              /\ sst'[t].old = sst[t].old
              /\ sst'[t].ref = sst[t].ref + (-1) * One(t \in compactor.inputs)
<1> DEFINE s == Release(sst, compactor.inputs)
<1>1. /\ sst \in [1..Len(sst) -> SSTable] /\ Len(sst) \in Nat /\ DOMAIN sst = 1..Len(sst)
      /\ sst \in Seq(SSTable) /\ files \subseteq 1..Len(sst)
  BY DEF IInv, TypeOK, TableType
<1>2. \A t \in 1..Len(sst) : sst[t] \in SSTable /\ sst[t].ref \in Int
  BY <1>1 DEF SSTable
<1>3. compactor.tab \in 1..Len(sst) /\ Fresh(compactor.tab)
  BY <1>1 DEF MergeFinish, IInv, CompactorInv, Fresh
<1>4. s \in [1..Len(sst) -> SSTable] /\ Len(s) = Len(sst)
  BY <1>1, ReleaseProperties
<1>5. \A t \in 1..Len(sst) :
        s[t] = IF t \in compactor.inputs THEN [sst[t] EXCEPT !.ref = @ - 1] ELSE sst[t]
  BY <1>1 DEF Release
<1> HIDE DEF s
<1>6. ASSUME NEW t \in 1..Len(sst)
      PROVE  /\ s[t].recs = sst[t].recs /\ s[t].old = sst[t].old
             /\ s[t].ref = sst[t].ref + (-1) * One(t \in compactor.inputs)
  <2>1. s[t] = IF t \in compactor.inputs THEN [sst[t] EXCEPT !.ref = @ - 1] ELSE sst[t]
    BY <1>5
  <2> QED
    BY <1>2, <2>1 DEF SSTable, One
<1>7. sst' = [s EXCEPT ![compactor.tab].recs = RecordsOf(compactor.inputs)]
  BY DEF MergeFinish, Merged, s
<1>8. sst' \in [1..Len(sst) -> {sst'[t] : t \in 1..Len(sst)}]
  BY <1>4, <1>7
<1>9. Len(sst') = Len(sst)
  BY <1>1, <1>8, FunctionIsSeq
<1>10. \A t \in 1..Len(sst) : t # compactor.tab => sst'[t] = s[t]
  BY <1>4, <1>7
<1>11. sst'[compactor.tab].old = s[compactor.tab].old /\ sst'[compactor.tab].ref = s[compactor.tab].ref
  BY <1>3, <1>4, <1>7 DEF SSTable
<1> QED
  BY <1>3, <1>6, <1>9, <1>10, <1>11

\* The tables to be deleted are marked and released.
LEMMA CompactDeleteTables ==
  ASSUME IInv, CompactDelete
  PROVE  /\ Len(sst') = Len(sst)
         /\ \A t \in 1..Len(sst) :
              /\ sst'[t].recs = sst[t].recs
              /\ sst'[t].old = (sst[t].old \/ t \in compactor.garbage)
              /\ sst'[t].ref = sst[t].ref + (-1) * One(t \in compactor.garbage)
         /\ files' = files \ {t \in compactor.garbage : sst[t].ref = 1}
<1> DEFINE G == compactor.garbage
           s == Marked(G)
<1>1. /\ sst \in [1..Len(sst) -> SSTable] /\ Len(sst) \in Nat /\ DOMAIN sst = 1..Len(sst)
      /\ G \subseteq 1..Len(sst)
  BY DEF IInv, TypeOK, TableType, CompactorType
<1>2. \A t \in 1..Len(sst) : sst[t] \in SSTable /\ sst[t].ref \in Int /\ sst[t].old \in BOOLEAN
  BY <1>1 DEF SSTable
<1>3. s \in Seq(SSTable) /\ Len(s) = Len(sst)
  BY MarkedProperties DEF IInv
<1>4. \A t \in 1..Len(sst) : s[t] = IF t \in G THEN [sst[t] EXCEPT !.old = TRUE] ELSE sst[t]
  BY <1>1 DEF Marked
<1>5. \A t \in 1..Len(sst) : /\ s[t].recs = sst[t].recs /\ s[t].ref = sst[t].ref
                             /\ s[t].old = (sst[t].old \/ t \in G)
  BY <1>2, <1>4 DEF SSTable
<1>6. sst' = Release(s, G) /\ files' = files \ Removed(s, G)
  BY DEF CompactDelete, Marked
<1>7. \A t \in 1..Len(sst) : s[t] \in SSTable
  BY <1>3
<1> HIDE DEF s
<1>8. DOMAIN s = 1..Len(sst)
  BY <1>3
<1>9. \A t \in 1..Len(sst) : sst'[t] = IF t \in G THEN [s[t] EXCEPT !.ref = @ - 1] ELSE s[t]
  BY <1>6, <1>8 DEF Release
<1>10. Len(sst') = Len(sst)
  BY <1>3, <1>6, ReleaseProperties
<1>11. ASSUME NEW t \in 1..Len(sst)
       PROVE  /\ sst'[t].recs = s[t].recs /\ sst'[t].old = s[t].old
              /\ sst'[t].ref = s[t].ref + (-1) * One(t \in G)
  <2>1. sst'[t] = IF t \in G THEN [s[t] EXCEPT !.ref = @ - 1] ELSE s[t]
    BY <1>9
  <2>2. s[t] \in SSTable /\ s[t].ref \in Int
    BY <1>2, <1>5, <1>7
  <2> QED
    BY <2>1, <2>2 DEF SSTable, One
<1>12. Removed(s, G) = {t \in G : sst[t].ref = 1}
  BY <1>1, <1>5 DEF Removed
<1> QED
  BY <1>5, <1>6, <1>10, <1>11, <1>12

\* Every memtable keeps its records; m, if there is such a memtable, gains d
\* references.
MemCounted(m, d) ==
  /\ MemsKept
  /\ \A n \in 1..Len(mem) : mem'[n].ref = mem[n].ref + d * One(n = m)

\* Opening and closing an iterator, and the end of a flush, move one reference.
LEMMA MemReference ==
  ASSUME TypeOK, NEW m \in 0..Len(mem)
  PROVE  /\ mem' = mem => MemCounted(m, 0)
         /\ mem' = (IF m = 0 THEN mem ELSE [mem EXCEPT ![m].ref = @ + 1]) => MemCounted(m, 1)
         /\ mem' = (IF m = 0 THEN mem ELSE [mem EXCEPT ![m].ref = @ - 1]) => MemCounted(m, -1)
<1>1. mem \in [1..Len(mem) -> Memtable] /\ Len(mem) \in Nat
  BY DEF TypeOK, MemType
<1>2. \A n \in 1..Len(mem) : mem[n] \in Memtable /\ mem[n].ref \in Int
  BY <1>1 DEF Memtable
<1>3. ASSUME mem' = mem PROVE MemCounted(m, 0) /\ (m = 0 => MemCounted(m, 1) /\ MemCounted(m, -1))
  BY <1>2, <1>3 DEF MemCounted, MemsKept, One
<1>4. ASSUME m # 0, mem' = [mem EXCEPT ![m].ref = @ + 1] PROVE MemCounted(m, 1)
  <2>1. m \in 1..Len(mem)
    BY <1>1, <1>4
  <2>2. Len(mem') = Len(mem)
    BY <1>4, <2>1, MemRefType
  <2>3. ASSUME NEW n \in 1..Len(mem)
        PROVE  mem'[n].recs = mem[n].recs /\ mem'[n].ref = mem[n].ref + 1 * One(n = m)
    <3>1. mem'[n] = IF n = m THEN [mem[n] EXCEPT !.ref = @ + 1] ELSE mem[n]
      BY <1>1, <1>4, <2>1
    <3> QED
      BY <1>2, <3>1 DEF Memtable, One
  <2> QED
    BY <2>2, <2>3 DEF MemCounted, MemsKept
<1>5. ASSUME m # 0, mem' = [mem EXCEPT ![m].ref = @ - 1] PROVE MemCounted(m, -1)
  <2>1. m \in 1..Len(mem)
    BY <1>1, <1>5
  <2>2. Len(mem') = Len(mem)
    BY <1>5, <2>1, MemRefType
  <2>3. ASSUME NEW n \in 1..Len(mem)
        PROVE  mem'[n].recs = mem[n].recs /\ mem'[n].ref = mem[n].ref + (-1) * One(n = m)
    <3>1. mem'[n] = IF n = m THEN [mem[n] EXCEPT !.ref = @ - 1] ELSE mem[n]
      BY <1>1, <1>5, <2>1
    <3> QED
      BY <1>2, <3>1 DEF Memtable, One
  <2> QED
    BY <2>2, <2>3 DEF MemCounted, MemsKept
<1> QED
  BY <1>3, <1>4, <1>5

---------------------------------------------------------------------------
(* No record is in two tables.                                             *)

\* No memtable has a record of another, and each record bears the number of an
\* insertion that has happened, so that the next one is new.
MemtablesApart ==
  /\ \A r \in accepted : r[2] <= inserted
  /\ \A m, n \in 1..Len(mem) : m # n => mem[m].recs \cap mem[n].recs = {}

\* The memtable whose table the flush daemon has listed, until it unregisters
\* it: for that time its records are in both.
Listed(m) == flusher.pc \in {"persist", "unregister"} /\ m = flusher.mem

\* No table that counts has a record of another such table, or of a registered
\* memtable that was not flushed.
TablesApart ==
  /\ NoRecordTwice
  /\ \A m \in immutables \cup {Len(mem)}, t \in Held :
       ~Listed(m) => mem[m].recs \cap sst[t].recs = {}

ApartInv == MemtablesApart /\ TablesApart

\* A step that adds no record and puts none in a table that counts keeps them
\* apart.
LEMMA ApartKept ==
  ASSUME IInv, ApartInv, MemsKept,
         \A t \in Held' : t \in Held /\ sst'[t].recs = sst[t].recs,
         immutables' \subseteq immutables, accepted' = accepted, inserted' = inserted,
         \A m \in immutables' \cup {Len(mem)} : Listed(m) => Listed(m)'
  PROVE  ApartInv'
<1>1. immutables \cup {Len(mem)} \subseteq 1..Len(mem)
  BY Ranges
<1>2. MemtablesApart'
  <2>1. \A r \in accepted' : r[2] <= inserted'
    BY DEF ApartInv, MemtablesApart
  <2>2. ASSUME NEW m \in 1..Len(mem'), NEW n \in 1..Len(mem'), m # n
        PROVE  mem'[m].recs \cap mem'[n].recs = {}
    <3>1. m \in 1..Len(mem) /\ n \in 1..Len(mem)
      BY DEF MemsKept
    <3>2. mem'[m].recs = mem[m].recs /\ mem'[n].recs = mem[n].recs
      BY <3>1 DEF MemsKept
    <3> QED
      BY <2>2, <3>1, <3>2 DEF ApartInv, MemtablesApart
  <2> QED
    BY <2>1, <2>2 DEF MemtablesApart
<1>3. NoRecordTwice'
  BY DEF ApartInv, TablesApart, NoRecordTwice
<1>4. ASSUME NEW m \in immutables' \cup {Len(mem')}, NEW t \in Held', ~Listed(m)'
      PROVE  mem'[m].recs \cap sst'[t].recs = {}
  <2>1. m \in immutables \cup {Len(mem)} /\ m \in immutables' \cup {Len(mem)}
    BY <1>4 DEF MemsKept
  <2>2. mem'[m].recs = mem[m].recs /\ sst'[t].recs = sst[t].recs /\ t \in Held /\ ~Listed(m)
    BY <1>1, <1>4, <2>1 DEF MemsKept
  <2> QED
    BY <2>1, <2>2 DEF ApartInv, TablesApart
<1> QED
  BY <1>2, <1>3, <1>4 DEF ApartInv, TablesApart

\* Popping tables from a tier moves them from the list to the merge.
LEMMA TierPopHeld ==
  ASSUME IInv, TierPop
  PROVE  /\ Held' = Held /\ compactor.inputs = {} /\ compactor'.garbage = compactor.garbage
         /\ list' \subseteq list /\ compactor'.inputs = list \ list'
         /\ compactor'.pc \in {"abort", "merge"}
<1>1. compactor \in CompactorSet(Len(sst)) /\ compactor.pc = "tier" /\ compactor.inputs = {}
  BY DEF TierPop, IInv, CompactorInv, TypeOK, CompactorType, CompactorSet
<1>2. PICK O \in SUBSET list :
        /\ list' = list \ O
        /\ \E pc \in {"abort", "merge"} : compactor' = [compactor EXCEPT !.pc = pc, !.inputs = O]
  <2> DEFINE T == TierTables(compactor.tier)
             N == PopCount(T, SumSizes(T) - Threshold[compactor.tier])
  <2>1. Oldest(T, N) \in SUBSET list
    BY DEF Oldest, TierTables
  <2>2. /\ list' = list \ Oldest(T, N)
        /\ compactor' = [compactor EXCEPT !.pc = IF N < 2 THEN "abort" ELSE "merge",
                                          !.inputs = Oldest(T, N)]
    BY DEF TierPop
  <2> HIDE DEF T, N
  <2> QED
    BY <2>1, <2>2
<1>3. /\ compactor'.inputs = O /\ compactor'.garbage = compactor.garbage
      /\ compactor'.pc \in {"abort", "merge"}
  BY <1>1, <1>2 DEF CompactorSet
<1> QED
  BY <1>1, <1>2, <1>3 DEF Held

\* The loop over the tiers goes on, or ends with something to delete, or ends
\* with nothing done.
LEMMA NextTierFields ==
  ASSUME IInv, NEW c \in CompactorSet(Len(sst))
  PROVE  /\ NextTier(c).pc \in {"tier", "copy", "idle"}
         /\ NextTier(c).pc = "copy" => c.garbage # {}
         /\ NextTier(c).inputs = (IF NextTier(c).pc = "idle" THEN {} ELSE c.inputs)
         /\ NextTier(c).garbage = c.garbage
         /\ NextTier(c).pc = "idle" => c.garbage = {}
<1>1. CASE c.tier < c.top
  BY <1>1 DEF NextTier, CompactorSet
<1>2. CASE ~(c.tier < c.top) /\ c.garbage # {}
  BY <1>2 DEF NextTier, CompactorSet
<1>3. CASE ~(c.tier < c.top) /\ c.garbage = {}
  BY <1>3 DEF NextTier, NoCompaction
<1> QED
  BY <1>1, <1>2, <1>3

\* The steps that add no record and list no table.
LEMMA ApartQuiet ==
  ASSUME IInv, ApartInv, Next,
         \A k \in Keys \cup {ReservedKey} : ~InsertPlace(k) /\ ~InsertRotate(k),
         ~FlushRegister, ~FlushAdd, ~CompactAdd
  PROVE  ApartInv'
<1>1. CASE UNCHANGED vars \/ Calls \/ WriterStep \/ SpuriousWakeup
  <2>1. writer.key \in Keys \cup {ReservedKey}
    BY DEF IInv, TypeOK, WriterType
  <2>2. UNCHANGED <<mem, immutables, list, flusher, compactor, accepted, inserted>>
    BY <1>1, <2>1 DEF Calls, WriterStep, InsertBlocked, InsertWait, InsertSignal, FlushPool,
       FlushSignal, FlushCheck, SpuriousWakeup, Free, FreeJoinFlush, FreeJoinCompact, vars
  <2>3. sst' = sst \/ FreeJoinCompact
    BY <1>1, <2>1 DEF Calls, WriterStep, InsertBlocked, InsertWait, InsertSignal, FlushPool,
       FlushSignal, FlushCheck, SpuriousWakeup, Free, FreeJoinFlush, vars
  <2>4. \A t \in 1..Len(sst) : sst'[t].recs = sst[t].recs
    BY <2>3, RetainRelease DEF FreeJoinCompact, Counted, IInv
  <2> QED
    BY <2>2, <2>4, Ranges, ApartKept DEF MemsKept, Held, Listed
<1>2. CASE FlusherStep
  <2> USE DEF FlushDaemonWake, FlushScan, FlushIdle, FlushWrite, FlushPersist, FlushUnregister,
              FlushRelease, FlushNotifyCompaction, FlushNotifyPool
  <2>1. UNCHANGED <<list, compactor, accepted, inserted>>
    BY <1>2 DEF FlusherStep
  <2>2. MemsKept
    <3>1. CASE FlushRelease
      <4>1. flusher.mem \in 0..Len(mem) /\ flusher.mem # 0
        <5>1. flusher.mem \in 1..Len(mem) /\ Len(mem) \in Nat
          BY <3>1, Ranges DEF IInv, FlusherInv
        <5> QED
          BY <5>1
      <4>2. MemCounted(flusher.mem, -1)
        BY <3>1, <4>1, MemReference DEF IInv
      <4> QED
        BY <4>2 DEF MemCounted
    <3>2. CASE ~FlushRelease
      BY <1>2, <3>2 DEF FlusherStep, MemsKept
    <3> QED
      BY <3>1, <3>2
  <2>3. \A t \in 1..Len(sst) : sst'[t].recs = sst[t].recs
    <3>1. CASE FlushWrite /\ mem[flusher.mem].recs # {}
      BY <3>1, CreateTable DEF Created
    <3>2. CASE ~(FlushWrite /\ mem[flusher.mem].recs # {})
      BY <1>2, <3>2 DEF FlusherStep
    <3> QED
      BY <3>1, <3>2
  <2>4. immutables' = immutables \/ FlushUnregister
    BY <1>2 DEF FlusherStep
  <2>5. immutables' \subseteq immutables
    BY <2>4 DEF Shifted
  <2>6. ASSUME NEW m \in immutables' \cup {Len(mem)}, Listed(m) PROVE Listed(m)'
    <3>1. flusher.pc \in {"persist", "unregister"} /\ m = flusher.mem /\ m \in immutables
      BY <2>6 DEF Listed, IInv, FlusherInv
    <3>2. ~FlushUnregister
      BY <2>6, <3>1, Ranges DEF Shifted
    <3>3. FlushPersist
      BY <1>2, <3>1, <3>2 DEF FlusherStep
    <3> QED
      BY <3>1, <3>3 DEF Listed, IInv, TypeOK, FlusherType
  <2> QED
    BY <2>1, <2>2, <2>3, <2>5, <2>6, Ranges, ApartKept DEF Held
<1>3. CASE CompactorStep
  <2> USE DEF CompactionDaemonWake, CompactStart, TierFits, TierPop, MergeOpen, MergePollActive,
              MergePollCount, MergeWrite, MergeFinish, CompactCopy, CompactPersist, CompactDelete
  <2>1. UNCHANGED <<mem, immutables, flusher, accepted, inserted>>
    BY <1>3 DEF CompactorStep
  <2>2. \A t \in Held : sst'[t].recs = sst[t].recs
    <3>1. CASE MergeOpen
      BY <3>1, CreateTable, Ranges DEF Created
    <3>2. CASE MergeFinish
      BY <3>2, MergeFinishTables, Ranges DEF Fresh
    <3>3. CASE CompactDelete
      BY <3>3, CompactDeleteTables, Ranges
    <3>4. CASE ~MergeOpen /\ ~MergeFinish /\ ~CompactDelete
      BY <1>3, <3>4 DEF CompactorStep
    <3> QED
      BY <3>1, <3>2, <3>3, <3>4
  <2>3. Held' \subseteq Held
    <3>1. CASE TierPop
      BY <3>1, TierPopHeld
    <3>2. CASE TierFits
      <4>1. compactor \in CompactorSet(Len(sst)) /\ compactor' = NextTier(compactor)
        BY <3>2 DEF IInv, TypeOK, CompactorType, CompactorSet
      <4> QED
        BY <3>2, <4>1, NextTierFields DEF Held
    <3>3. CASE CompactDelete
      BY <3>3 DEF Held, NoCompaction
    <3>4. CASE ~TierPop /\ ~TierFits /\ ~CompactDelete
      BY <1>3, <3>4 DEF CompactorStep, Held, IInv, TypeOK, CompactorType
    <3> QED
      BY <3>1, <3>2, <3>3, <3>4
  <2> QED
    BY <2>1, <2>2, <2>3, ApartKept DEF MemsKept, Listed
<1>4. ASSUME NEW r \in Readers, IteratorCreate(r) \/ IteratorClose(r) PROVE ApartInv'
  <2>1. UNCHANGED <<immutables, list, flusher, compactor, accepted, inserted>>
    BY <1>4 DEF IteratorCreate, IteratorClose
  <2>2. \A t \in 1..Len(sst) : sst'[t].recs = sst[t].recs
    BY <1>4, RetainRelease DEF IteratorCreate, IteratorClose, Counted, IInv
  <2>3. MemsKept
    <3>1. CASE IteratorCreate(r)
      <4>1. PICK m \in {0, Len(mem)} : mem' = IF m = 0 THEN mem ELSE [mem EXCEPT ![m].ref = @ + 1]
        BY <3>1 DEF IteratorCreate, Current
      <4>2. m \in 0..Len(mem)
        BY <4>1, Ranges
      <4> QED
        BY <4>1, <4>2, MemReference DEF MemCounted, IInv
    <3>2. CASE IteratorClose(r)
      <4>1. iter[r].mem \in 0..Len(mem)
        BY DEF IInv, TypeOK, IterType
      <4> QED
        BY <3>2, <4>1, MemReference DEF IteratorClose, MemCounted, IInv
    <3> QED
      BY <1>4, <3>1, <3>2
  <2> QED
    BY <2>1, <2>2, <2>3, Ranges, ApartKept DEF Held, Listed
<1> QED
  BY <1>1, <1>2, <1>3, <1>4 DEF Next, Step, Stopped

\* The records N are added to the memtable in use, which may first have become
\* immutable and been replaced.
Grown(N) ==
  /\ UNCHANGED <<sst, list, files, flusher, compactor, iter>>
  /\ \/ immutables' = immutables /\ Len(mem') = Len(mem)
     \/ /\ immutables' = immutables \cup {Len(mem)} /\ Len(mem') = Len(mem) + 1
        /\ mem'[Len(mem')].recs = N /\ mem'[Len(mem')].ref = 1
  /\ \A m \in 1..Len(mem) :
       /\ mem'[m].ref = mem[m].ref
       /\ mem'[m].recs = mem[m].recs \/ (m = Len(mem') /\ mem'[m].recs = mem[m].recs \cup N)
  /\ accepted' = accepted \cup N
  /\ \A r \in N : r[2] = inserted + 1 /\ r[2] <= inserted'
  /\ inserted' \in Nat /\ inserted <= inserted'

\* The steps that place a record or register a memtable add records that are new
\* everywhere, and create at most one memtable.
LEMMA Insertions ==
  ASSUME IInv,
         \/ FlushRegister
         \/ \E k \in Keys \cup {ReservedKey} : InsertPlace(k) \/ InsertRotate(k)
  PROVE  \E N : Grown(N)
<1>1. /\ mem \in [1..Len(mem) -> Memtable] /\ Len(mem) \in Nat /\ mem \in Seq(Memtable)
      /\ Len(mem) \in 1..Len(mem) /\ inserted \in Nat
  BY Ranges DEF IInv, TypeOK, MemType, HistoryType
<1>2. CASE FlushRegister
  <2>1. UNCHANGED <<sst, list, files, flusher, compactor, iter, accepted, inserted>>
    BY <1>2 DEF FlushRegister
  <2>2. CASE Cardinality(immutables) < MaxImmutables
    <3>1. mem' = Append(mem, NewMemtable) /\ immutables' = immutables \cup {Len(mem)}
      BY <1>2, <2>2 DEF FlushRegister, Current
    <3>2. /\ Len(mem') = Len(mem) + 1 /\ mem'[Len(mem')].recs = {} /\ mem'[Len(mem')].ref = 1
          /\ \A m \in 1..Len(mem) : mem'[m] = mem[m]
      BY <1>1, <3>1 DEF NewMemtable
    <3>3. Grown({})
      BY <1>1, <2>1, <3>1, <3>2 DEF Grown
    <3> QED
      BY <3>3
  <2>3. CASE ~(Cardinality(immutables) < MaxImmutables)
    <3>1. UNCHANGED <<mem, immutables>>
      BY <1>2, <2>3 DEF FlushRegister
    <3>2. Grown({})
      BY <1>1, <2>1, <3>1 DEF Grown
    <3> QED
      BY <3>2
  <2> QED
    BY <2>2, <2>3
<1>3. ASSUME NEW k \in Keys \cup {ReservedKey}, InsertPlace(k) PROVE \E N : Grown(N)
  <2> DEFINE rec == <<k, inserted + 1>>
  <2>1. UNCHANGED <<immutables, sst, list, files, flusher, compactor, iter>>
    BY <1>3 DEF InsertPlace
  <2>2. \/ mem' = mem /\ accepted' = accepted /\ inserted' = inserted
        \/ /\ mem' = [mem EXCEPT ![Len(mem)].recs = @ \cup {rec}]
           /\ accepted' = accepted \cup {rec} /\ inserted' = inserted + 1
    BY <1>3 DEF InsertPlace, Accept, Current
  <2>3. CASE mem' = mem /\ accepted' = accepted /\ inserted' = inserted
    <3>1. Grown({})
      BY <1>1, <2>1, <2>3 DEF Grown
    <3> QED
      BY <3>1
  <2>4. CASE /\ mem' = [mem EXCEPT ![Len(mem)].recs = @ \cup {rec}]
             /\ accepted' = accepted \cup {rec} /\ inserted' = inserted + 1
    <3>1. rec[2] = inserted + 1
      OBVIOUS
    <3> HIDE DEF rec
    <3>2. /\ DOMAIN mem' = 1..Len(mem) /\ mem'[Len(mem)].recs = mem[Len(mem)].recs \cup {rec}
          /\ mem'[Len(mem)].ref = mem[Len(mem)].ref
      BY <1>1, <2>4 DEF Memtable
    <3>3. \A m \in 1..Len(mem) : m # Len(mem) => mem'[m] = mem[m]
      BY <1>1, <2>4
    <3>4. Len(mem') = Len(mem)
      <4>1. mem' \in [1..Len(mem) -> {mem'[m] : m \in 1..Len(mem)}]
        BY <2>4, <3>2
      <4> QED
        BY <1>1, <4>1, FunctionIsSeq
    <3>5. Grown({rec})
      <4>1. \A m \in 1..Len(mem) :
              /\ mem'[m].ref = mem[m].ref
              /\ \/ mem'[m].recs = mem[m].recs
                 \/ m = Len(mem') /\ mem'[m].recs = mem[m].recs \cup {rec}
        BY <3>2, <3>3, <3>4
      <4>2. /\ \A r \in {rec} : r[2] = inserted + 1 /\ r[2] <= inserted'
            /\ inserted' \in Nat /\ inserted <= inserted'
        BY <1>1, <2>4, <3>1
      <4> QED
        BY <2>1, <2>4, <3>4, <4>1, <4>2 DEF Grown
    <3> QED
      BY <3>5
  <2> QED
    BY <2>2, <2>3, <2>4
<1>4. ASSUME NEW k \in Keys \cup {ReservedKey}, InsertRotate(k) PROVE \E N : Grown(N)
  <2> DEFINE rec == <<k, inserted + 1>>
  <2>1. /\ UNCHANGED <<sst, list, files, flusher, compactor, iter>>
        /\ immutables' = immutables \cup {Len(mem)}
    BY <1>4 DEF InsertRotate, Current
  <2>2. PICK new : /\ mem' = Append(mem, new) /\ new.ref = 1
                   /\ \/ new.recs = {} /\ accepted' = accepted /\ inserted' = inserted
                      \/ new.recs = {rec} /\ accepted' = accepted \cup {rec} /\ inserted' = inserted + 1
    BY <1>4 DEF InsertRotate, Accept, NewMemtable
  <2>3. rec[2] = inserted + 1
    OBVIOUS
  <2> HIDE DEF rec
  <2>4. /\ Len(mem') = Len(mem) + 1 /\ mem'[Len(mem')] = new
        /\ \A m \in 1..Len(mem) : mem'[m] = mem[m]
    BY <1>1, <2>2
  <2>5. Grown(new.recs)
    <3>1. /\ accepted' = accepted \cup new.recs /\ inserted' \in Nat /\ inserted <= inserted'
          /\ \A r \in new.recs : r[2] = inserted + 1 /\ r[2] <= inserted'
      BY <1>1, <2>2, <2>3
    <3>2. \A m \in 1..Len(mem) : mem'[m].ref = mem[m].ref /\ mem'[m].recs = mem[m].recs
      BY <2>4
    <3>3. mem'[Len(mem')].recs = new.recs /\ mem'[Len(mem')].ref = 1
      BY <2>2, <2>4
    <3> QED
      BY <2>1, <2>4, <3>1, <3>2, <3>3 DEF Grown
  <2> QED
    BY <2>5
<1> QED
  BY <1>2, <1>3, <1>4

\* What is added is new, hence in no other memtable and in no table.
LEMMA ApartGrown ==
  ASSUME IInv, ApartInv, NEW N, Grown(N)
  PROVE  ApartInv'
<1>1. inserted \in Nat /\ \A r \in accepted : r \notin N
  <2>1. inserted \in Nat
    BY DEF IInv, TypeOK, HistoryType
  <2>2. \A r \in accepted : r[2] <= inserted /\ r[2] \in Nat
    BY DEF ApartInv, MemtablesApart, IInv, TypeOK, HistoryType, Record
  <2> QED
    BY <2>1, <2>2 DEF Grown
<1>2. /\ Len(mem) \in Nat /\ Len(mem) \in 1..Len(mem) /\ Held \subseteq 1..Len(sst)
      /\ immutables \subseteq 1..Len(mem) /\ Len(mem) \notin immutables
  BY Ranges
<1>3. /\ \A m \in 1..Len(mem) : mem[m].recs \subseteq accepted
      /\ \A t \in Held : sst[t].recs \subseteq accepted
  BY <1>2 DEF IInv, Grounded
<1>4. \A r \in accepted' : r[2] <= inserted'
  <2>1. \A r \in accepted : r[2] \in Nat /\ r[2] <= inserted
    BY DEF ApartInv, MemtablesApart, IInv, TypeOK, HistoryType, Record
  <2> QED
    BY <1>1, <2>1 DEF Grown
<1>5. ASSUME NEW m \in 1..Len(mem'), NEW n \in 1..Len(mem'), m # n, n # Len(mem')
      PROVE  mem'[m].recs \cap mem'[n].recs = {}
  <2>1. n \in 1..Len(mem) /\ mem'[n].recs = mem[n].recs
    BY <1>2, <1>5 DEF Grown
  <2>2. CASE m \in 1..Len(mem)
    <3>1. mem[m].recs \cap mem[n].recs = {}
      BY <1>5, <2>1, <2>2 DEF ApartInv, MemtablesApart
    <3>2. mem'[m].recs = mem[m].recs \/ mem'[m].recs = mem[m].recs \cup N
      BY <2>2 DEF Grown
    <3> QED
      BY <1>1, <1>3, <2>1, <3>1, <3>2
  <2>3. CASE m \notin 1..Len(mem)
    <3>1. m = Len(mem') /\ Len(mem') = Len(mem) + 1
      BY <1>2, <2>3 DEF Grown
    <3>2. mem'[m].recs = N
      BY <1>2, <3>1 DEF Grown
    <3> QED
      BY <1>1, <1>3, <2>1, <3>2
  <2> QED
    BY <2>2, <2>3
<1>6. MemtablesApart'
  BY <1>4, <1>5 DEF MemtablesApart
<1>7. Held' = Held /\ sst' = sst /\ NoRecordTwice'
  BY DEF Grown, Held, ApartInv, TablesApart, NoRecordTwice
<1>8. ASSUME NEW m \in immutables' \cup {Len(mem')}, NEW t \in Held, ~Listed(m)'
      PROVE  mem'[m].recs \cap sst[t].recs = {}
  <2>1. CASE m \in immutables \cup {Len(mem)}
    <3>1. mem[m].recs \cap sst[t].recs = {}
      BY <1>8, <2>1 DEF ApartInv, TablesApart, Listed, Grown
    <3>2. m \in 1..Len(mem) /\ (mem'[m].recs = mem[m].recs \/ mem'[m].recs = mem[m].recs \cup N)
      BY <1>2, <2>1 DEF Grown
    <3> QED
      BY <1>1, <1>3, <3>1, <3>2
  <2>2. CASE m \notin immutables \cup {Len(mem)}
    <3>1. mem'[m].recs = N
      BY <1>2, <1>8, <2>2 DEF Grown
    <3> QED
      BY <1>1, <1>3, <3>1
  <2> QED
    BY <2>1, <2>2
<1> QED
  BY <1>6, <1>7, <1>8 DEF ApartInv, TablesApart

\* A flushed table holds the records of its memtable, which no table held.
LEMMA ApartFlushAdd ==
  ASSUME IInv, ApartInv, FlushAdd
  PROVE  ApartInv'
<1>1. UNCHANGED <<mem, immutables, sst, compactor, accepted, inserted>>
  BY DEF FlushAdd
<1>2. /\ Held' = Held \cup {flusher.tab} /\ flusher.pc = "add"
      /\ flusher'.pc = "persist" /\ flusher'.mem = flusher.mem
  BY <1>1 DEF FlushAdd, AddTable, IInv, TypeOK, FlusherType, Held
<1>3. /\ flusher.tab \notin Held /\ sst[flusher.tab].recs = mem[flusher.mem].recs
      /\ flusher.mem \in immutables
  BY <1>2 DEF IInv, FlusherInv, Fresh
<1>4. MemtablesApart'
  BY <1>1 DEF ApartInv, MemtablesApart
<1>5. \A m \in immutables \cup {Len(mem)}, t \in Held : mem[m].recs \cap sst[t].recs = {}
  BY <1>2 DEF ApartInv, TablesApart, Listed
<1>6. NoRecordTwice'
  BY <1>1, <1>2, <1>3, <1>5 DEF ApartInv, TablesApart, NoRecordTwice
<1>7. ASSUME NEW m \in immutables \cup {Len(mem)}, m # flusher.mem, NEW t \in Held'
      PROVE  mem[m].recs \cap sst[t].recs = {}
  <2>1. CASE t \in Held
    BY <1>5, <2>1
  <2>2. CASE t = flusher.tab
    <3>1. m \in 1..Len(mem) /\ flusher.mem \in 1..Len(mem)
      BY <1>3, Ranges
    <3> QED
      BY <1>3, <1>7, <2>2, <3>1 DEF ApartInv, MemtablesApart
  <2> QED
    BY <1>2, <2>1, <2>2
<1>8. ASSUME NEW m \in immutables' \cup {Len(mem')}, NEW t \in Held', ~Listed(m)'
      PROVE  mem'[m].recs \cap sst'[t].recs = {}
  BY <1>1, <1>2, <1>7, <1>8 DEF Listed
<1> QED
  BY <1>4, <1>6, <1>8 DEF ApartInv, TablesApart

\* A merged table takes the place of the tables whose records it holds.
LEMMA ApartCompactAdd ==
  ASSUME IInv, ApartInv, CompactAdd
  PROVE  ApartInv'
<1> DEFINE c == [compactor EXCEPT !.inputs = {}, !.tab = 0, !.garbage = @ \cup compactor.inputs]
<1>0. PICK n : n = compactor.tab
  OBVIOUS
<1>1. UNCHANGED <<mem, immutables, sst, flusher, accepted, inserted>>
  BY DEF CompactAdd
<1>2. c \in CompactorSet(Len(sst)) /\ c.inputs = {} /\ compactor' = NextTier(c)
  <2>1. compactor \in CompactorSet(Len(sst)) /\ 0 \in 0..Len(sst)
    BY Ranges DEF IInv, TypeOK, CompactorType, CompactorSet
  <2>2. c \in CompactorSet(Len(sst)) /\ c.inputs = {}
    BY <2>1 DEF CompactorSet
  <2> QED
    BY <2>2 DEF CompactAdd
<1>3. Held' = list \cup {n}
  <2>1. list' = list \cup {n}
    BY <1>0 DEF CompactAdd, AddTable
  <2> HIDE DEF c
  <2>2. compactor'.inputs = {}
    BY <1>2, NextTierFields
  <2> QED
    BY <2>1, <2>2 DEF Held
<1>4. /\ n \notin Held /\ sst[n].recs = RecordsOf(compactor.inputs)
      /\ \A t \in compactor.inputs : t \notin list
  BY <1>0 DEF CompactAdd, IInv, CompactorInv, TableInv, Fresh
<1>5. MemtablesApart'
  BY <1>1 DEF ApartInv, MemtablesApart
<1>6. ASSUME NEW t \in list PROVE sst[t].recs \cap sst[n].recs = {}
  <2>1. \A u \in compactor.inputs : sst[t].recs \cap sst[u].recs = {}
    BY <1>4 DEF ApartInv, TablesApart, NoRecordTwice, Held
  <2> QED
    BY <1>4, <2>1 DEF RecordsOf
<1>7. NoRecordTwice'
  BY <1>1, <1>3, <1>6 DEF ApartInv, TablesApart, NoRecordTwice, Held
<1>8. ASSUME NEW m \in immutables \cup {Len(mem)}, NEW t \in list \cup {n}, ~Listed(m)
      PROVE  mem[m].recs \cap sst[t].recs = {}
  <2>1. \A u \in Held : mem[m].recs \cap sst[u].recs = {}
    BY <1>8 DEF ApartInv, TablesApart
  <2> QED
    BY <1>4, <2>1 DEF RecordsOf, Held
<1>9. ASSUME NEW m \in immutables' \cup {Len(mem')}, NEW t \in Held', ~Listed(m)'
      PROVE  mem'[m].recs \cap sst'[t].recs = {}
  BY <1>1, <1>3, <1>8, <1>9 DEF Listed
<1> QED
  BY <1>5, <1>7, <1>9 DEF ApartInv, TablesApart

\* Init: there is no record.
LEMMA ApartInit == Init => ApartInv
<1> SUFFICES ASSUME Init PROVE ApartInv
  OBVIOUS
<1>1. Len(mem) = 1 /\ Held = {} /\ accepted = {}
  BY DEF Init, Held, NoCompaction
<1> QED
  BY <1>1 DEF ApartInv, MemtablesApart, TablesApart, NoRecordTwice

\* Every step keeps memtables and tables apart.
LEMMA ApartStep == IInv /\ ApartInv /\ [Next]_vars => ApartInv'
<1> SUFFICES ASSUME IInv, ApartInv, [Next]_vars PROVE ApartInv'
  OBVIOUS
<1>1. CASE UNCHANGED vars
  <2>1. UNCHANGED <<mem, immutables, sst, list, flusher, compactor, accepted, inserted>>
    BY <1>1 DEF vars
  <2> QED
    BY <2>1, ApartKept DEF MemsKept, Held, Listed
<1>2. CASE Next
  <2>1. CASE \/ FlushRegister
             \/ \E k \in Keys \cup {ReservedKey} : InsertPlace(k) \/ InsertRotate(k)
    BY <2>1, Insertions, ApartGrown
  <2> QED
    BY <1>2, <2>1, ApartFlushAdd, ApartCompactAdd, ApartQuiet
<1> QED
  BY <1>1, <1>2

\* A record is in one table only: whatever the interleaving of inserts, flushes
\* and merges, no memtable is flushed twice, and no table is both merged and
\* kept, so a query does not return a record twice.
THEOREM RecordsAreUnique == Spec => []NoRecordTwice
<1>1. ApartInv => NoRecordTwice
  BY DEF ApartInv, TablesApart
<1> QED
  BY <1>1, Invariance, ApartInit, ApartStep, PTL DEF Spec

---------------------------------------------------------------------------
(* The metadata file.                                                      *)

\* Every version of the metadata is written by one daemon, once.
VersionInv ==
  /\ disk_generation <= metadata_generation
  /\ flusher.pc = "persist" =>
       flusher.gen <= metadata_generation /\ flusher.gen # disk_generation
  /\ compactor.pc = "persist" =>
       compactor.gen <= metadata_generation /\ compactor.gen # disk_generation
  /\ flusher.pc = "persist" /\ compactor.pc = "persist" => flusher.gen # compactor.gen

\* There is something to delete only while a compaction runs, and a compaction
\* that merges or deletes has something to merge or delete.
CompactionInv ==
  /\ compactor.garbage # {} => compactor.pc \notin {"idle", "start", "exited"}
  /\ compactor.pc \in {"copy", "persist", "delete"} => compactor.garbage # {}
  /\ compactor.pc \in {"merge", "wait_active", "wait_count", "add"} => compactor.inputs # {}

Intact(T) == \A t \in T : t \in files /\ ~sst[t].old

\* What is or may yet be put in the metadata file names no removed table, and,
\* from the compaction daemon's own version on, none that it will remove.
NamesInv ==
  /\ Intact(disk)
  /\ flusher.pc = "persist" /\ flusher.gen > disk_generation => Intact(flusher.copy)
  /\ compactor.pc = "persist" =>
       /\ Intact(compactor.copy)
       /\ compactor.copy \cap compactor.garbage = {}
       /\ disk_generation >= compactor.gen => disk \cap compactor.garbage = {}
       /\ flusher.pc = "persist" /\ flusher.gen >= compactor.gen =>
            flusher.copy \cap compactor.garbage = {}
  /\ compactor.pc = "delete" =>
       /\ disk \cap compactor.garbage = {}
       /\ flusher.pc = "persist" /\ flusher.gen > disk_generation =>
            flusher.copy \cap compactor.garbage = {}

\* L is the latest version of the metadata, written or still to be written.
Latest(L) ==
  \/ flusher.pc = "persist" /\ flusher.gen = metadata_generation /\ flusher.copy = L
  \/ compactor.pc = "persist" /\ compactor.gen = metadata_generation /\ compactor.copy = L
  \/ disk_generation = metadata_generation /\ disk = L

\* Unless a compaction has changed the list and not copied it yet, the latest
\* version is the list.
LatestInv ==
  (compactor.pc \in {"persist", "delete"} \/ compactor.inputs \cup compactor.garbage = {})
    => Latest(list)

MetadataInv == VersionInv /\ CompactionInv /\ NamesInv /\ LatestInv

\* No table that is on disk and not marked is removed or marked.
IntactKept == \A t \in files : ~sst[t].old => t \in files' /\ ~sst'[t].old

\* Only the end of a compaction marks tables, and only marked ones are removed.
LEMMA IntactStep ==
  ASSUME IInv, Next, ~CompactDelete
  PROVE  IntactKept
<1>1. files \subseteq 1..Len(sst) /\ TypeOK
  BY Ranges DEF IInv
<1>2. CASE UNCHANGED vars \/ Calls \/ WriterStep \/ SpuriousWakeup
  <2>1. FreeJoinCompact \/ UNCHANGED <<sst, files>>
    BY <1>2 DEF Calls, WriterStep, InsertBlocked, InsertPlace, InsertRotate, InsertWait,
       InsertSignal, FlushRegister, FlushPool, FlushSignal, FlushCheck, SpuriousWakeup, Free,
       FreeJoinFlush, vars
  <2>2. FreeJoinCompact => Counted(list, -1)
    BY <1>1, RetainRelease DEF FreeJoinCompact
  <2> QED
    BY <1>1, <2>1, <2>2 DEF FreeJoinCompact, Removed, Counted, IntactKept
<1>3. CASE FlusherStep
  <2>1. (FlushWrite /\ mem[flusher.mem].recs # {}) \/ UNCHANGED <<sst, files>>
    BY <1>3 DEF FlusherStep, FlushDaemonWake, FlushScan, FlushIdle, FlushWrite, FlushAdd,
       FlushPersist, FlushUnregister, FlushRelease, FlushNotifyCompaction, FlushNotifyPool
  <2> QED
    BY <1>1, <2>1, CreateTable DEF Created, IntactKept
<1>4. CASE CompactorStep
  <2>1. MergeOpen \/ MergeFinish \/ UNCHANGED <<sst, files>>
    BY <1>4 DEF CompactorStep, CompactionDaemonWake, CompactStart, TierFits, TierPop,
       MergePollActive, MergePollCount, MergeWrite, CompactAdd, CompactCopy, CompactPersist
  <2>2. MergeOpen => IntactKept
    BY <1>1, CreateTable DEF Created, IntactKept
  <2>3. MergeFinish => IntactKept
    BY <1>1, MergeFinishTables DEF MergeFinish, Removed, IntactKept
  <2> QED
    BY <2>1, <2>2, <2>3 DEF IntactKept
<1>5. ASSUME NEW r \in Readers, IteratorCreate(r) \/ IteratorClose(r) PROVE IntactKept
  <2>1. CASE IteratorCreate(r)
    <3>1. Counted(list, 1) /\ files' = files
      BY <1>1, <2>1, RetainRelease DEF IteratorCreate
    <3> QED
      BY <1>1, <3>1 DEF Counted, IntactKept
  <2>2. CASE IteratorClose(r)
    <3>1. Counted(iter[r].tabs, -1)
      BY <1>1, <2>2, RetainRelease DEF IteratorClose
    <3> QED
      BY <1>1, <2>2, <3>1 DEF IteratorClose, Removed, Counted, IntactKept
  <2> QED
    BY <1>5, <2>1, <2>2
<1> QED
  BY <1>2, <1>3, <1>4, <1>5 DEF Next, Step, Stopped

\* A step that neither copies nor writes the metadata and is not the compaction
\* daemon's.
LEMMA MetadataKept ==
  ASSUME MetadataInv, IntactKept, compactor' = compactor,
         UNCHANGED <<metadata_generation, disk_generation, disk, list>>,
         flusher' = flusher \/ (flusher.pc # "persist" /\ flusher'.pc # "persist")
  PROVE  MetadataInv'
<1>1. \A T : Intact(T) => Intact(T)'
  BY DEF Intact, IntactKept
<1>2. VersionInv' /\ CompactionInv'
  BY DEF MetadataInv, VersionInv, CompactionInv
<1>3. NamesInv'
  BY <1>1 DEF MetadataInv, NamesInv
<1>4. LatestInv'
  BY DEF MetadataInv, LatestInv, Latest
<1> QED
  BY <1>2, <1>3, <1>4 DEF MetadataInv

\* The flush daemon lists a table and takes a new version of the metadata.
LEMMA MetadataFlushAdd ==
  ASSUME IInv, MetadataInv, FlushAdd
  PROVE  MetadataInv'
<1>1. UNCHANGED <<sst, files, disk_generation, disk, compactor>>
  BY DEF FlushAdd
<1>2. /\ metadata_generation' = metadata_generation + 1 /\ list' = list \cup {flusher.tab}
      /\ flusher.pc = "add" /\ flusher'.pc = "persist" /\ flusher'.copy = list'
      /\ flusher'.gen = metadata_generation + 1
  BY DEF FlushAdd, AddTable, IInv, TypeOK, FlusherType
<1>3. metadata_generation \in Nat /\ disk_generation \in Nat /\ compactor.gen \in Nat
  BY DEF IInv, TypeOK, TableType, CompactorType
<1>4. Intact(list') /\ list' \cap compactor.garbage = {}
  BY <1>2 DEF IInv, TableInv, FlusherInv, Fresh, Held, Intact
<1>5. VersionInv' /\ CompactionInv'
  BY <1>1, <1>2, <1>3 DEF MetadataInv, VersionInv, CompactionInv
<1>6. NamesInv'
  <2>1. \A T : Intact(T)' = Intact(T)
    BY <1>1 DEF Intact
  <2> QED
    BY <1>1, <1>2, <1>4, <2>1 DEF MetadataInv, NamesInv
<1>7. LatestInv'
  BY <1>2 DEF LatestInv, Latest
<1> QED
  BY <1>5, <1>6, <1>7 DEF MetadataInv

\* The flush daemon writes its version, unless a later one is in the file.
LEMMA MetadataFlushPersist ==
  ASSUME IInv, MetadataInv, FlushPersist
  PROVE  MetadataInv'
<1>1. UNCHANGED <<sst, files, list, metadata_generation, compactor>>
  BY DEF FlushPersist
<1>2. /\ flusher.pc = "persist" /\ flusher'.pc = "unregister"
      /\ disk_generation' = IF flusher.gen > disk_generation THEN flusher.gen ELSE disk_generation
      /\ disk' = IF flusher.gen > disk_generation THEN flusher.copy ELSE disk
  BY DEF FlushPersist, WriteMetadata, IInv, TypeOK, FlusherType
<1>3. /\ metadata_generation \in Nat /\ disk_generation \in Nat /\ compactor.gen \in Nat
      /\ flusher.gen \in Nat
  BY DEF IInv, TypeOK, TableType, CompactorType, FlusherType
<1>4. VersionInv' /\ CompactionInv'
  BY <1>1, <1>2, <1>3 DEF MetadataInv, VersionInv, CompactionInv
<1>5. NamesInv'
  <2>1. \A T : Intact(T)' = Intact(T)
    BY <1>1 DEF Intact
  <2> QED
    BY <1>1, <1>2, <1>3, <2>1 DEF MetadataInv, NamesInv
<1>6. LatestInv'
  BY <1>1, <1>2, <1>3 DEF MetadataInv, LatestInv, Latest, VersionInv
<1> QED
  BY <1>4, <1>5, <1>6 DEF MetadataInv

\* The steps of a compaction before it copies the metadata.
LEMMA MetadataCompacting ==
  ASSUME MetadataInv, IntactKept, CompactionInv',
         UNCHANGED <<metadata_generation, disk_generation, disk, flusher>>,
         compactor.pc \notin {"persist", "delete"}, compactor'.pc \notin {"persist", "delete"},
         compactor'.inputs \cup compactor'.garbage = {} =>
           list' = list /\ compactor.inputs \cup compactor.garbage = {}
  PROVE  MetadataInv'
<1>1. \A T : Intact(T) => Intact(T)'
  BY DEF Intact, IntactKept
<1>2. VersionInv'
  BY DEF MetadataInv, VersionInv
<1>3. NamesInv'
  BY <1>1 DEF MetadataInv, NamesInv
<1>4. LatestInv'
  BY DEF MetadataInv, LatestInv, Latest
<1> QED
  BY <1>2, <1>3, <1>4 DEF MetadataInv

\* A tier has finitely many tables.
LEMMA TierFinite ==
  ASSUME IInv, NEW tier
  PROVE  IsFiniteSet(TierTables(tier)) /\ TierTables(tier) \subseteq list
<1>1. Len(sst) \in Nat /\ list \subseteq 1..Len(sst)
  BY Ranges
<1>2. IsFiniteSet(1..Len(sst))
  BY <1>1, FS_Interval
<1>3. TierTables(tier) \subseteq list
  BY DEF TierTables
<1> QED
  BY <1>1, <1>2, <1>3, FS_Subset

\* At most MergeLimit tables are popped, and no more than there are.
LEMMA PopCountRange ==
  ASSUME NEW T, IsFiniteSet(T), NEW delta
  PROVE  /\ PopCount(T, delta) \in 0..Cardinality(T)
         /\ PopCount(T, delta) <= MergeLimit
         /\ \/ PopCount(T, delta) >= 2
            \/ PopCount(T, delta) = Cardinality(T)
<1> DEFINE S == {n \in 0..Cardinality(T) : \/ n = MergeLimit
                                           \/ n = Cardinality(T)
                                           \/ n >= 2 /\ SumSizes(Oldest(T, n)) > delta}
<1>1. Cardinality(T) \in Nat /\ MergeLimit \in Nat /\ MergeLimit >= 2
  BY FS_CardinalityType, ConstantsAssumption
<1>2. PopCount(T, delta) = Min(S)
  BY DEF PopCount
<1>3. /\ S \subseteq 0..Cardinality(T) /\ Cardinality(T) \in S
      /\ \A n \in S : n >= 2 \/ n = Cardinality(T)
      /\ MergeLimit <= Cardinality(T) => MergeLimit \in S
  BY <1>1
<1> HIDE DEF S
<1>4. S \subseteq Nat /\ S # {}
  BY <1>1, <1>3
<1>5. Min(S) \in S /\ \A n \in S : Min(S) <= n
  BY <1>4, MinProperties
<1>6. PICK m : m = Min(S)
  OBVIOUS
<1>7. m \in 0..Cardinality(T) /\ (m >= 2 \/ m = Cardinality(T)) /\ \A n \in S : m <= n
  BY <1>3, <1>5, <1>6
<1>8. m <= MergeLimit
  BY <1>1, <1>3, <1>7
<1> QED
  BY <1>2, <1>6, <1>7, <1>8

\* A tier that is merged gives at least one table.
LEMMA TierPopInputs ==
  ASSUME IInv, TierPop, compactor'.pc = "merge"
  PROVE  compactor'.inputs # {}
<1> DEFINE T == TierTables(compactor.tier)
           delta == SumSizes(T) - Threshold[compactor.tier]
           N == PopCount(T, delta)
<1>1. /\ compactor' = [compactor EXCEPT !.pc = IF N < 2 THEN "abort" ELSE "merge",
                                        !.inputs = Oldest(T, N)]
      /\ compactor \in CompactorSet(Len(sst))
  BY DEF TierPop, IInv, TypeOK, CompactorType, CompactorSet
<1>2. T \subseteq Nat
  BY Ranges DEF TierTables
<1>3. N = PopCount(T, delta)
  OBVIOUS
<1> HIDE DEF T, delta, N
<1>4. ~(N < 2) /\ compactor'.inputs = Oldest(T, N)
  BY <1>1 DEF CompactorSet
<1>5. N \in Nat /\ T # {}
  <2>1. IsFiniteSet(T)
    BY TierFinite DEF T
  <2>2. N \in 0..Cardinality(T) /\ Cardinality(T) \in Nat
    BY <1>3, <2>1, PopCountRange, FS_CardinalityType
  <2>3. T = {} => Cardinality(T) = 0
    BY FS_EmptySet
  <2> QED
    BY <1>4, <2>2, <2>3
<1>6. PICK x \in T : \A y \in T : ~(<<y, x>> \in OpToRel(<, Nat))
  BY <1>2, <1>5, NatLessThanWellFounded, WFMin
<1>7. {u \in T : u < x} = {}
  BY <1>2, <1>6, Zenon DEF OpToRel
<1>8. Cardinality({u \in T : u < x}) = 0
  BY <1>7, FS_EmptySet
<1>9. Cardinality({u \in T : u < x}) < N
  BY <1>4, <1>5, <1>8
<1> QED
  BY <1>4, <1>6, <1>9 DEF Oldest

\* A compaction up to the copy of the metadata.
LEMMA MetadataCompactionStep ==
  ASSUME IInv, MetadataInv, CompactorStep, IntactKept,
         ~CompactCopy, ~CompactPersist, ~CompactDelete
  PROVE  MetadataInv'
<1>1. UNCHANGED <<metadata_generation, disk_generation, disk, flusher>>
  BY DEF CompactorStep, CompactionDaemonWake, CompactStart, TierFits, TierPop, MergeOpen,
     MergePollActive, MergePollCount, MergeWrite, MergeFinish, CompactAdd
<1>2. compactor \in CompactorSet(Len(sst)) /\ CompactionInv /\ CompactorInv
  BY DEF IInv, MetadataInv, TypeOK, CompactorType, CompactorSet
<1>3. CASE CompactionDaemonWake \/ CompactStart
  <2>1. /\ compactor.pc \in {"idle", "start"} /\ compactor'.pc \in {"start", "exited", "tier"}
        /\ compactor'.inputs = compactor.inputs /\ compactor'.garbage = compactor.garbage
        /\ list' = list
    BY <1>2, <1>3 DEF CompactionDaemonWake, CompactStart, CompactorSet
  <2>2. CompactionInv'
    BY <1>2, <2>1 DEF CompactionInv
  <2> QED
    BY <1>1, <2>1, <2>2, MetadataCompacting
<1>4. CASE TierFits
  <2>1. compactor' = NextTier(compactor) /\ compactor.pc = "tier" /\ list' = list
        /\ compactor.inputs = {}
    BY <1>2, <1>4 DEF TierFits, CompactorInv
  <2>2. /\ compactor'.pc \in {"tier", "copy", "idle"} /\ compactor'.inputs = {}
        /\ compactor'.garbage = compactor.garbage
        /\ compactor'.pc = "copy" => compactor.garbage # {}
        /\ compactor'.pc = "idle" => compactor.garbage = {}
    BY <1>2, <2>1, NextTierFields
  <2>3. CompactionInv'
    BY <2>2 DEF CompactionInv
  <2> QED
    BY <1>1, <2>1, <2>2, <2>3, MetadataCompacting
<1>5. CASE TierPop
  <2>1. /\ compactor.inputs = {} /\ compactor'.garbage = compactor.garbage
        /\ compactor'.inputs = list \ list' /\ list' \subseteq list
        /\ compactor'.pc \in {"abort", "merge"} /\ compactor.pc = "tier"
        /\ compactor'.pc = "merge" => compactor'.inputs # {}
    BY <1>5, TierPopHeld, TierPopInputs DEF TierPop
  <2>2. CompactionInv'
    BY <2>1 DEF CompactionInv
  <2>3. compactor'.inputs = {} => list' = list
    BY <2>1
  <2> QED
    BY <1>1, <2>1, <2>2, <2>3, MetadataCompacting
<1>6. CASE MergeOpen \/ MergePollActive \/ MergePollCount \/ MergeWrite \/ MergeFinish
  <2>1. /\ compactor.pc \in {"merge", "wait_active", "wait_count"}
        /\ compactor'.pc \in {"wait_active", "wait_count", "add"}
        /\ compactor'.inputs = compactor.inputs /\ compactor'.garbage = compactor.garbage
        /\ list' = list
    BY <1>2, <1>6 DEF MergeOpen, MergePollActive, MergePollCount, MergeWrite, MergeFinish,
       CompactorSet
  <2>2. CompactionInv'
    BY <1>2, <2>1 DEF CompactionInv
  <2> QED
    BY <1>1, <2>1, <2>2, MetadataCompacting
<1>7. CASE CompactAdd
  <2> DEFINE c == [compactor EXCEPT !.inputs = {}, !.tab = 0, !.garbage = @ \cup compactor.inputs]
  <2>1. /\ c \in CompactorSet(Len(sst)) /\ c.inputs = {}
        /\ c.garbage = compactor.garbage \cup compactor.inputs
    <3>1. 0 \in 0..Len(sst)
      BY Ranges
    <3> QED
      BY <1>2, <3>1 DEF CompactorSet
  <2>2. compactor' = NextTier(c) /\ compactor.pc = "add" /\ compactor.inputs # {}
    BY <1>2, <1>7 DEF CompactAdd, CompactionInv
  <2> HIDE DEF c
  <2>3. /\ compactor'.pc \in {"tier", "copy"} /\ compactor'.garbage # {}
    BY <2>1, <2>2, NextTierFields
  <2>4. CompactionInv'
    BY <2>3 DEF CompactionInv
  <2> QED
    BY <1>1, <2>2, <2>3, <2>4, MetadataCompacting
<1> QED
  BY <1>3, <1>4, <1>5, <1>6, <1>7 DEF CompactorStep

\* The compaction daemon takes a new version of the metadata.
LEMMA MetadataCompactCopy ==
  ASSUME IInv, MetadataInv, CompactCopy
  PROVE  MetadataInv'
<1>1. UNCHANGED <<sst, files, list, disk_generation, disk, flusher>>
  BY DEF CompactCopy
<1>2. /\ metadata_generation' = metadata_generation + 1
      /\ compactor.pc = "copy" /\ compactor'.pc = "persist" /\ compactor'.copy = list
      /\ compactor'.gen = metadata_generation + 1
      /\ compactor'.inputs = compactor.inputs /\ compactor'.garbage = compactor.garbage
  BY DEF CompactCopy, IInv, TypeOK, CompactorType
<1>3. metadata_generation \in Nat /\ disk_generation \in Nat /\ flusher.gen \in Nat
  BY DEF IInv, TypeOK, TableType, FlusherType
<1>4. Intact(list) /\ list \cap compactor.garbage = {}
  BY DEF IInv, TableInv, Held, Intact
<1>5. VersionInv' /\ CompactionInv'
  BY <1>1, <1>2, <1>3 DEF MetadataInv, VersionInv, CompactionInv
<1>6. NamesInv'
  <2>1. \A T : Intact(T)' = Intact(T)
    BY <1>1 DEF Intact
  <2>2. ~(disk_generation >= compactor'.gen)
        /\ (flusher.pc = "persist" => ~(flusher.gen >= compactor'.gen))
    BY <1>2, <1>3 DEF MetadataInv, VersionInv
  <2> QED
    BY <1>1, <1>2, <1>4, <2>1, <2>2 DEF MetadataInv, NamesInv
<1>7. LatestInv'
  BY <1>1, <1>2 DEF LatestInv, Latest
<1> QED
  BY <1>5, <1>6, <1>7 DEF MetadataInv

\* The compaction daemon writes its version, unless a later one is in the file.
LEMMA MetadataCompactPersist ==
  ASSUME IInv, MetadataInv, CompactPersist
  PROVE  MetadataInv'
<1>1. UNCHANGED <<sst, files, list, metadata_generation, flusher>>
  BY DEF CompactPersist
<1>2. /\ compactor.pc = "persist" /\ compactor'.pc = "delete"
      /\ compactor'.inputs = compactor.inputs /\ compactor'.garbage = compactor.garbage
      /\ disk_generation' = IF compactor.gen > disk_generation THEN compactor.gen ELSE disk_generation
      /\ disk' = IF compactor.gen > disk_generation THEN compactor.copy ELSE disk
  BY DEF CompactPersist, WriteMetadata, IInv, TypeOK, CompactorType
<1>3. /\ metadata_generation \in Nat /\ disk_generation \in Nat /\ compactor.gen \in Nat
      /\ flusher.gen \in Nat
  BY DEF IInv, TypeOK, TableType, CompactorType, FlusherType
<1>4. VersionInv' /\ CompactionInv'
  BY <1>1, <1>2, <1>3 DEF MetadataInv, VersionInv, CompactionInv
<1>5. NamesInv'
  <2>1. \A T : Intact(T)' = Intact(T)
    BY <1>1 DEF Intact
  <2> QED
    BY <1>1, <1>2, <1>3, <2>1 DEF MetadataInv, NamesInv
<1>6. LatestInv'
  BY <1>1, <1>2, <1>3 DEF MetadataInv, LatestInv, Latest, VersionInv
<1> QED
  BY <1>4, <1>5, <1>6 DEF MetadataInv

\* The merged tables are removed when nothing names them any more.
LEMMA MetadataCompactDelete ==
  ASSUME IInv, MetadataInv, CompactDelete
  PROVE  MetadataInv'
<1>1. UNCHANGED <<list, metadata_generation, disk_generation, disk, flusher>>
  BY DEF CompactDelete
<1>2. compactor.pc = "delete" /\ compactor.inputs = {} /\ compactor' = NoCompaction
  BY DEF CompactDelete, IInv, CompactorInv
<1>3. ASSUME NEW T, Intact(T), T \cap compactor.garbage = {} PROVE Intact(T)'
  BY <1>3, CompactDeleteTables, Ranges DEF Intact
<1>4. VersionInv' /\ CompactionInv'
  BY <1>1, <1>2 DEF MetadataInv, VersionInv, CompactionInv, NoCompaction
<1>5. NamesInv'
  BY <1>1, <1>2, <1>3 DEF MetadataInv, NamesInv, NoCompaction
<1>6. LatestInv'
  BY <1>1, <1>2 DEF MetadataInv, LatestInv, Latest, NoCompaction
<1> QED
  BY <1>4, <1>5, <1>6 DEF MetadataInv

\* Init: the file names the empty list.
LEMMA MetadataInit == Init => MetadataInv
BY DEF Init, MetadataInv, VersionInv, CompactionInv, NamesInv, LatestInv, Latest, Intact,
       NoJob, NoCompaction

\* Every step keeps the invariant of the metadata.
LEMMA MetadataStep == IInv /\ MetadataInv /\ [Next]_vars => MetadataInv'
<1> SUFFICES ASSUME IInv, MetadataInv, [Next]_vars PROVE MetadataInv'
  OBVIOUS
<1>1. CASE UNCHANGED vars
  BY <1>1, MetadataKept DEF vars, IntactKept
<1>2. CASE Next
  <2>0. compactor' = compactor => ~CompactDelete
    BY DEF CompactDelete, NoCompaction
  <2>1. CASE UNCHANGED vars \/ Calls \/ WriterStep \/ SpuriousWakeup
    <3>1. UNCHANGED <<list, metadata_generation, disk_generation, disk, flusher, compactor>>
      BY <2>1 DEF Calls, WriterStep, InsertBlocked, InsertPlace, InsertRotate, InsertWait,
         InsertSignal, FlushRegister, FlushPool, FlushSignal, FlushCheck, SpuriousWakeup, Free,
         FreeJoinFlush, FreeJoinCompact, vars
    <3> QED
      BY <1>2, <2>0, <3>1, IntactStep, MetadataKept
  <2>2. CASE FlusherStep
    <3>1. CASE FlushAdd \/ FlushPersist
      BY <3>1, MetadataFlushAdd, MetadataFlushPersist
    <3>2. CASE ~FlushAdd /\ ~FlushPersist
      <4>1. UNCHANGED <<list, metadata_generation, disk_generation, disk, compactor>>
        BY <2>2, <3>2 DEF FlusherStep, FlushDaemonWake, FlushScan, FlushIdle, FlushWrite,
           FlushUnregister, FlushRelease, FlushNotifyCompaction, FlushNotifyPool
      <4>2. flusher.pc # "persist"
        BY <2>2, <3>2 DEF FlusherStep, FlushDaemonWake, FlushScan, FlushIdle, FlushWrite,
           FlushUnregister, FlushRelease, FlushNotifyCompaction, FlushNotifyPool
      <4>3. flusher'.pc # "persist"
        <5>1. flusher \in [pc : FlusherPC, mem : 0..Len(mem), tab : 0..Len(sst), gen : Nat,
                           copy : SUBSET (1..Len(sst))]
          BY DEF IInv, TypeOK, FlusherType
        <5>2. CASE FlushIdle \/ FlushRelease
          BY <5>2 DEF FlushIdle, FlushRelease, NoJob
        <5>3. CASE ~FlushIdle /\ ~FlushRelease
          BY <2>2, <3>2, <5>1, <5>3 DEF FlusherStep, FlushDaemonWake, FlushScan, FlushWrite,
             FlushUnregister, FlushNotifyCompaction, FlushNotifyPool
        <5> QED
          BY <5>2, <5>3
      <4> QED
        BY <1>2, <2>0, <4>1, <4>2, <4>3, IntactStep, MetadataKept
    <3> QED
      BY <3>1, <3>2
  <2>3. CASE CompactorStep
    BY <1>2, <2>3, IntactStep, MetadataCompactionStep, MetadataCompactCopy,
       MetadataCompactPersist, MetadataCompactDelete
  <2>4. ASSUME NEW r \in Readers, IteratorCreate(r) \/ IteratorClose(r) PROVE MetadataInv'
    <3>1. UNCHANGED <<list, metadata_generation, disk_generation, disk, flusher, compactor>>
      BY <2>4 DEF IteratorCreate, IteratorClose
    <3> QED
      BY <1>2, <2>0, <3>1, IntactStep, MetadataKept
  <2> QED
    BY <1>2, <2>1, <2>2, <2>3, <2>4 DEF Next, Step, Stopped
<1> QED
  BY <1>1, <1>2

\* It holds in every state.
LEMMA MetadataInvariance == Spec => []MetadataInv
BY Invariance, MetadataInit, MetadataStep, PTL DEF Spec

\* The metadata file never names a table whose file was deleted, although the
\* two daemons copy the list, write it and delete files without a common lock.
THEOREM MetadataIsSound == Spec => []DiskMetadataSound
<1>1. MetadataInv => DiskMetadataSound
  BY DEF MetadataInv, NamesInv, Intact, DiskMetadataSound
<1> QED
  BY <1>1, MetadataInvariance, PTL

\* Once no daemon has a version of the metadata left to write, the file names
\* exactly the listed tables: an older version never overwrites a later one.
THEOREM MetadataIsCurrent == Spec => []DiskMetadataCurrent
<1>1. MetadataInv => DiskMetadataCurrent
  BY DEF MetadataInv, CompactionInv, LatestInv, Latest, DiskMetadataCurrent
<1> QED
  BY <1>1, MetadataInvariance, PTL

---------------------------------------------------------------------------
(* What a new iterator covers.                                             *)

\* Only lsmt_iterator_create opens an iterator.
LEMMA OnlyCreateOpens ==
  ASSUME IInv, Next, NEW r \in Readers, ~iter[r].open, iter'[r].open
  PROVE  IteratorCreate(r)
<1>1. \E q \in Readers : IteratorCreate(q) \/ IteratorClose(q)
  <2>1. iter' # iter
    OBVIOUS
  <2>2. ~UNCHANGED vars
    BY <2>1 DEF vars
  <2>3. ~(Calls \/ WriterStep \/ SpuriousWakeup)
    BY <2>1 DEF Calls, WriterStep, InsertBlocked, InsertPlace, InsertRotate, InsertWait,
       InsertSignal, FlushRegister, FlushPool, FlushSignal, FlushCheck, SpuriousWakeup, Free,
       FreeJoinFlush, FreeJoinCompact
  <2>4. ~FlusherStep
    BY <2>1 DEF FlusherStep, FlushDaemonWake, FlushScan, FlushIdle, FlushWrite, FlushAdd,
       FlushPersist, FlushUnregister, FlushRelease, FlushNotifyCompaction, FlushNotifyPool
  <2>5. ~CompactorStep
    BY <2>1 DEF CompactorStep, CompactionDaemonWake, CompactStart, TierFits, TierPop, MergeOpen,
       MergePollActive, MergePollCount, MergeWrite, MergeFinish, CompactAdd, CompactCopy,
       CompactPersist, CompactDelete
  <2> QED
    BY <2>2, <2>3, <2>4, <2>5 DEF Next, Step, Stopped
<1>2. PICK q \in Readers : IteratorCreate(q) \/ IteratorClose(q)
  BY <1>1
<1>3. \A x \in Readers : x # q => iter'[x] = iter[x]
  BY <1>2 DEF IteratorCreate, IteratorClose, IInv, TypeOK, IterType
<1>4. q = r
  BY <1>3
<1>5. ~IteratorClose(r)
  BY DEF IteratorClose
<1> QED
  BY <1>2, <1>4, <1>5

\* A new iterator covers all that is not under way between memory and the list.
LEMMA CreateCovers ==
  ASSUME IInv, NEW r \in Readers, IteratorCreate(r)
  PROVE  accepted \subseteq RecordsOf(iter'[r].tabs \cup compactor.inputs)
           \cup (UNION {mem[m].recs : m \in immutables \cup ({iter'[r].mem} \ {0})})
<1>1. /\ iter'[r].tabs = list
      /\ iter'[r].mem = (IF Size(Current) > 0 THEN Current ELSE 0)
  BY DEF IteratorCreate, IInv, TypeOK, IterType
<1>2. mem[Len(mem)].recs # {} => iter'[r].mem = Len(mem) /\ Len(mem) # 0
  <2>1. mem[Len(mem)].recs \subseteq accepted /\ IsFiniteSet(accepted) /\ Len(mem) # 0
    BY Ranges DEF IInv, Grounded
  <2>2. IsFiniteSet(mem[Len(mem)].recs)
    BY <2>1, FS_Subset
  <2>3. mem[Len(mem)].recs # {} => Cardinality(mem[Len(mem)].recs) > 0
    BY <2>2, FS_EmptySet, FS_CardinalityType
  <2> QED
    BY <1>1, <2>1, <2>3 DEF Size, Current
<1>3. ASSUME NEW x \in accepted
      PROVE  \/ \E t \in list \cup compactor.inputs : x \in sst[t].recs
             \/ \E m \in immutables \cup ({iter'[r].mem} \ {0}) : x \in mem[m].recs
  <2>1. CASE \E t \in Held : x \in sst[t].recs
    BY <2>1 DEF Held
  <2>2. CASE \E m \in immutables \cup {Len(mem)} : x \in mem[m].recs
    BY <1>2, <2>2
  <2> QED
    BY <2>1, <2>2 DEF IInv, Kept
<1> QED
  BY <1>1, <1>3 DEF RecordsOf

\* What a new iterator does not cover is under way between memory and the list:
\* in a registered immutable memtable or in the inputs of a running merge.
THEOREM IteratorsMissLittle == Spec => IteratorMissesOnlyInTransit
<1> DEFINE Covers ==
      \A r \in Readers : (~iter[r].open /\ iter'[r].open) =>
        accepted \subseteq RecordsOf(iter'[r].tabs \cup compactor.inputs)
                           \cup (UNION {mem[m].recs : m \in immutables \cup ({iter'[r].mem} \ {0})})
<1>1. IInv /\ [Next]_vars => [Covers]_vars
  BY OnlyCreateOpens, CreateCovers
<1> QED
  BY <1>1, Invariance, PTL DEF Spec, IteratorMissesOnlyInTransit

---------------------------------------------------------------------------
(* References are counted exactly.                                         *)

OpenReaders == {r \in Readers : iter[r].open}

\* The readers that hold a memtable, or a table.
MemReaders(m) == {r \in Readers : iter[r].open /\ iter[r].mem = m}
TableReaders(t) == {r \in Readers : iter[r].open /\ t \in iter[r].tabs}

\* The engine itself has a reference to a memtable: it is the one in use, is
\* registered, or was unregistered by the flush daemon a moment ago.
MemOwned(m) ==
  \/ m \in immutables \cup {Len(mem)}
  \/ flusher.pc = "release" /\ m = flusher.mem

\* The engine itself has a reference to a table: it is listed, being merged,
\* to be deleted, or new.
Owned(t) ==
  \/ t \in Held \cup compactor.garbage
  \/ flusher.pc = "add" /\ t = flusher.tab
  \/ compactor.pc \in {"wait_active", "wait_count", "add"} /\ t = compactor.tab

\* A merge has an iterator on a table.
Merging(t) == compactor.pc \in {"wait_active", "wait_count"} /\ t \in compactor.inputs

\* lsmt_free drops the engine's own references to the listed tables.
OwnRef(t) == Owned(t) /\ writer.pc # "freed"

\* The daemons are gone when lsmt_free has joined them, and the memtable the
\* flush daemon is about to release is no longer in use.
JoinInv ==
  /\ writer.pc \in {"join_compact", "freed"} => flusher.pc = "exited"
  /\ writer.pc = "freed" => compactor.pc = "exited"
  /\ flusher.pc = "release" => flusher.mem \notin immutables \cup {Len(mem)}

MemRefs ==
  \A m \in 1..Len(mem) : mem[m].ref = Cardinality(MemReaders(m)) + One(MemOwned(m))

TableRefs ==
  \A t \in 1..Len(sst) :
    sst[t].ref = Cardinality(TableReaders(t)) + One(Merging(t)) + One(OwnRef(t))

\* A table is marked old when the engine has given it up, and from then on its
\* files exist as long as a reader holds it.
FilesInv ==
  /\ files = {t \in 1..Len(sst) : ~sst[t].old \/ sst[t].ref > 0}
  /\ \A t \in 1..Len(sst) : sst[t].old <=> ~Owned(t)

CountInv == JoinInv /\ IsFiniteSet(OpenReaders) /\ MemRefs /\ TableRefs /\ FilesInv

---------------------------------------------------------------------------
(* Lemmas on counting readers.                                             *)

\* The readers of a memtable or table are finitely many.
LEMMA ReadersFinite ==
  ASSUME IsFiniteSet(OpenReaders), NEW x
  PROVE  /\ IsFiniteSet(MemReaders(x)) /\ Cardinality(MemReaders(x)) \in Nat
         /\ IsFiniteSet(TableReaders(x)) /\ Cardinality(TableReaders(x)) \in Nat
<1>1. MemReaders(x) \subseteq OpenReaders /\ TableReaders(x) \subseteq OpenReaders
  BY DEF MemReaders, TableReaders, OpenReaders
<1>2. IsFiniteSet(MemReaders(x)) /\ IsFiniteSet(TableReaders(x))
  BY <1>1, FS_Subset
<1> QED
  BY <1>2, FS_CardinalityType

\* A new memtable or table has no reader.
LEMMA NewUnread ==
  ASSUME IInv
  PROVE  /\ \A m : m \notin 0..Len(mem) => Cardinality(MemReaders(m)) = 0
         /\ \A t : t \notin 1..Len(sst) => Cardinality(TableReaders(t)) = 0
<1>1. \A r \in Readers : iter[r].mem \in 0..Len(mem) /\ iter[r].tabs \subseteq 1..Len(sst)
  BY DEF IInv, TypeOK, IterType
<1>2. ASSUME NEW m, m \notin 0..Len(mem) PROVE Cardinality(MemReaders(m)) = 0
  <2>1. MemReaders(m) = {}
    BY <1>1, <1>2 DEF MemReaders
  <2> QED
    BY <2>1, FS_EmptySet
<1>3. ASSUME NEW t, t \notin 1..Len(sst) PROVE Cardinality(TableReaders(t)) = 0
  <2>1. TableReaders(t) = {}
    BY <1>1, <1>3 DEF TableReaders
  <2> QED
    BY <2>1, FS_EmptySet
<1> QED
  BY <1>2, <1>3

\* One reader more, or one less.
LEMMA OneReader ==
  ASSUME NEW S, IsFiniteSet(S), NEW r
  PROVE  /\ r \notin S => Cardinality(S \cup {r}) = Cardinality(S) + 1
         /\ r \in S => Cardinality(S \ {r}) = Cardinality(S) - 1
         /\ IsFiniteSet(S \cup {r}) /\ IsFiniteSet(S \ {r})
BY FS_AddElement, FS_RemoveElement

---------------------------------------------------------------------------
(* Steps that move no reference.                                           *)

\* What the engine and the merge refer to stays the same.
RefsKept ==
  /\ UNCHANGED <<sst, mem, iter, files>>
  /\ \A t : Owned(t)' <=> Owned(t)
  /\ \A t : Merging(t)' <=> Merging(t)
  /\ \A m : MemOwned(m)' <=> MemOwned(m)
  /\ writer'.pc = "freed" <=> writer.pc = "freed"

\* Such a step keeps the counts exact, as long as the threads stay joined.
LEMMA CountKept ==
  ASSUME IInv, CountInv, JoinInv', RefsKept
  PROVE  CountInv'
<1>1. /\ OpenReaders' = OpenReaders /\ \A m : MemReaders(m)' = MemReaders(m)
      /\ \A t : TableReaders(t)' = TableReaders(t)
  BY DEF RefsKept, OpenReaders, MemReaders, TableReaders
<1>2. \A t : OwnRef(t)' <=> OwnRef(t)
  BY DEF RefsKept, OwnRef
<1>3. MemRefs'
  BY <1>1 DEF CountInv, MemRefs, RefsKept, One
<1>4. TableRefs'
  BY <1>1, <1>2 DEF CountInv, TableRefs, RefsKept, One
<1>5. FilesInv'
  BY DEF CountInv, FilesInv, RefsKept
<1> QED
  BY <1>1, <1>3, <1>4, <1>5 DEF CountInv

\* The writer's steps that only move it on, or set a flag.
LEMMA CountWriter ==
  ASSUME IInv, CountInv,
         \/ \E k \in Keys \cup {ReservedKey} : InsertBlocked(k)
         \/ InsertWait \/ InsertSignal \/ FlushPool \/ FlushSignal \/ FlushCheck
         \/ SpuriousWakeup \/ Free \/ FreeJoinFlush
  PROVE  CountInv'
<1> USE DEF InsertBlocked, InsertWait, InsertSignal, FlushPool, FlushSignal, FlushCheck,
            SpuriousWakeup, Free, FreeJoinFlush
<1>1. UNCHANGED <<mem, immutables, sst, list, files, iter, flusher, compactor>>
  OBVIOUS
<1>2. /\ writer.pc # "freed" /\ writer'.pc # "freed"
      /\ writer'.pc = "join_compact" => flusher.pc = "exited"
  <2>1. writer \in [pc : WriterPC, key : Keys \cup {ReservedKey}]
    BY DEF IInv, TypeOK, WriterType
  <2>2. writer.pc # "freed"
    BY DEF Inserting
  <2> QED
    BY <2>1, <2>2 DEF Idle, Woken
<1>3. JoinInv'
  BY <1>1, <1>2 DEF CountInv, JoinInv
<1>4. RefsKept
  BY <1>1, <1>2 DEF RefsKept, Owned, Merging, MemOwned, Held
<1> QED
  BY <1>3, <1>4, CountKept

\* The flush daemon's steps that concern no table or memtable, and the listing
\* of a table it owned before.
LEMMA CountFlusher ==
  ASSUME IInv, CountInv,
         \/ FlushDaemonWake \/ FlushScan \/ FlushIdle \/ FlushAdd \/ FlushPersist
         \/ FlushWrite /\ mem[flusher.mem].recs = {}
         \/ FlushUnregister \/ FlushNotifyCompaction \/ FlushNotifyPool
  PROVE  CountInv'
<1> USE DEF FlushDaemonWake, FlushScan, FlushIdle, FlushAdd, FlushPersist, FlushWrite,
            FlushUnregister, FlushNotifyCompaction, FlushNotifyPool
<1>1. UNCHANGED <<mem, sst, files, iter, compactor>>
  OBVIOUS
<1>2. flusher \in [pc : FlusherPC, mem : 0..Len(mem), tab : 0..Len(sst), gen : Nat,
                   copy : SUBSET (1..Len(sst))]
  BY DEF IInv, TypeOK, FlusherType
<1>3. writer' = writer \/ writer' = Woken(writer)
  OBVIOUS
<1>4. flusher.pc # "exited" /\ flusher.pc # "release"
  OBVIOUS
<1>5. writer.pc \notin {"join_compact", "freed"} /\ writer'.pc \notin {"join_compact", "freed"}
  <2>1. writer.pc \notin {"join_compact", "freed"}
    BY <1>4 DEF CountInv, JoinInv
  <2>2. writer \in [pc : WriterPC, key : Keys \cup {ReservedKey}]
    BY DEF IInv, TypeOK, WriterType
  <2> QED
    BY <1>3, <2>1, <2>2 DEF Woken
<1>6. CASE FlushUnregister
  <2>1. /\ list' = list /\ immutables' = immutables \ {flusher.mem} /\ flusher'.pc = "release"
        /\ flusher'.mem = flusher.mem /\ flusher.pc = "unregister"
    BY <1>2, <1>6 DEF Shifted
  <2>2. flusher.mem \in immutables /\ Len(mem) \notin immutables
    BY <2>1, Ranges DEF IInv, FlusherInv
  <2>3. JoinInv'
    BY <1>1, <1>5, <2>1, <2>2 DEF JoinInv
  <2>4. RefsKept
    BY <1>1, <1>5, <2>1, <2>2 DEF RefsKept, Owned, Merging, MemOwned, Held
  <2> QED
    BY <2>3, <2>4, CountKept
<1>7. CASE FlushAdd
  <2>1. /\ list' = list \cup {flusher.tab} /\ immutables' = immutables
        /\ flusher.pc = "add" /\ flusher'.pc = "persist"
    BY <1>2, <1>7 DEF AddTable
  <2>2. JoinInv'
    BY <1>1, <1>5, <2>1 DEF JoinInv
  <2>3. RefsKept
    BY <1>1, <1>5, <2>1 DEF RefsKept, Owned, Merging, MemOwned, Held
  <2> QED
    BY <2>2, <2>3, CountKept
<1>8. CASE ~FlushUnregister /\ ~FlushAdd
  <2>1. /\ list' = list /\ immutables' = immutables
    BY <1>8
  <2>2. flusher.pc \notin {"add", "release"} /\ flusher'.pc \notin {"add", "release"}
    <3>1. CASE FlushIdle
      BY <3>1 DEF NoJob
    <3>2. CASE ~FlushIdle
      BY <1>2, <1>8, <3>2
    <3> QED
      BY <3>1, <3>2
  <2>3. JoinInv'
    BY <1>1, <1>5, <2>1, <2>2 DEF JoinInv
  <2>4. RefsKept
    BY <1>1, <1>5, <2>1, <2>2 DEF RefsKept, Owned, Merging, MemOwned, Held
  <2> QED
    BY <2>3, <2>4, CountKept
<1> QED
  BY <1>6, <1>7, <1>8

\* The compaction daemon's steps that take or drop no reference.
LEMMA CountCompactor ==
  ASSUME IInv, CountInv, CompactorStep, ~MergeOpen, ~MergeFinish, ~CompactDelete
  PROVE  CountInv'
<1> USE DEF CompactionDaemonWake, CompactStart, TierFits, TierPop, MergePollActive,
            MergePollCount, MergeWrite, CompactAdd, CompactCopy, CompactPersist
<1>1. UNCHANGED <<mem, immutables, sst, files, iter, flusher, writer>>
  BY DEF CompactorStep
<1>2. compactor \in CompactorSet(Len(sst)) /\ CompactorInv
  BY DEF IInv, TypeOK, CompactorType, CompactorSet
<1>3. compactor.pc # "exited" /\ writer.pc # "freed" /\ writer'.pc # "freed"
  <2>1. compactor.pc # "exited"
    BY DEF CompactorStep
  <2> QED
    BY <1>1, <2>1 DEF CountInv, JoinInv
<1>4. JoinInv'
  BY <1>1, <1>3 DEF CountInv, JoinInv
<1>5. CASE MergePollActive \/ MergePollCount \/ MergeWrite
  <2>1. /\ compactor.pc \in {"wait_active", "wait_count"}
        /\ compactor'.pc \in {"wait_active", "wait_count"}
        /\ compactor'.inputs = compactor.inputs /\ compactor'.garbage = compactor.garbage
        /\ compactor'.tab = compactor.tab /\ list' = list
    BY <1>2, <1>5 DEF CompactorSet
  <2>2. RefsKept
    BY <1>1, <1>3, <2>1 DEF RefsKept, Owned, Merging, MemOwned, Held
  <2> QED
    BY <1>4, <2>2, CountKept
<1>6. CASE CompactAdd
  <2> DEFINE c == [compactor EXCEPT !.inputs = {}, !.tab = 0, !.garbage = @ \cup compactor.inputs]
  <2>1. /\ c \in CompactorSet(Len(sst)) /\ c.inputs = {}
        /\ c.garbage = compactor.garbage \cup compactor.inputs
    <3>1. 0 \in 0..Len(sst)
      BY Ranges
    <3> QED
      BY <1>2, <3>1 DEF CompactorSet
  <2>2. /\ compactor' = NextTier(c) /\ compactor.pc = "add" /\ list' = list \cup {compactor.tab}
    BY <1>6 DEF AddTable
  <2> HIDE DEF c
  <2>3. /\ compactor'.pc \in {"tier", "copy", "idle"} /\ compactor'.inputs = {}
        /\ compactor'.garbage = compactor.garbage \cup compactor.inputs
    BY <2>1, <2>2, NextTierFields
  <2>4. RefsKept
    BY <1>1, <1>3, <2>2, <2>3 DEF RefsKept, Owned, Merging, MemOwned, Held
  <2> QED
    BY <1>4, <2>4, CountKept
<1>7. CASE ~MergePollActive /\ ~MergePollCount /\ ~MergeWrite /\ ~CompactAdd
  <2>1. /\ compactor.pc \in {"idle", "start", "tier", "copy", "persist"}
        /\ compactor.inputs = {}
    BY <1>2, <1>7 DEF CompactorStep, CompactorInv
  <2>2. /\ compactor'.pc \in {"idle", "exited", "start", "tier", "copy", "persist", "delete",
                              "abort", "merge"}
        /\ Held' = Held /\ compactor'.garbage = compactor.garbage
    <3>1. CASE TierPop
      BY <3>1, TierPopHeld
    <3>2. CASE TierFits
      BY <1>2, <2>1, <3>2, NextTierFields DEF Held
    <3>3. CASE ~TierFits /\ ~TierPop
      BY <1>2, <1>7, <3>3 DEF CompactorStep, CompactorSet, Held
    <3> QED
      BY <3>1, <3>2, <3>3
  <2>3. RefsKept
    BY <1>1, <1>3, <2>1, <2>2 DEF RefsKept, Owned, Merging, MemOwned
  <2> QED
    BY <1>4, <2>3, CountKept
<1> QED
  BY <1>5, <1>6, <1>7

---------------------------------------------------------------------------
(* Steps that move references to memtables.                                *)

\* A step that leaves the tables and who refers to them alone.
LEMMA TableCountKept ==
  ASSUME CountInv, UNCHANGED <<sst, list, files, compactor, iter>>,
         flusher'.pc = "add" <=> flusher.pc = "add",
         flusher'.pc = "add" => flusher'.tab = flusher.tab,
         writer'.pc = "freed" <=> writer.pc = "freed"
  PROVE  TableRefs' /\ FilesInv'
<1>1. \A t : (Owned(t)' <=> Owned(t)) /\ (OwnRef(t)' <=> OwnRef(t)) /\ (Merging(t)' <=> Merging(t))
  BY DEF Owned, OwnRef, Merging, Held
<1>2. \A t : TableReaders(t)' = TableReaders(t)
  BY DEF TableReaders
<1>3. TableRefs'
  BY <1>1, <1>2 DEF CountInv, TableRefs, One
<1>4. FilesInv'
  BY <1>1 DEF CountInv, FilesInv
<1> QED
  BY <1>3, <1>4

\* A record is inserted, or a memtable registered and replaced.
LEMMA CountGrown ==
  ASSUME IInv, CountInv, NEW N, Grown(N), writer'.pc \notin {"freed", "join_compact"},
         writer.pc # "freed"
  PROVE  CountInv'
<1>1. UNCHANGED <<sst, list, files, flusher, compactor, iter>>
  BY DEF Grown
<1>2. TableRefs' /\ FilesInv'
  BY <1>1, TableCountKept
<1>3. /\ Len(mem) \in Nat /\ Len(mem) \in 1..Len(mem) /\ immutables \subseteq 1..Len(mem)
      /\ Len(mem') = Len(mem) \/ Len(mem') = Len(mem) + 1
  BY Ranges DEF Grown
<1>4. OpenReaders' = OpenReaders /\ \A m : MemReaders(m)' = MemReaders(m)
  BY <1>1 DEF OpenReaders, MemReaders
<1>5. JoinInv'
  <2>1. flusher.pc = "release" => flusher.mem \notin immutables' \cup {Len(mem')}
    BY <1>3 DEF IInv, FlusherInv, CountInv, JoinInv, Grown
  <2> QED
    BY <1>1, <2>1 DEF JoinInv
<1>6. ASSUME NEW m \in 1..Len(mem')
      PROVE  mem'[m].ref = Cardinality(MemReaders(m)) + One(MemOwned(m)')
  <2>1. CASE m \in 1..Len(mem)
    <3>1. MemOwned(m)' <=> MemOwned(m)
      BY <1>1, <1>3, <2>1 DEF MemOwned, Grown
    <3>2. mem'[m].ref = mem[m].ref
      BY <2>1 DEF Grown
    <3> QED
      BY <2>1, <3>1, <3>2 DEF CountInv, MemRefs, One
  <2>2. CASE m \notin 1..Len(mem)
    <3>1. m = Len(mem') /\ Len(mem') = Len(mem) + 1
      BY <1>3, <2>2
    <3>2. mem'[m].ref = 1 /\ MemOwned(m)'
      BY <1>3, <3>1 DEF MemOwned, Grown
    <3>3. Cardinality(MemReaders(m)) = 0
      BY <1>3, <3>1, NewUnread
    <3> QED
      BY <3>2, <3>3 DEF One
  <2> QED
    BY <2>1, <2>2
<1>7. MemRefs'
  BY <1>4, <1>6 DEF MemRefs
<1> QED
  BY <1>2, <1>4, <1>5, <1>7 DEF CountInv

\* The flush daemon drops the engine's reference to the memtable it flushed.
LEMMA CountFlushRelease ==
  ASSUME IInv, CountInv, FlushRelease
  PROVE  CountInv'
<1>1. UNCHANGED <<immutables, sst, list, files, compactor, iter, writer>>
  BY DEF FlushRelease
<1>2. /\ flusher.pc = "release" /\ flusher'.pc \in {"notify_pool", "notify_compact"}
      /\ writer.pc \notin {"join_compact", "freed"}
  BY DEF FlushRelease, NoJob, CountInv, JoinInv
<1>3. flusher.mem \in 0..Len(mem) /\ flusher.mem # 0 /\ flusher.mem \in 1..Len(mem)
  <2>1. flusher.mem \in 1..Len(mem) /\ Len(mem) \in Nat
    BY <1>2, Ranges DEF IInv, FlusherInv
  <2> QED
    BY <2>1
<1>4. MemCounted(flusher.mem, -1)
  BY <1>3, MemReference DEF IInv, FlushRelease
<1>5. TableRefs' /\ FilesInv'
  BY <1>1, <1>2, TableCountKept
<1>6. JoinInv'
  BY <1>1, <1>2 DEF JoinInv
<1>7. OpenReaders' = OpenReaders /\ \A m : MemReaders(m)' = MemReaders(m)
  BY <1>1 DEF OpenReaders, MemReaders
<1>8. ASSUME NEW m \in 1..Len(mem)
      PROVE  mem'[m].ref = Cardinality(MemReaders(m)) + One(MemOwned(m)')
  <2>1. Len(mem') = Len(mem) /\ mem'[m].ref = mem[m].ref + (-1) * One(m = flusher.mem)
    BY <1>4 DEF MemCounted, MemsKept
  <2>2. MemOwned(m)' <=> m \in immutables \cup {Len(mem)}
    BY <1>1, <1>2, <2>1 DEF MemOwned
  <2>3. MemOwned(m) <=> m \in immutables \cup {Len(mem)} \/ m = flusher.mem
    BY <1>2 DEF MemOwned
  <2>4. flusher.mem \notin immutables \cup {Len(mem)}
    BY <1>2 DEF CountInv, JoinInv
  <2>5. mem[m].ref = Cardinality(MemReaders(m)) + One(MemOwned(m)) /\ Cardinality(MemReaders(m)) \in Nat
    BY ReadersFinite DEF CountInv, MemRefs
  <2> QED
    BY <2>1, <2>2, <2>3, <2>4, <2>5 DEF One
<1>9. MemRefs'
  BY <1>4, <1>7, <1>8 DEF MemRefs, MemCounted, MemsKept
<1> QED
  BY <1>5, <1>6, <1>7, <1>9 DEF CountInv

---------------------------------------------------------------------------
(* Steps that move references to tables.                                   *)

\* A step that leaves the memtables and who refers to them alone.
LEMMA MemCountKept ==
  ASSUME CountInv, UNCHANGED <<mem, immutables, iter>>,
         flusher' = flusher \/ (flusher.pc # "release" /\ flusher'.pc # "release")
  PROVE  MemRefs' /\ IsFiniteSet(OpenReaders)'
<1>1. OpenReaders' = OpenReaders /\ \A m : MemReaders(m)' = MemReaders(m)
  BY DEF OpenReaders, MemReaders
<1>2. \A m : MemOwned(m)' <=> MemOwned(m)
  BY DEF MemOwned
<1> QED
  BY <1>1, <1>2 DEF CountInv, MemRefs, One

\* A table is created by its only owner; a merge retains its inputs.
LEMMA CountCreated ==
  ASSUME IInv, CountInv, JoinInv', NEW T, Created(T), NEW n, n = Len(sst) + 1,
         UNCHANGED <<mem, immutables, iter>>, writer.pc # "freed", writer'.pc # "freed",
         flusher' = flusher \/ (flusher.pc # "release" /\ flusher'.pc # "release"),
         \A t \in 1..Len(sst) : /\ Owned(t)' <=> Owned(t)
                                /\ One(Merging(t)') = One(Merging(t)) + One(t \in T),
         Owned(n)', ~Merging(n)'
  PROVE  CountInv'
<1>1. MemRefs' /\ IsFiniteSet(OpenReaders)'
  BY MemCountKept
<1>2. Len(sst) \in Nat /\ \A t : TableReaders(t)' = TableReaders(t)
  BY Ranges DEF TableReaders
<1>3. \A t \in 1..Len(sst') : t \in 1..Len(sst) \/ t = n
  BY <1>2 DEF Created
<1>4. ASSUME NEW t \in 1..Len(sst)
      PROVE  /\ sst'[t].ref = Cardinality(TableReaders(t)) + One(Merging(t)') + One(OwnRef(t)')
             /\ sst'[t].ref = sst[t].ref + One(t \in T)
  <2>1. sst[t].ref = Cardinality(TableReaders(t)) + One(Merging(t)) + One(OwnRef(t))
        /\ Cardinality(TableReaders(t)) \in Nat
    BY ReadersFinite DEF CountInv, TableRefs
  <2>2. OwnRef(t)' <=> OwnRef(t)
    BY DEF OwnRef
  <2>3. One(OwnRef(t)') = One(OwnRef(t)) /\ One(OwnRef(t)) \in Nat /\ One(Merging(t)) \in Nat
        /\ One(t \in T) \in Nat
    BY <2>2 DEF One
  <2>4. sst'[t].ref = sst[t].ref + One(t \in T) /\ One(Merging(t)') = One(Merging(t)) + One(t \in T)
    BY DEF Created
  <2> QED
    BY <2>1, <2>3, <2>4
<1>5. sst'[n].ref = Cardinality(TableReaders(n)) + One(Merging(n)') + One(OwnRef(n)')
  <2>1. Cardinality(TableReaders(n)) = 0
    BY <1>2, NewUnread
  <2>2. sst'[n].ref = 1 /\ OwnRef(n)' /\ ~Merging(n)'
    BY DEF Created, OwnRef
  <2> QED
    BY <2>1, <2>2 DEF One
<1>6. TableRefs'
  BY <1>2, <1>3, <1>4, <1>5 DEF TableRefs
<1>7. FilesInv'
  <2>1. \A t \in 1..Len(sst) : sst'[t].old = sst[t].old /\ (sst[t].old => t \notin T)
    <3>1. ASSUME NEW t \in 1..Len(sst), sst[t].old, t \in T PROVE FALSE
      <4>1. ~Owned(t) /\ ~Merging(t)
        BY <3>1 DEF CountInv, FilesInv, Owned, Merging, Held
      <4>2. One(Merging(t)') = 1
        BY <3>1, <4>1 DEF One
      <4>3. Merging(t)' /\ Owned(t)'
        BY <4>2 DEF One, Merging, Owned, Held
      <4> QED
        BY <4>1, <4>3
    <3> QED
      BY <3>1 DEF Created
  <2>2. \A t \in 1..Len(sst) : sst[t].old => sst'[t].ref = sst[t].ref
    <3> SUFFICES ASSUME NEW t \in 1..Len(sst), sst[t].old PROVE sst'[t].ref = sst[t].ref
      OBVIOUS
    <3>1. sst \in [1..Len(sst) -> SSTable]
      BY DEF IInv, TypeOK, TableType
    <3>2. sst[t].ref \in Int
      BY <3>1 DEF SSTable
    <3> QED
      BY <1>4, <2>1, <3>2 DEF One
  <2>3. \A t \in 1..Len(sst) : t \in files <=> (~sst'[t].old \/ sst'[t].ref > 0)
    BY <2>1, <2>2 DEF CountInv, FilesInv
  <2>4. n \notin files /\ files \subseteq 1..Len(sst)
    BY <1>2, Ranges
  <2>5. files' = {t \in 1..Len(sst') : ~sst'[t].old \/ sst'[t].ref > 0}
    <3>1. files' = files \cup {n} /\ Len(sst') = n /\ ~sst'[n].old
      BY DEF Created
    <3>2. 1..Len(sst') = 1..Len(sst) \cup {n}
      BY <1>2, <3>1
    <3> QED
      BY <2>3, <2>4, <3>1, <3>2
  <2>6. \A t \in 1..Len(sst') : sst'[t].old <=> ~Owned(t)'
    BY <1>3, <2>1 DEF CountInv, FilesInv, Created
  <2> QED
    BY <2>5, <2>6 DEF FilesInv
<1> QED
  BY <1>1, <1>6, <1>7 DEF CountInv

\* The flush daemon writes a table.
LEMMA CountFlushWrite ==
  ASSUME IInv, CountInv, FlushWrite, mem[flusher.mem].recs # {}
  PROVE  CountInv'
<1>0. PICK n : n = Len(sst) + 1
  OBVIOUS
<1>1. UNCHANGED <<mem, immutables, list, compactor, iter, writer>>
  BY DEF FlushWrite
<1>2. Created({})
  BY CreateTable
<1>3. flusher.pc = "write" /\ flusher'.pc = "add" /\ flusher'.tab = n
  BY <1>0 DEF FlushWrite, IInv, TypeOK, FlusherType
<1>4. JoinInv' /\ writer.pc # "freed"
  BY <1>1, <1>3 DEF CountInv, JoinInv
<1>5. n \notin 1..Len(sst) /\ compactor.inputs \subseteq 1..Len(sst)
  BY <1>0, Ranges
<1>6. ASSUME NEW t \in 1..Len(sst)
      PROVE  /\ Owned(t)' <=> Owned(t)
             /\ One(Merging(t)') = One(Merging(t)) + One(t \in {})
  <2>1. (Owned(t)' <=> Owned(t)) /\ (Merging(t)' <=> Merging(t))
    BY <1>1, <1>3, <1>5 DEF Owned, Merging, Held
  <2> QED
    BY <2>1 DEF One
<1>7. Owned(n)' /\ ~Merging(n)'
  BY <1>1, <1>3, <1>5 DEF Owned, Merging
<1> QED
  BY <1>0, <1>1, <1>2, <1>3, <1>4, <1>6, <1>7, CountCreated

\* A merge opens iterators on its inputs and creates its output.
LEMMA CountMergeOpen ==
  ASSUME IInv, CountInv, MergeOpen
  PROVE  CountInv'
<1>0. PICK n : n = Len(sst) + 1
  OBVIOUS
<1>1. UNCHANGED <<mem, immutables, list, flusher, iter, writer>>
  BY DEF MergeOpen
<1>2. Created(compactor.inputs)
  BY CreateTable
<1>3. /\ compactor.pc = "merge" /\ compactor'.pc = "wait_active" /\ compactor'.tab = n
      /\ compactor'.inputs = compactor.inputs /\ compactor'.garbage = compactor.garbage
  BY <1>0 DEF MergeOpen, IInv, TypeOK, CompactorType
<1>4. JoinInv' /\ writer.pc # "freed"
  BY <1>1, <1>3 DEF CountInv, JoinInv
<1>5. n \notin 1..Len(sst) /\ compactor.inputs \subseteq 1..Len(sst)
  BY <1>0, Ranges
<1>6. ASSUME NEW t \in 1..Len(sst)
      PROVE  /\ Owned(t)' <=> Owned(t)
             /\ One(Merging(t)') = One(Merging(t)) + One(t \in compactor.inputs)
  <2>1. (Owned(t)' <=> Owned(t)) /\ (Merging(t)' <=> t \in compactor.inputs) /\ ~Merging(t)
    BY <1>1, <1>3, <1>5 DEF Owned, Merging, Held
  <2> QED
    BY <2>1 DEF One
<1>7. Owned(n)' /\ ~Merging(n)'
  BY <1>1, <1>3, <1>5 DEF Owned, Merging
<1> QED
  BY <1>0, <1>1, <1>2, <1>4, <1>6, <1>7, CountCreated

\* References are dropped where their holders give them up.
LEMMA CountDropped ==
  ASSUME IInv, CountInv, JoinInv', UNCHANGED <<mem, immutables, iter, flusher>>,
         Len(sst') = Len(sst), files' \subseteq 1..Len(sst),
         \A t \in 1..Len(sst) :
           /\ sst'[t].ref = sst[t].ref + (One(Merging(t)') - One(Merging(t)))
                                       + (One(OwnRef(t)') - One(OwnRef(t)))
           /\ sst'[t].old <=> ~Owned(t)'
           /\ t \in files' <=> ~sst'[t].old \/ sst'[t].ref > 0
  PROVE  CountInv'
<1>1. MemRefs' /\ IsFiniteSet(OpenReaders)'
  BY MemCountKept
<1>2. \A t : TableReaders(t)' = TableReaders(t)
  BY DEF TableReaders
<1>3. ASSUME NEW t \in 1..Len(sst)
      PROVE  sst'[t].ref = Cardinality(TableReaders(t)) + One(Merging(t)') + One(OwnRef(t)')
  <2>1. /\ sst[t].ref = Cardinality(TableReaders(t)) + One(Merging(t)) + One(OwnRef(t))
        /\ Cardinality(TableReaders(t)) \in Nat
    BY ReadersFinite DEF CountInv, TableRefs
  <2>2. One(Merging(t)) \in Nat /\ One(OwnRef(t)) \in Nat /\ One(Merging(t)') \in Nat
        /\ One(OwnRef(t)') \in Nat
    BY DEF One
  <2> QED
    BY <2>1, <2>2, SMTT(30)
<1>4. TableRefs'
  BY <1>2, <1>3 DEF TableRefs
<1>5. FilesInv'
  BY DEF FilesInv
<1> QED
  BY <1>1, <1>4, <1>5 DEF CountInv

\* What a table's count says, by itself.
LEMMA CountBounds ==
  ASSUME IInv, CountInv, NEW t \in 1..Len(sst)
  PROVE  /\ sst[t].ref \in Nat /\ sst[t].ref >= One(Merging(t)) + One(OwnRef(t))
         /\ sst[t].old <=> ~Owned(t)
         /\ t \in files <=> ~sst[t].old \/ sst[t].ref > 0
         /\ Merging(t) => Owned(t)
<1>1. /\ sst[t].ref = Cardinality(TableReaders(t)) + One(Merging(t)) + One(OwnRef(t))
      /\ Cardinality(TableReaders(t)) \in Nat
  BY ReadersFinite DEF CountInv, TableRefs
<1>2. One(Merging(t)) \in Nat /\ One(OwnRef(t)) \in Nat
  BY DEF One
<1>3. Merging(t) => Owned(t)
  BY DEF Merging, Owned, Held
<1> QED
  BY <1>1, <1>2, <1>3 DEF CountInv, FilesInv

\* A finished merge closes its iterators.
LEMMA CountMergeFinish ==
  ASSUME IInv, CountInv, MergeFinish
  PROVE  CountInv'
<1>1. UNCHANGED <<mem, immutables, list, flusher, iter, writer>>
  BY DEF MergeFinish
<1>2. /\ compactor.pc = "wait_count" /\ compactor'.pc = "add" /\ compactor'.tab = compactor.tab
      /\ compactor'.inputs = compactor.inputs /\ compactor'.garbage = compactor.garbage
  BY DEF MergeFinish, IInv, TypeOK, CompactorType
<1>3. JoinInv' /\ writer.pc # "freed"
  BY <1>1, <1>2 DEF CountInv, JoinInv
<1>4. /\ Len(sst') = Len(sst)
      /\ \A t \in 1..Len(sst) :
           /\ sst'[t].old = sst[t].old
           /\ sst'[t].ref = sst[t].ref + (-1) * One(t \in compactor.inputs)
  BY MergeFinishTables
<1>5. files' = files /\ files \subseteq 1..Len(sst)
  <2>1. Removed(sst, compactor.inputs) = {}
    BY DEF Removed, IInv, TableInv, Held
  <2> QED
    BY <2>1, Ranges DEF MergeFinish
<1>6. ASSUME NEW t \in 1..Len(sst)
      PROVE  /\ sst'[t].ref = sst[t].ref + (One(Merging(t)') - One(Merging(t)))
                                         + (One(OwnRef(t)') - One(OwnRef(t)))
             /\ sst'[t].old <=> ~Owned(t)'
             /\ t \in files' <=> ~sst'[t].old \/ sst'[t].ref > 0
  <2>1. /\ Owned(t)' <=> Owned(t)
        /\ OwnRef(t)' <=> OwnRef(t)
        /\ Merging(t) <=> t \in compactor.inputs
        /\ ~Merging(t)'
    BY <1>1, <1>2 DEF Owned, OwnRef, Merging, Held
  <2>2. sst[t].ref \in Nat
    BY CountBounds
  <2>3. sst'[t].ref = sst[t].ref + (One(Merging(t)') - One(Merging(t)))
                                 + (One(OwnRef(t)') - One(OwnRef(t)))
    BY <1>4, <2>1, <2>2 DEF One
  <2>4. sst[t].old => sst'[t].ref = sst[t].ref
    BY <1>4, <2>1, <2>2, CountBounds DEF One
  <2> QED
    BY <1>4, <1>5, <2>1, <2>3, <2>4, CountBounds
<1> QED
  BY <1>1, <1>3, <1>4, <1>5, <1>6, CountDropped

\* The merged tables are given up; a reader's keep their files.
LEMMA CountCompactDelete ==
  ASSUME IInv, CountInv, CompactDelete
  PROVE  CountInv'
<1>1. UNCHANGED <<mem, immutables, list, flusher, iter, writer>>
  BY DEF CompactDelete
<1>2. /\ compactor.pc = "delete" /\ compactor.inputs = {}
      /\ compactor'.pc = "idle" /\ compactor'.inputs = {} /\ compactor'.garbage = {}
  BY DEF CompactDelete, NoCompaction, IInv, CompactorInv
<1>3. JoinInv' /\ writer.pc # "freed"
  BY <1>1, <1>2 DEF CountInv, JoinInv
<1>4. /\ Len(sst') = Len(sst)
      /\ \A t \in 1..Len(sst) :
           /\ sst'[t].old = (sst[t].old \/ t \in compactor.garbage)
           /\ sst'[t].ref = sst[t].ref + (-1) * One(t \in compactor.garbage)
      /\ files' = files \ {t \in compactor.garbage : sst[t].ref = 1}
  BY CompactDeleteTables
<1>5. files \subseteq 1..Len(sst) /\ files' \subseteq 1..Len(sst)
  BY <1>4, Ranges
<1>6. ASSUME NEW t \in 1..Len(sst)
      PROVE  /\ sst'[t].ref = sst[t].ref + (One(Merging(t)') - One(Merging(t)))
                                         + (One(OwnRef(t)') - One(OwnRef(t)))
             /\ sst'[t].old <=> ~Owned(t)'
             /\ t \in files' <=> ~sst'[t].old \/ sst'[t].ref > 0
  <2>1. t \in compactor.garbage => t \notin Held /\ ~(flusher.pc = "add" /\ t = flusher.tab)
    BY DEF IInv, TableInv, FlusherInv, Fresh
  <2>2. /\ Owned(t)' <=> Owned(t) /\ t \notin compactor.garbage
        /\ OwnRef(t)' <=> Owned(t)'
        /\ OwnRef(t) <=> Owned(t)
        /\ t \in compactor.garbage => Owned(t)
        /\ ~Merging(t) /\ ~Merging(t)'
    BY <1>1, <1>2, <1>3, <2>1 DEF Owned, OwnRef, Merging, Held
  <2>3. /\ sst[t].ref \in Nat /\ (OwnRef(t) => sst[t].ref >= 1)
        /\ sst[t].old <=> ~Owned(t)
        /\ t \in files <=> ~sst[t].old \/ sst[t].ref > 0
    BY CountBounds DEF One
  <2>4. sst'[t].ref = sst[t].ref + (One(Merging(t)') - One(Merging(t)))
                                 + (One(OwnRef(t)') - One(OwnRef(t)))
    BY <1>4, <2>2, <2>3 DEF One
  <2>5. sst'[t].old <=> ~Owned(t)'
    BY <1>4, <2>2, <2>3
  <2>6. t \in files' <=> ~sst'[t].old \/ sst'[t].ref > 0
    <3>1. CASE t \in compactor.garbage
      <4>0. sst'[t].ref = sst[t].ref + (-1) * One(t \in compactor.garbage)
        BY <1>4
      <4>1. sst'[t].ref = sst[t].ref - 1 /\ sst'[t].old
        BY <2>2, <2>3, <2>5, <3>1, <4>0 DEF One
      <4>2. t \in files /\ sst[t].ref >= 1
        BY <2>2, <2>3, <3>1
      <4> QED
        BY <1>4, <2>3, <3>1, <4>1, <4>2
    <3>2. CASE t \notin compactor.garbage
      <4>0. sst'[t].ref = sst[t].ref + (-1) * One(t \in compactor.garbage)
        BY <1>4
      <4>1. sst'[t].ref = sst[t].ref /\ (sst'[t].old <=> sst[t].old)
        BY <2>2, <2>3, <2>5, <3>2, <4>0 DEF One
      <4> QED
        BY <1>4, <2>3, <3>2, <4>1
    <3> QED
      BY <3>1, <3>2
  <2> QED
    BY <2>4, <2>5, <2>6
<1> QED
  BY <1>1, <1>3, <1>4, <1>5, <1>6, CountDropped

\* lsmt_free releases the listed tables, all that the engine still owns.
LEMMA CountFreeJoinCompact ==
  ASSUME IInv, CompactionInv, CountInv, FreeJoinCompact
  PROVE  CountInv'
<1>1. UNCHANGED <<mem, immutables, list, flusher, compactor, iter>>
  BY DEF FreeJoinCompact
<1>2. /\ writer.pc = "join_compact" /\ writer'.pc = "freed" /\ compactor.pc = "exited"
      /\ flusher.pc = "exited"
  BY DEF FreeJoinCompact, Idle, CountInv, JoinInv
<1>3. JoinInv'
  BY <1>1, <1>2 DEF JoinInv
<1>4. compactor.inputs = {} /\ compactor.garbage = {}
  BY <1>2 DEF CompactionInv, IInv, CompactorInv
<1>5. Counted(list, -1)
  BY RetainRelease DEF FreeJoinCompact, IInv
<1>6. files' = files /\ files \subseteq 1..Len(sst)
  <2>1. Removed(sst, list) = {}
    BY DEF Removed, IInv, TableInv, Held
  <2> QED
    BY <2>1, Ranges DEF FreeJoinCompact
<1>7. ASSUME NEW t \in 1..Len(sst)
      PROVE  /\ sst'[t].ref = sst[t].ref + (One(Merging(t)') - One(Merging(t)))
                                         + (One(OwnRef(t)') - One(OwnRef(t)))
             /\ sst'[t].old <=> ~Owned(t)'
             /\ t \in files' <=> ~sst'[t].old \/ sst'[t].ref > 0
  <2>1. /\ Owned(t)' <=> t \in list
        /\ Owned(t) <=> t \in list
        /\ ~OwnRef(t)'
        /\ OwnRef(t) <=> t \in list
        /\ ~Merging(t) /\ ~Merging(t)'
    BY <1>1, <1>2, <1>4 DEF Owned, OwnRef, Merging, Held
  <2>2. sst'[t].ref = sst[t].ref + (-1) * One(t \in list) /\ sst'[t].old = sst[t].old
    BY <1>5 DEF Counted
  <2>3. sst[t].ref \in Nat
    BY CountBounds
  <2>4. sst'[t].ref = sst[t].ref + (One(Merging(t)') - One(Merging(t)))
                                 + (One(OwnRef(t)') - One(OwnRef(t)))
    BY <2>1, <2>2, <2>3 DEF One
  <2>5. sst[t].old => sst'[t].ref = sst[t].ref
    BY <2>1, <2>2, <2>3, CountBounds DEF One
  <2> QED
    BY <1>6, <2>1, <2>2, <2>4, <2>5, CountBounds
<1> QED
  BY <1>1, <1>3, <1>5, <1>6, <1>7, CountDropped DEF Counted

---------------------------------------------------------------------------
(* The readers.                                                            *)

\* A new iterator retains the listed tables and the memtable.
LEMMA CountIteratorCreate ==
  ASSUME IInv, CountInv, NEW r \in Readers, IteratorCreate(r)
  PROVE  CountInv'
<1>1. UNCHANGED <<immutables, list, files, flusher, compactor, writer>>
  BY DEF IteratorCreate
<1>2. PICK m \in {0, Len(mem)} :
        /\ iter' = [iter EXCEPT ![r] = [open |-> TRUE, mem |-> m, tabs |-> list]]
        /\ mem' = IF m = 0 THEN mem ELSE [mem EXCEPT ![m].ref = @ + 1]
  BY DEF IteratorCreate, Current
<1>3. m \in 0..Len(mem) /\ Len(mem) \in Nat
  BY <1>2, Ranges
<1>4. MemCounted(m, 1) /\ Counted(list, 1) /\ ~iter[r].open /\ writer.pc # "freed"
  BY <1>2, <1>3, MemReference, RetainRelease DEF IteratorCreate, IInv
<1>5. /\ iter'[r].open /\ iter'[r].mem = m /\ iter'[r].tabs = list
      /\ \A q \in Readers : q # r => iter'[q] = iter[q]
  BY <1>2 DEF IInv, TypeOK, IterType
<1>6. OpenReaders' = OpenReaders \cup {r}
  BY <1>5 DEF OpenReaders
<1>7. IsFiniteSet(OpenReaders)'
  BY <1>6, OneReader DEF CountInv
<1>8. JoinInv'
  BY <1>1, <1>4 DEF CountInv, JoinInv, MemCounted, MemsKept
<1>9. ASSUME NEW n \in 1..Len(mem)
      PROVE  mem'[n].ref = Cardinality(MemReaders(n)') + One(MemOwned(n)')
  <2>1. MemReaders(n)' = (IF n = m THEN MemReaders(n) \cup {r} ELSE MemReaders(n)) /\ r \notin MemReaders(n)
    BY <1>4, <1>5 DEF MemReaders
  <2>2. /\ mem[n].ref = Cardinality(MemReaders(n)) + One(MemOwned(n))
        /\ Cardinality(MemReaders(n)) \in Nat /\ IsFiniteSet(MemReaders(n))
    BY ReadersFinite DEF CountInv, MemRefs
  <2>3. MemOwned(n)' <=> MemOwned(n)
    BY <1>1, <1>4 DEF MemOwned, MemCounted, MemsKept
  <2>4. Cardinality(MemReaders(n)') = Cardinality(MemReaders(n)) + One(n = m)
    BY <2>1, <2>2, OneReader DEF One
  <2>5. mem'[n].ref = mem[n].ref + 1 * One(n = m)
    BY <1>4 DEF MemCounted
  <2> QED
    BY <2>2, <2>3, <2>4, <2>5 DEF One
<1>10. MemRefs'
  BY <1>4, <1>9 DEF MemRefs, MemCounted, MemsKept
<1>11. \A t : (Owned(t)' <=> Owned(t)) /\ (OwnRef(t)' <=> OwnRef(t)) /\ (Merging(t)' <=> Merging(t))
  BY <1>1 DEF Owned, OwnRef, Merging, Held
<1>12. ASSUME NEW t \in 1..Len(sst)
       PROVE  /\ sst'[t].ref = Cardinality(TableReaders(t)') + One(Merging(t)') + One(OwnRef(t)')
              /\ sst'[t].old = sst[t].old
              /\ sst[t].old => sst'[t].ref = sst[t].ref
  <2>1. TableReaders(t)' = (IF t \in list THEN TableReaders(t) \cup {r} ELSE TableReaders(t))
        /\ r \notin TableReaders(t)
    BY <1>4, <1>5 DEF TableReaders
  <2>2. /\ sst[t].ref = Cardinality(TableReaders(t)) + One(Merging(t)) + One(OwnRef(t))
        /\ Cardinality(TableReaders(t)) \in Nat /\ IsFiniteSet(TableReaders(t))
    BY ReadersFinite DEF CountInv, TableRefs
  <2>3. Cardinality(TableReaders(t)') = Cardinality(TableReaders(t)) + One(t \in list)
    BY <2>1, <2>2, OneReader DEF One
  <2>4. sst'[t].ref = sst[t].ref + 1 * One(t \in list) /\ sst'[t].old = sst[t].old
    BY <1>4 DEF Counted
  <2>5. One(Merging(t)') = One(Merging(t)) /\ One(OwnRef(t)') = One(OwnRef(t))
        /\ One(Merging(t)) \in Nat /\ One(OwnRef(t)) \in Nat /\ One(t \in list) \in Nat
    BY <1>11 DEF One
  <2>6. sst[t].old => One(t \in list) = 0
    BY DEF IInv, TableInv, Held, One
  <2> QED
    BY <2>2, <2>3, <2>4, <2>5, <2>6
<1>13. Len(sst') = Len(sst)
  BY <1>4 DEF Counted
<1>14. TableRefs'
  BY <1>12, <1>13 DEF TableRefs
<1>15. FilesInv'
  BY <1>1, <1>11, <1>12, <1>13 DEF CountInv, FilesInv
<1> QED
  BY <1>7, <1>8, <1>10, <1>14, <1>15 DEF CountInv

\* A closed iterator releases them; the last release of a table that was given
\* up removes its files.
LEMMA CountIteratorClose ==
  ASSUME IInv, CountInv, NEW r \in Readers, IteratorClose(r)
  PROVE  CountInv'
<1>1. UNCHANGED <<immutables, list, flusher, compactor, writer>>
  BY DEF IteratorClose
<1>2. PICK m, T : m = iter[r].mem /\ T = iter[r].tabs
  OBVIOUS
<1>3. m \in 0..Len(mem) /\ T \subseteq 1..Len(sst)
  BY <1>2 DEF IInv, TypeOK, IterType
<1>4. MemCounted(m, -1) /\ Counted(T, -1) /\ iter[r].open
  BY <1>2, <1>3, MemReference, RetainRelease DEF IteratorClose, IInv
<1>5. ~iter'[r].open /\ \A q \in Readers : q # r => iter'[q] = iter[q]
  BY DEF IteratorClose, NoIterator, IInv, TypeOK, IterType
<1>6. OpenReaders' = OpenReaders \ {r}
  BY <1>5 DEF OpenReaders
<1>7. IsFiniteSet(OpenReaders)'
  BY <1>6, OneReader DEF CountInv
<1>8. JoinInv'
  BY <1>1, <1>4 DEF CountInv, JoinInv, MemCounted, MemsKept
<1>9. ASSUME NEW n \in 1..Len(mem)
      PROVE  mem'[n].ref = Cardinality(MemReaders(n)') + One(MemOwned(n)')
  <2>1. /\ MemReaders(n)' = (IF n = m THEN MemReaders(n) \ {r} ELSE MemReaders(n))
        /\ n = m => r \in MemReaders(n)
    BY <1>2, <1>4, <1>5 DEF MemReaders
  <2>2. /\ mem[n].ref = Cardinality(MemReaders(n)) + One(MemOwned(n))
        /\ Cardinality(MemReaders(n)) \in Nat /\ IsFiniteSet(MemReaders(n))
    BY ReadersFinite DEF CountInv, MemRefs
  <2>3. MemOwned(n)' <=> MemOwned(n)
    BY <1>1, <1>4 DEF MemOwned, MemCounted, MemsKept
  <2>4. Cardinality(MemReaders(n)') = Cardinality(MemReaders(n)) - One(n = m)
    BY <2>1, <2>2, OneReader DEF One
  <2>5. mem'[n].ref = mem[n].ref + (-1) * One(n = m)
    BY <1>4 DEF MemCounted
  <2> QED
    BY <2>2, <2>3, <2>4, <2>5 DEF One
<1>10. MemRefs'
  BY <1>4, <1>9 DEF MemRefs, MemCounted, MemsKept
<1>11. \A t : (Owned(t)' <=> Owned(t)) /\ (OwnRef(t)' <=> OwnRef(t)) /\ (Merging(t)' <=> Merging(t))
  BY <1>1 DEF Owned, OwnRef, Merging, Held
<1>12. ASSUME NEW t \in 1..Len(sst)
       PROVE  /\ sst'[t].ref = Cardinality(TableReaders(t)') + One(Merging(t)') + One(OwnRef(t)')
              /\ sst'[t].old = sst[t].old
              /\ sst'[t].ref = sst[t].ref + (-1) * One(t \in T)
              /\ t \in T => sst[t].ref >= 1
  <2>1. /\ TableReaders(t)' = (IF t \in T THEN TableReaders(t) \ {r} ELSE TableReaders(t))
        /\ t \in T => r \in TableReaders(t)
    BY <1>2, <1>4, <1>5 DEF TableReaders
  <2>2. /\ sst[t].ref = Cardinality(TableReaders(t)) + One(Merging(t)) + One(OwnRef(t))
        /\ Cardinality(TableReaders(t)) \in Nat /\ IsFiniteSet(TableReaders(t))
    BY ReadersFinite DEF CountInv, TableRefs
  <2>3. /\ Cardinality(TableReaders(t)') = Cardinality(TableReaders(t)) - One(t \in T)
        /\ Cardinality(TableReaders(t)') \in Nat
    BY <2>1, <2>2, OneReader, FS_CardinalityType DEF One
  <2>4. sst'[t].ref = sst[t].ref + (-1) * One(t \in T) /\ sst'[t].old = sst[t].old
    BY <1>4 DEF Counted
  <2>5. One(Merging(t)') = One(Merging(t)) /\ One(OwnRef(t)') = One(OwnRef(t))
        /\ One(Merging(t)) \in Nat /\ One(OwnRef(t)) \in Nat
        /\ One(t \in T) \in Nat /\ (t \in T => One(t \in T) = 1)
    BY <1>11 DEF One
  <2> QED
    BY <2>2, <2>3, <2>4, <2>5
<1>13. Len(sst') = Len(sst)
  BY <1>4 DEF Counted
<1>14. TableRefs'
  BY <1>12, <1>13 DEF TableRefs
<1>15. FilesInv'
  <2>1. files' = files \ {t \in T : sst[t].ref = 1 /\ sst[t].old} /\ files \subseteq 1..Len(sst)
    BY <1>2, Ranges DEF IteratorClose, Removed
  <2>2. ASSUME NEW t \in 1..Len(sst)
        PROVE  t \in files' <=> ~sst'[t].old \/ sst'[t].ref > 0
    <3>1. sst[t].ref \in Nat /\ (t \in files <=> ~sst[t].old \/ sst[t].ref > 0)
      BY CountBounds
    <3>2. CASE t \in T
      <4>1. sst'[t].ref = sst[t].ref - 1
        BY <1>12, <3>1, <3>2 DEF One
      <4> QED
        BY <1>12, <2>1, <3>1, <3>2, <4>1
    <3>3. CASE t \notin T
      <4>1. sst'[t].ref = sst[t].ref
        BY <1>12, <3>1, <3>3 DEF One
      <4> QED
        BY <1>12, <2>1, <3>1, <3>3, <4>1
    <3> QED
      BY <3>2, <3>3
  <2>3. files' = {t \in 1..Len(sst') : ~sst'[t].old \/ sst'[t].ref > 0}
    BY <1>13, <2>1, <2>2
  <2>4. \A t \in 1..Len(sst') : sst'[t].old <=> ~Owned(t)'
    BY <1>11, <1>12, <1>13 DEF CountInv, FilesInv
  <2> QED
    BY <2>3, <2>4 DEF FilesInv
<1> QED
  BY <1>7, <1>8, <1>10, <1>14, <1>15 DEF CountInv

---------------------------------------------------------------------------
(* The invariant and the theorems.                                         *)

\* Init: the memtable in use has the engine's reference, and there is no table.
LEMMA CountInit == Init => CountInv
<1> SUFFICES ASSUME Init PROVE CountInv
  OBVIOUS
<1>1. /\ Len(mem) = 1 /\ mem[1].ref = 1 /\ Len(sst) = 0 /\ files = {}
      /\ writer.pc = "idle" /\ flusher.pc = "idle"
  BY DEF Init, NewMemtable, Idle, NoJob
<1>2. OpenReaders = {} /\ \A m : MemReaders(m) = {}
  BY DEF Init, OpenReaders, MemReaders, NoIterator
<1>3. MemRefs
  <2> SUFFICES ASSUME NEW m \in 1..Len(mem)
               PROVE  mem[m].ref = Cardinality(MemReaders(m)) + One(MemOwned(m))
    BY DEF MemRefs
  <2>1. m = 1 /\ MemOwned(m)
    BY <1>1 DEF MemOwned
  <2>2. Cardinality(MemReaders(m)) = 0
    BY <1>2, FS_EmptySet
  <2> QED
    BY <1>1, <2>1, <2>2 DEF One
<1> QED
  BY <1>1, <1>2, <1>3, FS_EmptySet DEF CountInv, JoinInv, TableRefs, FilesInv

\* Every step keeps the counts exact.
LEMMA CountStep == IInv /\ MetadataInv /\ CountInv /\ [Next]_vars => CountInv'
<1> SUFFICES ASSUME IInv, MetadataInv, CountInv, [Next]_vars PROVE CountInv'
  OBVIOUS
<1>1. CASE UNCHANGED vars
  <2>1. UNCHANGED <<mem, immutables, sst, list, files, iter, flusher, compactor, writer>>
    BY <1>1 DEF vars
  <2>2. JoinInv' /\ RefsKept
    BY <2>1 DEF CountInv, JoinInv, RefsKept, Owned, Merging, MemOwned, Held
  <2> QED
    BY <2>2, CountKept
<1>2. CASE Next
  <2>1. ASSUME \/ FlushRegister
               \/ \E k \in Keys \cup {ReservedKey} : InsertPlace(k) \/ InsertRotate(k)
        PROVE  CountInv'
    <3>1. PICK N : Grown(N)
      BY <2>1, Insertions
    <3>2. writer.pc \in {"idle", "retry"}
      BY <2>1 DEF FlushRegister, InsertPlace, InsertRotate, Inserting
    <3>3. writer' \in {Idle, [Idle EXCEPT !.pc = "signal"], [Idle EXCEPT !.pc = "flush_pool"],
                       [Idle EXCEPT !.pc = "overflow"]}
      BY <2>1 DEF FlushRegister, InsertPlace, InsertRotate
    <3>4. writer'.pc \notin {"freed", "join_compact"}
      BY <3>3 DEF Idle
    <3> QED
      BY <3>1, <3>2, <3>4, CountGrown
  <2>2. CASE Calls \/ WriterStep \/ SpuriousWakeup
    <3>1. writer.key \in Keys \cup {ReservedKey}
      BY DEF IInv, TypeOK, WriterType
    <3> QED
      BY <2>1, <2>2, <3>1, CountWriter, CountFreeJoinCompact DEF Calls, WriterStep, MetadataInv
  <2>3. CASE FlusherStep
    BY <2>3, CountFlusher, CountFlushWrite, CountFlushRelease DEF FlusherStep
  <2>4. CASE CompactorStep
    BY <2>4, CountCompactor, CountMergeOpen, CountMergeFinish, CountCompactDelete
  <2>5. CASE \E r \in Readers : IteratorCreate(r) \/ IteratorClose(r)
    BY <2>5, CountIteratorCreate, CountIteratorClose
  <2> QED
    BY <1>1, <1>2, <2>2, <2>3, <2>4, <2>5 DEF Next, Step, Stopped
<1> QED
  BY <1>1, <1>2

\* The counts are exact in every state.
LEMMA CountInvariance == Spec => []CountInv
BY Invariance, MetadataInvariance, CountInit, CountStep, PTL DEF Spec

\* Nothing in use is freed: an open iterator's memtable is alive and its
\* tables' files exist, whatever is flushed, merged and deleted meanwhile, the
\* memtable being flushed is alive, and the files of the tables being merged
\* exist until the compaction daemon releases them.
THEOREM NothingInUseIsFreed == Spec => []NoUseAfterFree
<1>1. ASSUME IInv, CountInv PROVE NoUseAfterFree
  <2>1. ASSUME NEW m \in 1..Len(mem), MemOwned(m) \/ MemReaders(m) # {} PROVE mem[m].ref > 0
    <3>1. /\ mem[m].ref = Cardinality(MemReaders(m)) + One(MemOwned(m))
          /\ Cardinality(MemReaders(m)) \in Nat /\ IsFiniteSet(MemReaders(m))
      BY <1>1, ReadersFinite DEF CountInv, MemRefs
    <3>2. MemReaders(m) # {} => Cardinality(MemReaders(m)) # 0
      BY <3>1, FS_EmptySet
    <3> QED
      BY <2>1, <3>1, <3>2 DEF One
  <2>2. ASSUME NEW r \in Readers, iter[r].open
        PROVE  /\ iter[r].mem # 0 => mem[iter[r].mem].ref > 0
               /\ iter[r].tabs \subseteq files
    <3>1. iter[r].mem \in 0..Len(mem) /\ iter[r].tabs \subseteq 1..Len(sst) /\ Len(mem) \in Nat
      BY <1>1, Ranges DEF IInv, TypeOK, IterType
    <3>2. ASSUME iter[r].mem # 0 PROVE mem[iter[r].mem].ref > 0
      <4>1. iter[r].mem \in 1..Len(mem)
        BY <3>1, <3>2
      <4>2. r \in MemReaders(iter[r].mem)
        BY <2>2 DEF MemReaders
      <4> QED
        BY <2>1, <4>1, <4>2
    <3>3. ASSUME NEW t \in iter[r].tabs PROVE t \in files
      <4>1. /\ sst[t].ref = Cardinality(TableReaders(t)) + One(Merging(t)) + One(OwnRef(t))
            /\ Cardinality(TableReaders(t)) \in Nat /\ IsFiniteSet(TableReaders(t))
        BY <1>1, <3>1, ReadersFinite DEF CountInv, TableRefs
      <4>2. Cardinality(TableReaders(t)) # 0
        <5>1. r \in TableReaders(t)
          BY <2>2, <3>3 DEF TableReaders
        <5> QED
          BY <4>1, <5>1, FS_EmptySet
      <4>3. sst[t].ref > 0
        BY <4>1, <4>2 DEF One
      <4> QED
        BY <1>1, <3>1, <4>3 DEF CountInv, FilesInv
    <3> QED
      BY <3>2, <3>3
  <2>3. ASSUME NEW m \in immutables \cup {Current} PROVE mem[m].ref > 0
    BY <1>1, <2>1, Ranges DEF MemOwned, Current
  <2>4. ASSUME flusher.pc \in {"write", "unregister", "release"} PROVE mem[flusher.mem].ref > 0
    <3>1. flusher.mem \in 1..Len(mem) /\ MemOwned(flusher.mem)
      BY <1>1, <2>4, Ranges DEF MemOwned, IInv, FlusherInv
    <3> QED
      BY <2>1, <3>1
  <2>5. list \cup compactor.inputs \cup compactor.garbage \subseteq files
    BY <1>1, Ranges DEF CountInv, FilesInv, Owned, Held
  <2> QED
    BY <2>2, <2>3, <2>4, <2>5 DEF NoUseAfterFree
<1> QED
  BY <1>1, Invariance, CountInvariance, PTL

\* Nothing is kept for ever: a table's file exists only while the table is
\* listed, or the daemons or an open iterator work with it.
THEOREM NoFileIsOrphaned == Spec => []NoOrphanFile
<1>1. ASSUME IInv, CountInv PROVE NoOrphanFile
  <2> SUFFICES ASSUME NEW t \in files, ~Owned(t)
               PROVE  \E r \in Readers : t \in iter[r].tabs
    BY DEF NoOrphanFile, Owned, Held
  <2>1. t \in 1..Len(sst) /\ sst[t].ref > 0
    BY <1>1 DEF CountInv, FilesInv
  <2>2. ~Merging(t) /\ ~OwnRef(t)
    BY DEF Merging, OwnRef, Owned, Held
  <2>3. sst[t].ref = Cardinality(TableReaders(t)) + 0 + 0
    BY <1>1, <2>1, <2>2 DEF CountInv, TableRefs, One
  <2>4. Cardinality(TableReaders(t)) # 0
    BY <2>1, <2>3
  <2>5. TableReaders(t) # {}
    BY <2>4, FS_EmptySet
  <2> QED
    BY <2>5 DEF TableReaders
<1> QED
  BY <1>1, Invariance, CountInvariance, PTL

---------------------------------------------------------------------------
(* The limits of the tiers.                                                *)

\* Of a set of numbers that is not empty one is the first.
LEMMA FirstNumber ==
  ASSUME NEW S \in SUBSET Nat, S # {}
  PROVE  \E n \in S : (n = 0 \/ (n - 1 \in Nat /\ n - 1 \notin S)) /\ \A m \in S : n <= m
<1>1. Min(S) \in S /\ \A m \in S : Min(S) <= m
  BY MinProperties
<1>2. PICK n : n = Min(S)
  OBVIOUS
<1>3. n \in S /\ n \in Nat /\ \A m \in S : n <= m
  BY <1>1, <1>2
<1>4. n # 0 => n - 1 \in Nat /\ n - 1 \notin S
  BY <1>3
<1> QED
  BY <1>3, <1>4

\* The limits of the first n + 1 tiers.
Limits(n) ==
  {f \in [0..n -> Nat] : f[0] = ZeroLevelMax /\ \A k \in 1..n : f[k] = TierGrowth * f[k - 1]}

\* There are limits for any number of tiers.
LEMMA LimitsExist == \A n \in Nat : Limits(n) # {}
<1> DEFINE Bad == {n \in Nat : Limits(n) = {}}
<1> SUFFICES ASSUME Bad # {} PROVE FALSE
  OBVIOUS
<1>1. PICK n \in Bad : n = 0 \/ (n - 1 \in Nat /\ n - 1 \notin Bad)
  <2>1. Bad \in SUBSET Nat
    OBVIOUS
  <2> HIDE DEF Bad
  <2> QED
    BY <2>1, FirstNumber
<1>2. n \in Nat /\ Limits(n) = {}
  OBVIOUS
<1>3. CASE n = 0
  <2>1. [k \in 0..0 |-> ZeroLevelMax] \in Limits(0)
    BY ConstantsAssumption DEF Limits
  <2> QED
    BY <1>2, <1>3, <2>1
<1>4. CASE n - 1 \in Nat /\ n - 1 \notin Bad
  <2>1. PICK f : f \in Limits(n - 1)
    BY <1>4
  <2>2. /\ f \in [0..(n - 1) -> Nat] /\ f[0] = ZeroLevelMax
        /\ \A k \in 1..(n - 1) : f[k] = TierGrowth * f[k - 1]
    BY <2>1 DEF Limits
  <2> DEFINE g == [k \in 0..n |-> IF k = n THEN TierGrowth * f[n - 1] ELSE f[k]]
  <2>3. TierGrowth * f[n - 1] \in Nat
    <3>1. f[n - 1] \in Nat /\ TierGrowth \in Nat
      BY <1>4, <2>2, ConstantsAssumption
    <3> QED
      BY <3>1
  <2>4. g \in [0..n -> Nat]
    BY <1>2, <2>2, <2>3
  <2>5. g[0] = ZeroLevelMax
    BY <1>2, <1>4, <2>2
  <2>6. ASSUME NEW k \in 1..n PROVE g[k] = TierGrowth * g[k - 1]
    <3>1. g[k - 1] = f[k - 1]
      BY <1>2
    <3>2. CASE k = n
      BY <1>2, <3>1, <3>2
    <3>3. CASE k # n
      <4>1. k \in 1..(n - 1) /\ g[k] = f[k]
        BY <1>2, <3>3
      <4> QED
        BY <2>2, <3>1, <4>1
    <3> QED
      BY <3>2, <3>3
  <2>7. g \in Limits(n)
    <3> HIDE DEF g
    <3> QED
      BY <2>4, <2>5, <2>6 DEF Limits
  <2> QED
    BY <1>2, <2>7
<1> QED
  BY <1>1, <1>3, <1>4

\* They do not depend on how many tiers there are.
LEMMA LimitsAgree ==
  ASSUME NEW m \in Nat, NEW n \in Nat, NEW f \in Limits(m), NEW g \in Limits(n)
  PROVE  \A k \in Nat : k <= m /\ k <= n => f[k] = g[k]
<1> DEFINE Bad == {k \in Nat : k <= m /\ k <= n /\ f[k] # g[k]}
<1> SUFFICES ASSUME Bad # {} PROVE FALSE
  OBVIOUS
<1>1. PICK k \in Bad : k = 0 \/ (k - 1 \in Nat /\ k - 1 \notin Bad)
  <2>1. Bad \in SUBSET Nat
    OBVIOUS
  <2> HIDE DEF Bad
  <2> QED
    BY <2>1, FirstNumber
<1>2. k # 0 => f[k] = TierGrowth * f[k - 1] /\ g[k] = TierGrowth * g[k - 1]
  BY DEF Limits
<1>3. f[0] = g[0]
  BY DEF Limits
<1> QED
  BY <1>1, <1>2, <1>3

\* The limits of the tiers as the engine computes them.
LEMMA ThresholdIs ==
  Threshold = [tier \in Nat |-> IF tier = 0 THEN ZeroLevelMax ELSE TierGrowth * Threshold[tier - 1]]
<1> DEFINE lim(n) == CHOOSE f : f \in Limits(n)
           T == [n \in Nat |-> lim(n)[n]]
<1>1. \A n \in Nat : lim(n) \in Limits(n)
  BY LimitsExist
<1>2. ASSUME NEW n \in Nat
      PROVE  T[n] = IF n = 0 THEN ZeroLevelMax ELSE TierGrowth * T[n - 1]
  <2>1. lim(n) \in Limits(n) /\ T[n] = lim(n)[n]
    BY <1>1
  <2>2. CASE n = 0
    BY <2>1, <2>2 DEF Limits
  <2>3. CASE n # 0
    <3>1. n - 1 \in Nat /\ n \in 1..n /\ n - 1 <= n
      BY <2>3
    <3>2. lim(n - 1) \in Limits(n - 1) /\ T[n - 1] = lim(n - 1)[n - 1]
      BY <1>1, <3>1
    <3>3. lim(n)[n] = TierGrowth * lim(n)[n - 1]
      <4> HIDE DEF lim
      <4> QED
        BY <2>1, <3>1 DEF Limits
    <3>4. lim(n)[n - 1] = lim(n - 1)[n - 1]
      <4> HIDE DEF lim
      <4> QED
        BY <2>1, <3>1, <3>2, LimitsAgree
    <3> QED
      BY <2>1, <2>3, <3>2, <3>3, <3>4
  <2> QED
    BY <2>2, <2>3
<1>3. T = [tier \in Nat |-> IF tier = 0 THEN ZeroLevelMax ELSE TierGrowth * T[tier - 1]]
  <2>1. DOMAIN T = Nat /\ T = [n \in Nat |-> T[n]]
    OBVIOUS
  <2> HIDE DEF T
  <2> QED
    BY <1>2, <2>1
<1> HIDE DEF T
<1> QED
  BY <1>3, Zenon DEF Threshold

\* A tier's limit is a number, and TierGrowth times that of the tier before.
LEMMA ThresholdProperties ==
  /\ Threshold[0] = ZeroLevelMax
  /\ \A n \in Nat : Threshold[n] \in Nat /\ Threshold[n + 1] = TierGrowth * Threshold[n]
<1> DEFINE Bad == {n \in Nat : Threshold[n] \notin Nat}
<1>1. /\ Threshold[0] = ZeroLevelMax
      /\ \A n \in Nat \ {0} : Threshold[n] = TierGrowth * Threshold[n - 1]
  BY ThresholdIs
<1>2. Bad = {}
  <2> SUFFICES ASSUME Bad # {} PROVE FALSE
    OBVIOUS
  <2>1. PICK n \in Bad : n = 0 \/ (n - 1 \in Nat /\ n - 1 \notin Bad)
    <3>1. Bad \in SUBSET Nat
      OBVIOUS
    <3> HIDE DEF Bad
    <3> QED
      BY <3>1, FirstNumber
  <2>2. n \in Nat /\ Threshold[n] \notin Nat
    OBVIOUS
  <2>3. n # 0 => Threshold[n - 1] \in Nat /\ Threshold[n] = TierGrowth * Threshold[n - 1]
    BY <1>1, <2>1
  <2>4. TierGrowth \in Nat /\ ZeroLevelMax \in Nat
    BY ConstantsAssumption
  <2>5. n # 0 => TierGrowth * Threshold[n - 1] \in Nat
    BY <2>3, <2>4
  <2> QED
    BY <1>1, <2>2, <2>3, <2>4, <2>5
<1>3. \A n \in Nat : Threshold[n] \in Nat
  BY <1>2
<1>4. ASSUME NEW n \in Nat PROVE Threshold[n + 1] = TierGrowth * Threshold[n]
  <2>1. n + 1 \in Nat \ {0} /\ (n + 1) - 1 = n
    OBVIOUS
  <2> QED
    BY <1>1, <2>1
<1> QED
  BY <1>1, <1>3, <1>4

---------------------------------------------------------------------------
(* Counting tables and records.                                            *)

\* The n oldest tables are no more than n.
LEMMA OldestBound ==
  ASSUME NEW T \in SUBSET Nat, IsFiniteSet(T), NEW n \in Nat
  PROVE  IsFiniteSet(Oldest(T, n)) /\ Cardinality(Oldest(T, n)) <= n
<1> DEFINE Before(t) == {u \in T : u < t}
           rank == [t \in Oldest(T, n) |-> Cardinality(Before(t))]
<1>1. \A t \in T : IsFiniteSet(Before(t)) /\ Cardinality(Before(t)) \in Nat
  <2> TAKE t \in T
  <2>1. Before(t) \in SUBSET T
    OBVIOUS
  <2> HIDE DEF Before
  <2> QED
    BY <2>1, FS_Subset, FS_CardinalityType
<1>2. ASSUME NEW t \in T, NEW u \in T, t < u
      PROVE  Cardinality(Before(t)) < Cardinality(Before(u))
  <2>1. Before(t) \in SUBSET Before(u) /\ Before(t) # Before(u)
    <3>1. t \in Before(u) /\ t \notin Before(t)
      BY <1>2
    <3>2. \A x \in Before(t) : x \in Before(u)
      BY <1>2
    <3> QED
      BY <3>1, <3>2
  <2> HIDE DEF Before
  <2> QED
    BY <1>1, <2>1, FS_Subset
<1>3. \A t \in Oldest(T, n) : t \in T /\ t \in Nat /\ Cardinality(Before(t)) < n
  BY DEF Oldest
<1> HIDE DEF Before
<1>4. \A t \in Oldest(T, n) : rank[t] = Cardinality(Before(t)) /\ rank[t] \in 0..(n - 1)
  <2> TAKE t \in Oldest(T, n)
  <2>1. Cardinality(Before(t)) \in Nat /\ Cardinality(Before(t)) < n
    BY <1>1, <1>3
  <2> QED
    BY <2>1
<1>5. rank \in [Oldest(T, n) -> 0..(n - 1)]
  <2>1. rank = [t \in Oldest(T, n) |-> rank[t]]
    OBVIOUS
  <2> HIDE DEF rank
  <2> QED
    BY <1>4, <2>1
<1> HIDE DEF rank
<1>6. rank \in Injection(Oldest(T, n), 0..(n - 1))
  <2>1. ASSUME NEW t \in Oldest(T, n), NEW u \in Oldest(T, n), t < u
        PROVE  rank[t] # rank[u]
    <3>1. Cardinality(Before(t)) < Cardinality(Before(u))
      BY <1>2, <1>3, <2>1
    <3>2. rank[t] \in Nat /\ rank[u] \in Nat /\ rank[t] < rank[u]
      BY <1>4, <3>1
    <3> QED
      BY <3>2
  <2>2. \A t, u \in Oldest(T, n) : t # u => t < u \/ u < t
    BY <1>3
  <2>3. \A t, u \in Oldest(T, n) : t # u => rank[t] # rank[u]
    BY <2>1, <2>2
  <2>4. \A t, u \in Oldest(T, n) : rank[t] = rank[u] => t = u
    BY <2>3
  <2> QED
    BY <1>5, <2>4 DEF Injection, IsInjective
<1>7. IsFiniteSet(0..(n - 1)) /\ Cardinality(0..(n - 1)) = n
  BY FS_Interval
<1> QED
  BY <1>6, <1>7, FS_Injection

\* What finitely many sets of at most m elements hold together.
LEMMA UnionBound ==
  ASSUME NEW T, IsFiniteSet(T), NEW f, NEW m \in Nat,
         \A t \in T : IsFiniteSet(f[t]) /\ Cardinality(f[t]) <= m
  PROVE  LET U == UNION {f[t] : t \in T}
         IN  IsFiniteSet(U) /\ Cardinality(U) <= Cardinality(T) * m
<1> DEFINE U == UNION {f[t] : t \in T}
           of(x) == CHOOSE t \in T : x \in f[t]
           enum(t) == CHOOSE b : b \in Bijection(1..Cardinality(f[t]), f[t])
           at(x) == CHOOSE i \in 1..m : i \in DOMAIN enum(of(x)) /\ enum(of(x))[i] = x
           place == [x \in U |-> <<of(x), at(x)>>]
<1>1. \A x \in U : of(x) \in T /\ x \in f[of(x)]
  OBVIOUS
<1>2. \A t \in T : enum(t) \in Bijection(1..Cardinality(f[t]), f[t]) /\ Cardinality(f[t]) \in Nat
  <2> TAKE t \in T
  <2>1. Cardinality(f[t]) \in Nat /\ ExistsBijection(1..Cardinality(f[t]), f[t])
    BY FS_CardinalityType
  <2> QED
    BY <2>1 DEF ExistsBijection
<1>3. ASSUME NEW x \in U PROVE at(x) \in 1..m /\ enum(of(x))[at(x)] = x
  <2>1. PICK t \in T : t = of(x) /\ x \in f[t]
    BY <1>1
  <2>2. enum(t) \in Bijection(1..Cardinality(f[t]), f[t]) /\ Cardinality(f[t]) \in Nat
        /\ Cardinality(f[t]) <= m
    BY <1>2
  <2> HIDE DEF enum
  <2>3. PICK i \in 1..Cardinality(f[t]) : enum(t)[i] = x
    BY <2>1, <2>2 DEF Bijection, Surjection
  <2>4. i \in 1..m /\ i \in DOMAIN enum(of(x)) /\ enum(of(x))[i] = x
    BY <2>1, <2>2, <2>3 DEF Bijection, Injection
  <2> QED
    BY <2>4
<1> HIDE DEF of, at, enum
<1>4. place \in [U -> T \X (1..m)]
  BY <1>1, <1>3
<1>5. \A x, y \in U : place[x] = place[y] => x = y
  <2>1. \A x \in U : place[x] = <<of(x), at(x)>>
    OBVIOUS
  <2>2. ASSUME NEW x \in U, NEW y \in U, place[x] = place[y] PROVE x = y
    <3>1. of(x) = of(y) /\ at(x) = at(y)
      BY <2>1, <2>2
    <3> QED
      BY <1>3, <3>1
  <2> QED
    BY <2>2
<1>6. place \in Injection(U, T \X (1..m))
  <2> HIDE DEF place, U
  <2> QED
    BY <1>4, <1>5 DEF Injection, IsInjective
<1>7. IsFiniteSet(T \X (1..m)) /\ Cardinality(T \X (1..m)) = Cardinality(T) * m
  <2>1. IsFiniteSet(1..m) /\ Cardinality(1..m) = m
    BY FS_Interval
  <2> QED
    BY <2>1, FS_Product
<1> HIDE DEF place, U
<1>8. IsFiniteSet(U) /\ Cardinality(U) <= Cardinality(T) * m
  BY <1>6, <1>7, FS_Injection
<1> QED
  BY <1>8 DEF U

\* What is in a table or a memtable is finite.
LEMMA SizesAreNumbers ==
  ASSUME IInv
  PROVE  /\ \A t \in 1..Len(sst) : IsFiniteSet(sst[t].recs) /\ Cardinality(sst[t].recs) \in Nat
         /\ \A m \in 1..Len(mem) : IsFiniteSet(mem[m].recs) /\ Cardinality(mem[m].recs) \in Nat
<1>1. IsFiniteSet(accepted)
  BY DEF IInv, Grounded
<1>2. \A S \in SUBSET accepted : IsFiniteSet(S) /\ Cardinality(S) \in Nat
  BY <1>1, FS_Subset, FS_CardinalityType
<1> QED
  BY <1>2 DEF IInv, Grounded

---------------------------------------------------------------------------
(* Tables fit their tiers.                                                 *)

\* A memtable exceeds its limit by one record at most.
MemSizes == \A m \in 1..Len(mem) : Cardinality(mem[m].recs) <= SizeThreshold + 1

\* A table by itself is within the limit of its tier.
TableSizes == \A t \in 1..Len(sst) : Cardinality(sst[t].recs) <= Threshold[sst[t].level]

\* A merge is of a few tables of one tier, and for the next.
MergeInv ==
  /\ compactor.pc # "abort"
  /\ \A t \in compactor.inputs : sst[t].level = compactor.tier
  /\ Cardinality(compactor.inputs) <= MergeLimit
  /\ compactor.pc \in {"wait_active", "wait_count"} => sst[compactor.tab].level = compactor.tier + 1

SizeInv == MemSizes /\ TableSizes /\ MergeInv

\* Every table keeps its tier.
LevelsKept == \A t \in 1..Len(sst) : sst'[t].level = sst[t].level

\* A tier with more than its limit has two tables.
LEMMA TwoTables ==
  ASSUME IInv, SizeInv, NEW tier \in Nat, SumSizes(TierTables(tier)) - Threshold[tier] > 0
  PROVE  Cardinality(TierTables(tier)) \in Nat /\ Cardinality(TierTables(tier)) >= 2
<1> DEFINE T == TierTables(tier)
<1>1. IsFiniteSet(T) /\ T \subseteq list /\ T \subseteq 1..Len(sst) /\ \A t \in T : sst[t].level = tier
  BY TierFinite, Ranges DEF TierTables
<1>2. Threshold[tier] \in Nat
  BY ThresholdProperties
<1>3. SumSizes(T) > Threshold[tier] \/ SumSizes(T) \notin Int
  BY <1>2
<1> HIDE DEF T
<1>4. Cardinality(T) \in Nat
  BY <1>1, FS_CardinalityType
<1>5. ASSUME T = {} PROVE FALSE
  <2>1. UNION {{t} \X sst[t].recs : t \in T} = {}
    BY <1>5
  <2>2. SumSizes(T) = 0
    BY <2>1, FS_EmptySet DEF SumSizes
  <2> QED
    BY <1>2, <1>3, <2>2
<1>6. ASSUME NEW t, T = {t} PROVE FALSE
  <2>1. UNION {{u} \X sst[u].recs : u \in T} = {t} \X sst[t].recs
    BY <1>6
  <2>2. t \in 1..Len(sst) /\ sst[t].level = tier
    BY <1>1, <1>6
  <2>3. IsFiniteSet(sst[t].recs) /\ Cardinality(sst[t].recs) \in Nat
    BY <2>2, SizesAreNumbers
  <2>4. IsFiniteSet({t}) /\ Cardinality({t}) = 1
    BY FS_Singleton
  <2>5. Cardinality({t} \X sst[t].recs) = Cardinality({t}) * Cardinality(sst[t].recs)
    BY <2>3, <2>4, FS_Product
  <2>6. SumSizes(T) = Cardinality(sst[t].recs)
    <3>1. PICK c \in Nat : c = Cardinality(sst[t].recs)
      BY <2>3
    <3>2. SumSizes(T) = 1 * c
      BY <2>1, <2>4, <2>5, <3>1 DEF SumSizes
    <3> QED
      BY <3>1, <3>2
  <2>7. Cardinality(sst[t].recs) <= Threshold[tier]
    BY <2>2 DEF SizeInv, TableSizes
  <2> QED
    BY <1>2, <1>3, <2>3, <2>6, <2>7
<1>7. Cardinality(T) # 0 /\ Cardinality(T) # 1
  BY <1>1, <1>5, <1>6, FS_EmptySet, FS_Singleton
<1> QED
  BY <1>4, <1>7 DEF T

\* Popping takes two to MergeLimit tables of the tier.
LEMMA TierPopSizes ==
  ASSUME IInv, SizeInv, TierPop
  PROVE  /\ compactor'.pc = "merge" /\ compactor'.tier = compactor.tier
         /\ \A t \in compactor'.inputs : t \in 1..Len(sst) /\ sst[t].level = compactor.tier
         /\ Cardinality(compactor'.inputs) <= MergeLimit
<1> DEFINE T == TierTables(compactor.tier)
           delta == SumSizes(T) - Threshold[compactor.tier]
           N == PopCount(T, delta)
<1>1. /\ compactor' = [compactor EXCEPT !.pc = IF N < 2 THEN "abort" ELSE "merge",
                                        !.inputs = Oldest(T, N)]
      /\ compactor \in CompactorSet(Len(sst)) /\ delta > 0
  BY DEF TierPop, IInv, TypeOK, CompactorType, CompactorSet
<1>2. compactor.tier \in Nat
  BY <1>1 DEF CompactorSet
<1>3. Cardinality(T) \in Nat /\ Cardinality(T) >= 2
  BY <1>1, <1>2, TwoTables
<1>4. IsFiniteSet(T) /\ T \subseteq 1..Len(sst) /\ \A t \in T : sst[t].level = compactor.tier
  BY TierFinite, Ranges DEF TierTables
<1>5. N = PopCount(T, delta)
  OBVIOUS
<1> HIDE DEF T, delta, N
<1>6. /\ N \in 0..Cardinality(T) /\ N <= MergeLimit
      /\ N >= 2 \/ N = Cardinality(T)
  BY <1>4, <1>5, PopCountRange
<1>7. N \in Nat /\ ~(N < 2)
  BY <1>3, <1>6
<1>8. /\ compactor'.pc = "merge" /\ compactor'.tier = compactor.tier
      /\ compactor'.inputs = Oldest(T, N)
  BY <1>1, <1>7 DEF CompactorSet
<1>9. T \in SUBSET Nat
  BY <1>4
<1>10. IsFiniteSet(Oldest(T, N)) /\ Cardinality(Oldest(T, N)) <= N
  BY <1>4, <1>7, <1>9, OldestBound
<1>11. Cardinality(Oldest(T, N)) <= MergeLimit
  BY <1>6, <1>7, <1>10, FS_CardinalityType, ConstantsAssumption
<1> QED
  BY <1>4, <1>8, <1>11 DEF Oldest

\* What a merge writes fits the next tier.
LEMMA MergedSize ==
  ASSUME IInv, SizeInv, compactor.tier \in Nat
  PROVE  Cardinality(RecordsOf(compactor.inputs)) <= Threshold[compactor.tier + 1]
<1> DEFINE I == compactor.inputs
           m == Threshold[compactor.tier]
           f == [t \in I |-> sst[t].recs]
<1>1. m \in Nat /\ Threshold[compactor.tier + 1] = TierGrowth * m
  BY ThresholdProperties
<1>2. I \subseteq 1..Len(sst) /\ Len(sst) \in Nat
  BY Ranges
<1>3. IsFiniteSet(I)
  <2>1. IsFiniteSet(1..Len(sst))
    BY <1>2, FS_Interval
  <2> QED
    BY <1>2, <2>1, FS_Subset
<1>4. \A t \in I : IsFiniteSet(f[t]) /\ Cardinality(f[t]) <= m
  BY <1>2, SizesAreNumbers DEF SizeInv, TableSizes, MergeInv
<1>5. RecordsOf(I) = UNION {f[t] : t \in I}
  BY DEF RecordsOf
<1> HIDE DEF f
<1>6. IsFiniteSet(RecordsOf(I)) /\ Cardinality(RecordsOf(I)) <= Cardinality(I) * m
  BY <1>1, <1>3, <1>4, <1>5, UnionBound
<1>7. Cardinality(I) \in Nat /\ Cardinality(I) <= MergeLimit /\ MergeLimit <= TierGrowth
      /\ MergeLimit \in Nat /\ TierGrowth \in Nat
  BY <1>3, FS_CardinalityType, ConstantsAssumption, TierConstants DEF SizeInv, MergeInv
<1>8. Cardinality(I) <= TierGrowth
  BY <1>7
<1>9. Cardinality(RecordsOf(I)) \in Nat
  BY <1>6, FS_CardinalityType
<1> HIDE DEF I, m
<1>10. PICK i \in Nat, c \in Nat, g \in Nat :
         i = Cardinality(I) /\ c = Cardinality(RecordsOf(I)) /\ g = TierGrowth
  BY <1>7, <1>9
<1>11. i * m <= g * m
  BY <1>1, <1>8, <1>10
<1>12. c <= g * m
  BY <1>1, <1>6, <1>10, <1>11
<1> QED
  BY <1>1, <1>10, <1>12 DEF I

\* Retaining and releasing keep the tiers.
LEMMA LevelsRetainRelease ==
  ASSUME TypeOK, NEW T, sst' \in {sst, Retain(sst, T), Release(sst, T)}
  PROVE  Len(sst') = Len(sst) /\ LevelsKept /\ \A t \in 1..Len(sst) : sst'[t].recs = sst[t].recs
<1>1. sst \in [1..Len(sst) -> SSTable] /\ DOMAIN sst = 1..Len(sst)
  BY DEF TypeOK, TableType
<1>2. Len(sst') = Len(sst) /\ \A t \in 1..Len(sst) : sst'[t].recs = sst[t].recs
  BY RetainRelease DEF Counted
<1>3. ASSUME NEW t \in 1..Len(sst) PROVE sst'[t].level = sst[t].level
  <2>1. sst[t] \in SSTable
    BY <1>1
  <2>2. sst'[t] \in {sst[t], [sst[t] EXCEPT !.ref = @ + 1], [sst[t] EXCEPT !.ref = @ - 1]}
    BY <1>1 DEF Retain, Release
  <2> QED
    BY <2>1, <2>2 DEF SSTable
<1> QED
  BY <1>2, <1>3 DEF LevelsKept

\* A step that changes no content keeps the sizes of the tables.
LEMMA SizesKept ==
  ASSUME SizeInv, Len(sst') = Len(sst), LevelsKept,
         \A t \in 1..Len(sst) : sst'[t].recs = sst[t].recs
  PROVE  TableSizes'
BY DEF SizeInv, TableSizes, LevelsKept

\* The table a merge fills and the tables it reads were created.
LEMMA MergeTables ==
  ASSUME IInv
  PROVE  /\ compactor.inputs \subseteq 1..Len(sst)
         /\ compactor.pc \in {"wait_active", "wait_count", "add"} => compactor.tab \in 1..Len(sst)
<1>1. compactor.inputs \subseteq 1..Len(sst) /\ files \subseteq 1..Len(sst)
  BY Ranges
<1> QED
  BY <1>1 DEF IInv, CompactorInv, Fresh

\* A step that is not the compaction daemon's keeps the invariant of a merge.
LEMMA MergeKept ==
  ASSUME IInv, SizeInv, LevelsKept, compactor' = compactor
  PROVE  MergeInv'
BY MergeTables DEF SizeInv, MergeInv, LevelsKept

\* A memtable that is not full takes one record more.
LEMMA MemSizesGrow ==
  ASSUME IInv, SizeInv,
         \/ FlushRegister
         \/ \E k \in Keys \cup {ReservedKey} : InsertPlace(k) \/ InsertRotate(k)
  PROVE  MemSizes'
<1>1. /\ mem \in [1..Len(mem) -> Memtable] /\ Len(mem) \in Nat /\ mem \in Seq(Memtable)
      /\ Len(mem) \in 1..Len(mem) /\ SizeThreshold \in Nat
  BY Ranges, ConstantsAssumption DEF IInv, TypeOK, MemType
<1>2. ASSUME NEW new, mem' = Append(mem, new), Cardinality(new.recs) \in {0, 1} PROVE MemSizes'
  <2>1. Len(mem') = Len(mem) + 1
    BY <1>1, <1>2
  <2>2. ASSUME NEW m \in 1..Len(mem') PROVE Cardinality(mem'[m].recs) <= SizeThreshold + 1
    <3>1. CASE m \in 1..Len(mem)
      BY <1>1, <1>2, <3>1 DEF SizeInv, MemSizes
    <3>2. CASE m = Len(mem) + 1
      <4>1. mem'[m] = new
        BY <1>1, <1>2, <3>2
      <4> QED
        BY <1>1, <1>2, <4>1
    <3> QED
      BY <1>1, <2>1, <3>1, <3>2
  <2> QED
    BY <2>2 DEF MemSizes
<1>3. Cardinality({}) = 0 /\ \A x : Cardinality({x}) = 1
  BY FS_EmptySet, FS_Singleton
<1>4. CASE UNCHANGED mem
  BY <1>4 DEF SizeInv, MemSizes
<1>5. CASE FlushRegister
  <2>1. UNCHANGED mem \/ mem' = Append(mem, NewMemtable)
    BY <1>5 DEF FlushRegister
  <2>2. Cardinality(NewMemtable.recs) \in {0, 1}
    BY <1>3 DEF NewMemtable
  <2> QED
    BY <1>2, <1>4, <2>1, <2>2
<1>6. ASSUME NEW k \in Keys \cup {ReservedKey}, InsertRotate(k) PROVE MemSizes'
  <2>1. PICK new : mem' = Append(mem, new) /\ (new.recs = {} \/ \E x : new.recs = {x})
    <3> DEFINE x == <<k, inserted + 1>>
    <3>1. \/ mem' = Append(mem, NewMemtable)
          \/ mem' = Append(mem, [NewMemtable EXCEPT !.recs = {x}])
      BY <1>6 DEF InsertRotate
    <3> HIDE DEF x
    <3>2. NewMemtable.recs = {} /\ [NewMemtable EXCEPT !.recs = {x}].recs = {x}
      BY DEF NewMemtable
    <3> QED
      BY <3>1, <3>2
  <2>2. Cardinality(new.recs) \in {0, 1}
    BY <1>3, <2>1
  <2> QED
    BY <1>2, <2>1, <2>2
<1>7. ASSUME NEW k \in Keys \cup {ReservedKey}, InsertPlace(k) PROVE MemSizes'
  <2> DEFINE n == Len(mem)
  <2>1. CASE ~UNCHANGED mem
    <3>1. PICK x : mem' = [mem EXCEPT ![n].recs = @ \cup {x}]
      BY <1>7, <2>1 DEF InsertPlace, Current
    <3>2. IsFiniteSet(mem[n].recs) /\ Cardinality(mem[n].recs) \in Nat
      BY <1>1, SizesAreNumbers
    <3>3. Cardinality(mem[n].recs) <= SizeThreshold
      BY <1>1, <1>7, <3>2 DEF InsertPlace, MemtableFull, Size, Current
    <3>4. Cardinality(mem[n].recs \cup {x}) <= SizeThreshold + 1
      <4>1. Cardinality(mem[n].recs \cup {x})
              \in {Cardinality(mem[n].recs), Cardinality(mem[n].recs) + 1}
        BY <3>2, FS_AddElement
      <4> QED
        BY <1>1, <3>2, <3>3, <4>1
    <3>5. /\ DOMAIN mem' = 1..n /\ mem'[n].recs = mem[n].recs \cup {x}
          /\ \A m \in 1..n : m # n => mem'[m] = mem[m]
      BY <1>1, <3>1 DEF Memtable
    <3>6. Len(mem') = n
      <4>1. mem' \in [1..n -> {mem'[m] : m \in 1..n}]
        BY <3>1, <3>5
      <4> QED
        BY <1>1, <4>1, FunctionIsSeq
    <3> QED
      BY <3>4, <3>5, <3>6 DEF SizeInv, MemSizes
  <2> QED
    BY <1>4, <2>1
<1> QED
  BY <1>5, <1>6, <1>7

\* The writer and the readers.
LEMMA SizeWriter ==
  ASSUME IInv, SizeInv,
         \/ UNCHANGED vars \/ Calls \/ WriterStep \/ SpuriousWakeup
         \/ \E r \in Readers : IteratorCreate(r) \/ IteratorClose(r)
  PROVE  SizeInv'
<1>1. compactor' = compactor
  BY DEF Calls, WriterStep, InsertBlocked, InsertPlace, InsertRotate, InsertWait, InsertSignal,
     FlushRegister, FlushPool, FlushSignal, FlushCheck, SpuriousWakeup, Free, FreeJoinFlush,
     FreeJoinCompact, IteratorCreate, IteratorClose, vars
<1>2. \E T : sst' \in {sst, Retain(sst, T), Release(sst, T)}
  BY DEF Calls, WriterStep, InsertBlocked, InsertPlace, InsertRotate, InsertWait, InsertSignal,
     FlushRegister, FlushPool, FlushSignal, FlushCheck, SpuriousWakeup, Free, FreeJoinFlush,
     FreeJoinCompact, IteratorCreate, IteratorClose, vars
<1>3. Len(sst') = Len(sst) /\ LevelsKept /\ \A t \in 1..Len(sst) : sst'[t].recs = sst[t].recs
  BY <1>2, LevelsRetainRelease DEF IInv
<1>4. MemSizes'
  <2>1. writer.key \in Keys \cup {ReservedKey}
    BY DEF IInv, TypeOK, WriterType
  <2>2. CASE \/ FlushRegister
             \/ \E k \in Keys \cup {ReservedKey} : InsertPlace(k) \/ InsertRotate(k)
    BY <2>2, MemSizesGrow
  <2>3. ASSUME NEW r \in Readers, IteratorCreate(r) \/ IteratorClose(r) PROVE MemsKept
    <3>1. CASE IteratorCreate(r)
      <4>1. PICK m \in {0, Len(mem)} : mem' = IF m = 0 THEN mem ELSE [mem EXCEPT ![m].ref = @ + 1]
        BY <3>1 DEF IteratorCreate, Current
      <4>2. m \in 0..Len(mem)
        BY <4>1, Ranges
      <4> QED
        BY <4>1, <4>2, MemReference DEF MemCounted, IInv
    <3>2. CASE IteratorClose(r)
      <4>1. iter[r].mem \in 0..Len(mem)
        BY DEF IInv, TypeOK, IterType
      <4> QED
        BY <3>2, <4>1, MemReference DEF IteratorClose, MemCounted, IInv
    <3> QED
      BY <2>3, <3>1, <3>2
  <2>4. CASE mem' = mem
    BY <2>4 DEF SizeInv, MemSizes
  <2>5. MemsKept => MemSizes'
    BY DEF SizeInv, MemSizes, MemsKept
  <2>6. CASE UNCHANGED vars \/ Calls \/ WriterStep \/ SpuriousWakeup
    <3>1. CASE ~(\/ FlushRegister
                 \/ \E k \in Keys \cup {ReservedKey} : InsertPlace(k) \/ InsertRotate(k))
      <4>1. mem' = mem
        BY <2>1, <2>6, <3>1 DEF Calls, WriterStep, InsertBlocked, InsertWait, InsertSignal,
           FlushPool, FlushSignal, FlushCheck, SpuriousWakeup, Free, FreeJoinFlush,
           FreeJoinCompact, vars
      <4> QED
        BY <2>4, <4>1
    <3> QED
      BY <2>2, <3>1
  <2> QED
    BY <2>3, <2>5, <2>6
<1> QED
  BY <1>1, <1>3, <1>4, MergeKept, SizesKept DEF SizeInv

\* A table that is added fits the tier it is added to.
LEMMA SizesAppend ==
  ASSUME IInv, SizeInv, NEW s \in Seq(SSTable), Len(s) = Len(sst),
         \A t \in 1..Len(sst) : s[t].recs = sst[t].recs /\ s[t].level = sst[t].level,
         NEW new, sst' = Append(s, new), Cardinality(new.recs) <= Threshold[new.level]
  PROVE  TableSizes' /\ LevelsKept /\ sst'[Len(sst) + 1] = new
<1>1. /\ Len(sst') = Len(sst) + 1 /\ Len(sst) \in Nat
      /\ sst'[Len(sst) + 1] = new /\ \A t \in 1..Len(sst) : sst'[t] = s[t]
  OBVIOUS
<1>2. LevelsKept
  BY <1>1 DEF LevelsKept
<1>3. ASSUME NEW t \in 1..Len(sst') PROVE Cardinality(sst'[t].recs) <= Threshold[sst'[t].level]
  <2>1. CASE t \in 1..Len(sst)
    BY <1>1, <2>1 DEF SizeInv, TableSizes
  <2>2. CASE t = Len(sst) + 1
    BY <1>1, <2>2
  <2> QED
    BY <1>1, <2>1, <2>2
<1> QED
  BY <1>1, <1>2, <1>3 DEF TableSizes

\* The flush daemon: a memtable fits the first tier.
LEMMA SizeFlusher ==
  ASSUME IInv, SizeInv, FlusherStep
  PROVE  SizeInv'
<1> USE DEF FlushDaemonWake, FlushScan, FlushIdle, FlushWrite, FlushAdd, FlushPersist,
            FlushUnregister, FlushRelease, FlushNotifyCompaction, FlushNotifyPool
<1>1. compactor' = compactor
  BY DEF FlusherStep
<1>2. MemSizes'
  <2>1. CASE FlushRelease
    <3>1. flusher.mem \in 0..Len(mem) /\ flusher.mem # 0
      <4>1. flusher.mem \in 1..Len(mem) /\ Len(mem) \in Nat
        BY <2>1, Ranges DEF IInv, FlusherInv
      <4> QED
        BY <4>1
    <3>2. MemCounted(flusher.mem, -1)
      BY <2>1, <3>1, MemReference DEF IInv
    <3> QED
      BY <3>2 DEF MemCounted, MemsKept, SizeInv, MemSizes
  <2>2. CASE ~FlushRelease
    <3>1. mem' = mem
      BY <2>2 DEF FlusherStep
    <3> QED
      BY <3>1 DEF SizeInv, MemSizes
  <2> QED
    BY <2>1, <2>2
<1>3. TableSizes' /\ LevelsKept
  <2>1. CASE FlushWrite /\ mem[flusher.mem].recs # {}
    <3> DEFINE new == [recs |-> mem[flusher.mem].recs, level |-> 0, ref |-> 1, old |-> FALSE]
    <3>1. sst' = Append(sst, new)
      BY <2>1
    <3>2. flusher.mem \in 1..Len(mem)
      BY <2>1, Ranges DEF IInv, FlusherInv
    <3>3. Cardinality(mem[flusher.mem].recs) <= Threshold[0]
      <4>1. Cardinality(mem[flusher.mem].recs) <= SizeThreshold + 1
        BY <3>2 DEF SizeInv, MemSizes
      <4>2. Cardinality(mem[flusher.mem].recs) \in Nat
        BY <3>2, SizesAreNumbers
      <4>3. SizeThreshold + 1 <= ZeroLevelMax
        BY ConstantsAssumption, TierConstants
      <4> QED
        BY <4>1, <4>2, <4>3, ConstantsAssumption, ThresholdProperties
    <3>4. Cardinality(new.recs) <= Threshold[new.level]
      BY <3>3
    <3>5. sst \in Seq(SSTable)
      BY DEF IInv, TypeOK, TableType
    <3> HIDE DEF new
    <3> QED
      BY <3>1, <3>4, <3>5, SizesAppend
  <2>2. CASE ~(FlushWrite /\ mem[flusher.mem].recs # {})
    <3>1. sst' = sst
      BY <2>2 DEF FlusherStep
    <3> QED
      BY <3>1, SizesKept DEF LevelsKept
  <2> QED
    BY <2>1, <2>2
<1> QED
  BY <1>1, <1>2, <1>3, MergeKept DEF SizeInv

\* The next tier is begun with nothing popped.
LEMMA NextTierMerge ==
  ASSUME NEW c \in CompactorSet(Len(sst)), c.inputs = {}
  PROVE  NextTier(c).pc \in {"tier", "copy", "idle"} /\ NextTier(c).inputs = {}
<1>1. CASE c.tier < c.top
  BY <1>1 DEF NextTier, CompactorSet
<1>2. CASE ~(c.tier < c.top) /\ c.garbage # {}
  BY <1>2 DEF NextTier, CompactorSet
<1>3. CASE ~(c.tier < c.top) /\ c.garbage = {}
  BY <1>3 DEF NextTier, NoCompaction
<1> QED
  BY <1>1, <1>2, <1>3

\* With nothing popped and no merge running there is nothing to keep.
LEMMA NoMerge ==
  ASSUME compactor'.inputs = {}, compactor'.pc \notin {"abort", "wait_active", "wait_count"}
  PROVE  MergeInv'
<1>1. Cardinality(compactor'.inputs) <= MergeLimit
  BY FS_EmptySet, ConstantsAssumption
<1> QED
  BY <1>1 DEF MergeInv

\* The compaction daemon while it creates no table and fills none.
LEMMA SizeCompactorQuiet ==
  ASSUME IInv, SizeInv, CompactorStep, ~MergeOpen, ~MergeFinish
  PROVE  SizeInv'
<1> USE DEF CompactionDaemonWake, CompactStart, TierFits, MergePollActive, MergePollCount,
            MergeWrite, CompactAdd, CompactCopy, CompactPersist
<1>0. compactor \in CompactorSet(Len(sst))
  BY DEF IInv, TypeOK, CompactorType, CompactorSet
<1>1. MemSizes'
  <2>1. mem' = mem
    BY DEF CompactorStep, TierPop, CompactDelete
  <2> QED
    BY <2>1 DEF SizeInv, MemSizes
<1>2. TableSizes' /\ LevelsKept
  <2>1. CASE CompactDelete
    <3>1. Len(sst') = Len(sst) /\ \A t \in 1..Len(sst) : sst'[t].recs = sst[t].recs
      BY <2>1, CompactDeleteTables
    <3>2. LevelsKept
      <4> DEFINE s == Marked(compactor.garbage)
      <4>1. s \in Seq(SSTable) /\ Len(s) = Len(sst)
        BY MarkedProperties DEF IInv, TypeOK, CompactorType
      <4>2. sst \in [1..Len(sst) -> SSTable] /\ DOMAIN sst = 1..Len(sst)
        BY DEF IInv, TypeOK, TableType
      <4>3. sst' = Release(s, compactor.garbage)
        BY <2>1 DEF CompactDelete, Marked
      <4>4. ASSUME NEW t \in 1..Len(sst) PROVE s[t].level = sst[t].level /\ s[t] \in SSTable
        <5>1. sst[t] \in SSTable
          BY <4>2
        <5>2. s[t] \in {sst[t], [sst[t] EXCEPT !.old = TRUE]}
          BY <4>2 DEF Marked
        <5> QED
          BY <4>1, <5>1, <5>2 DEF SSTable
      <4> HIDE DEF s
      <4>5. DOMAIN s = 1..Len(sst)
        BY <4>1
      <4>6. ASSUME NEW t \in 1..Len(sst) PROVE sst'[t].level = s[t].level
        <5>1. s[t] \in SSTable /\ sst'[t] \in {s[t], [s[t] EXCEPT !.ref = @ - 1]}
          BY <4>3, <4>4, <4>5 DEF Release
        <5> QED
          BY <5>1 DEF SSTable
      <4> QED
        BY <4>4, <4>6 DEF LevelsKept
    <3> QED
      BY <3>1, <3>2, SizesKept
  <2>2. CASE ~CompactDelete
    <3>1. sst' = sst
      BY <2>2 DEF CompactorStep, TierPop
    <3> QED
      BY <3>1, SizesKept DEF LevelsKept
  <2> QED
    BY <2>1, <2>2
<1>3. MergeInv'
  <2>1. CASE TierPop
    <3>1. /\ compactor'.pc = "merge" /\ compactor'.tier = compactor.tier
          /\ \A t \in compactor'.inputs : t \in 1..Len(sst) /\ sst[t].level = compactor.tier
          /\ Cardinality(compactor'.inputs) <= MergeLimit
      BY <2>1, TierPopSizes
    <3> QED
      BY <1>2, <3>1 DEF MergeInv, LevelsKept
  <2>2. CASE TierFits
    <3>1. compactor.inputs = {} /\ compactor' = NextTier(compactor)
      BY <2>2 DEF IInv, CompactorInv
    <3>2. compactor'.pc \in {"tier", "copy", "idle"} /\ compactor'.inputs = {}
      BY <1>0, <3>1, NextTierMerge
    <3> QED
      BY <3>2, NoMerge
  <2>3. CASE CompactAdd
    <3> DEFINE c == [compactor EXCEPT !.inputs = {}, !.tab = 0,
                                      !.garbage = @ \cup compactor.inputs]
    <3>1. c \in CompactorSet(Len(sst)) /\ c.inputs = {}
      <4>1. 0 \in 0..Len(sst)
        BY Ranges
      <4> QED
        BY <1>0, <4>1 DEF CompactorSet
    <3>2. compactor' = NextTier(c)
      BY <2>3
    <3> HIDE DEF c
    <3>3. compactor'.pc \in {"tier", "copy", "idle"} /\ compactor'.inputs = {}
      BY <3>1, <3>2, NextTierMerge
    <3> QED
      BY <3>3, NoMerge
  <2>4. CASE CompactDelete
    BY <2>4, NoMerge DEF CompactDelete, NoCompaction
  <2>5. CASE CompactionDaemonWake \/ CompactStart \/ CompactCopy \/ CompactPersist
    <3>1. compactor.inputs = {}
      BY <2>5 DEF IInv, CompactorInv
    <3>2. /\ compactor'.inputs = compactor.inputs
          /\ compactor'.pc \notin {"abort", "wait_active", "wait_count"}
      BY <1>0, <2>5 DEF CompactorSet
    <3> QED
      BY <3>1, <3>2, NoMerge
  <2>6. CASE MergePollActive \/ MergePollCount \/ MergeWrite
    <3>1. /\ compactor'.inputs = compactor.inputs /\ compactor'.tier = compactor.tier
          /\ compactor'.tab = compactor.tab /\ compactor'.pc \in {"wait_active", "wait_count"}
          /\ compactor.pc \in {"wait_active", "wait_count"}
      BY <1>0, <2>6 DEF CompactorSet
    <3> QED
      BY <1>2, <3>1, MergeTables DEF SizeInv, MergeInv, LevelsKept
  <2> QED
    BY <2>1, <2>2, <2>3, <2>4, <2>5, <2>6 DEF CompactorStep
<1> QED
  BY <1>1, <1>2, <1>3 DEF SizeInv

\* A merge creates its table for the next tier.
LEMMA SizeMergeOpen ==
  ASSUME IInv, SizeInv, MergeOpen
  PROVE  SizeInv'
<1> DEFINE new == [recs |-> {}, level |-> compactor.tier + 1, ref |-> 1, old |-> FALSE]
           s   == Retain(sst, compactor.inputs)
<1>1. compactor \in CompactorSet(Len(sst)) /\ sst \in Seq(SSTable)
  BY DEF IInv, TypeOK, CompactorType, CompactorSet, TableType
<1>2. compactor.tier + 1 \in Nat
  BY <1>1 DEF CompactorSet
<1>3. sst' = Append(s, new)
  BY DEF MergeOpen
<1>4. s \in Seq(SSTable) /\ Len(s) = Len(sst) /\ \A t \in 1..Len(sst) : s[t].recs = sst[t].recs
  BY <1>1, RetainProperties
<1>5. ASSUME NEW t \in 1..Len(sst) PROVE s[t].level = sst[t].level
  <2>1. sst[t] \in SSTable /\ s[t] \in {sst[t], [sst[t] EXCEPT !.ref = @ + 1]}
    BY <1>1 DEF Retain
  <2> QED
    BY <2>1 DEF SSTable
<1>6. Cardinality(new.recs) <= Threshold[new.level]
  BY <1>2, FS_EmptySet, ThresholdProperties
<1>7. /\ compactor'.pc = "wait_active" /\ compactor'.tab = Len(sst) + 1
      /\ compactor'.tier = compactor.tier /\ compactor'.inputs = compactor.inputs
  BY <1>1 DEF MergeOpen, CompactorSet
<1>8. new.level = compactor.tier + 1
  OBVIOUS
<1> HIDE DEF new, s
<1>9. TableSizes' /\ LevelsKept /\ sst'[Len(sst) + 1] = new
  BY <1>3, <1>4, <1>5, <1>6, SizesAppend
<1>10. MergeInv'
  BY <1>7, <1>8, <1>9, MergeTables DEF SizeInv, MergeInv, LevelsKept
<1>11. MemSizes'
  BY DEF MergeOpen, SizeInv, MemSizes
<1> QED
  BY <1>9, <1>10, <1>11 DEF SizeInv

\* A merge fills its table with what fits the next tier.
LEMMA SizeMergeFinish ==
  ASSUME IInv, SizeInv, MergeFinish
  PROVE  SizeInv'
<1> DEFINE s == Release(sst, compactor.inputs)
<1>1. compactor \in CompactorSet(Len(sst)) /\ sst \in Seq(SSTable) /\ compactor.pc = "wait_count"
  BY DEF IInv, TypeOK, CompactorType, CompactorSet, TableType, MergeFinish
<1>2. s \in Seq(SSTable) /\ Len(s) = Len(sst)
  BY <1>1, ReleaseProperties
<1>3. ASSUME NEW t \in 1..Len(sst) PROVE s[t].level = sst[t].level
  <2>1. sst[t] \in SSTable /\ s[t] \in {sst[t], [sst[t] EXCEPT !.ref = @ - 1]}
    BY <1>1 DEF Release
  <2> QED
    BY <2>1 DEF SSTable
<1>4. compactor.tab \in 1..Len(sst) /\ Len(sst') = Len(sst)
      /\ \A t \in 1..Len(sst) : t # compactor.tab => sst'[t].recs = sst[t].recs
  BY MergeFinishTables
<1>5. sst' = [s EXCEPT ![compactor.tab].recs = RecordsOf(compactor.inputs)]
  BY DEF MergeFinish, Merged
<1> HIDE DEF s
<1>6. \A t \in 1..Len(sst) : s[t] \in SSTable
  BY <1>2
<1>7. LevelsKept /\ sst'[compactor.tab].recs = RecordsOf(compactor.inputs)
  BY <1>2, <1>3, <1>4, <1>5, <1>6 DEF LevelsKept, SSTable
<1>8. compactor.tier \in Nat /\ sst[compactor.tab].level = compactor.tier + 1
  BY <1>1 DEF SizeInv, MergeInv, CompactorSet
<1>9. Cardinality(RecordsOf(compactor.inputs)) <= Threshold[compactor.tier + 1]
  BY <1>8, MergedSize
<1>10. TableSizes'
  BY <1>4, <1>7, <1>8, <1>9 DEF SizeInv, TableSizes, LevelsKept
<1>11. /\ compactor'.pc = "add" /\ compactor'.tier = compactor.tier
       /\ compactor'.inputs = compactor.inputs
  BY <1>1 DEF MergeFinish, CompactorSet
<1>12. MergeInv'
  BY <1>7, <1>11, MergeTables DEF SizeInv, MergeInv, LevelsKept
<1>13. MemSizes'
  BY DEF MergeFinish, SizeInv, MemSizes
<1> QED
  BY <1>10, <1>12, <1>13 DEF SizeInv

\* Nothing is stored in the first state.
LEMMA SizeInit == Init => SizeInv
<1> SUFFICES ASSUME Init PROVE SizeInv
  OBVIOUS
<1>1. Len(mem) = 1 /\ mem[1].recs = {} /\ Len(sst) = 0
  BY DEF Init, NewMemtable
<1>2. Cardinality({}) = 0 /\ SizeThreshold \in Nat /\ MergeLimit \in Nat
  BY FS_EmptySet, ConstantsAssumption
<1>3. MemSizes
  <2>1. 0 <= SizeThreshold + 1 /\ 1..Len(mem) = {1}
    BY <1>1, <1>2
  <2> QED
    BY <1>1, <1>2, <2>1 DEF MemSizes
<1>4. TableSizes
  BY <1>1 DEF TableSizes
<1>5. MergeInv
  BY <1>2 DEF Init, NoCompaction, MergeInv
<1> QED
  BY <1>3, <1>4, <1>5 DEF SizeInv

\* Every step keeps the sizes within the limits.
LEMMA SizeStep == IInv /\ SizeInv /\ [Next]_vars => SizeInv'
BY SizeWriter, SizeFlusher, SizeCompactorQuiet, SizeMergeOpen, SizeMergeFinish
   DEF Next, Step, Stopped

\* The exit(1) of sst_compact is not reached: whatever the limits of the tiers,
\* as long as a memtable fits the first tier and a merge the next one, a tier
\* over its limit has two tables to merge.
THEOREM CompactionNeverQuits == Spec => []NeverQuits
<1>1. SizeInv => NeverQuits
  BY DEF SizeInv, MergeInv, NeverQuits
<1> QED
  BY <1>1, Invariance, SizeInit, SizeStep, PTL DEF Spec
====
