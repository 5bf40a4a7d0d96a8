---------------------------- MODULE RecordStore ----------------------------
(***************************************************************************)
(* What the storage engine promises its callers: a record that was accepted *)
(* is kept; it moves to disk at some later time, never back; and           *)
(* lsmt_flush returns only once every record accepted before the call is   *)
(* on disk.                                                                *)
(***************************************************************************)
VARIABLES
  stored,    \* the records accepted so far
  durable,   \* those that are on disk
  flushing   \* what a running lsmt_flush must bring to disk; {} when none runs

vars == <<stored, durable, flushing>>

Init == stored = {} /\ durable = {} /\ flushing = {}

Put ==
  /\ flushing = {}
  /\ \E r \in stored' \ stored : stored' = stored \cup {r}
  /\ UNCHANGED <<durable, flushing>>

\* Some accepted records, a memtable's worth, reach the disk.
Harden ==
  /\ durable \subseteq durable' /\ durable' \subseteq stored
  /\ UNCHANGED <<stored, flushing>>

FlushCall ==
  /\ flushing = {}
  /\ flushing' = stored
  /\ UNCHANGED <<stored, durable>>

FlushReturn ==
  /\ flushing \subseteq durable
  /\ flushing' = {}
  /\ UNCHANGED <<stored, durable>>

Next == Put \/ Harden \/ FlushCall \/ FlushReturn

Spec == Init /\ [][Next]_vars
====
