---------------------------- MODULE MCBatchRead ----------------------------
(* Instances of batched reads for TLC.                                       *)
EXTENDS BatchRead

\* A full batch and a short one, or two that reach the limit of pending ones.
SmallArgs == {[requests |-> 3, batch_size |-> 2], [requests |-> 2, batch_size |-> 1]}
====
