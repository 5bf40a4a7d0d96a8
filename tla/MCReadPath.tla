----------------------------- MODULE MCReadPath -----------------------------
(* Instances of the read path for TLC.                                       *)
EXTENDS ReadPath
====
