-------------------------- MODULE MCInsertService --------------------------
(* Instances of the insert port for TLC.                                     *)
EXTENDS InsertService
====
