------------------------------- MODULE MCLsmt -------------------------------
(* Instances of the storage engine for TLC.                                  *)
EXTENDS Lsmt, TLC

Symmetry == Permutations(Keys) \cup Permutations(Readers)
====
