---------------------------- MODULE MCWritePath ----------------------------
(* Instances of the write path for TLC.                                      *)
EXTENDS WritePath

Symmetry == Permutations(Conns)
====
