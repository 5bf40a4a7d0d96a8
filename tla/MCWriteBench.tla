--------------------------- MODULE MCWriteBench ---------------------------
(* Instances of the write benchmark for TLC.                                 *)
EXTENDS WriteBench

\* A cluster of two nodes and one of a single node.
TwoClusters == <<<<1, 2>>, <<3>>>>
====
