--------------------------- MODULE MCQueryService ---------------------------
(* Instances of the query port for TLC.                                      *)
EXTENDS QueryService
====
