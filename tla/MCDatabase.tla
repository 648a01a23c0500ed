------------------------------ MODULE MCDatabase ------------------------------
(* Instances of Database for TLC.                                           *)
EXTENDS Database, TLC

CONSTANTS r1, r2, w1, c1, c2, c3, c4

\* Nothing tells requests, or connections, apart.
DatabaseSymmetry == Permutations(Requests) \cup Permutations(Conns)
===============================================================================
