--------------------------- MODULE MCJobsOnLibrary ---------------------------
(* Instances of JobsOnLibrary for TLC.                                      *)
EXTENDS JobsOnLibrary

CONSTANTS j1, j2, t1, t2, d0, o1, auto

\* The jobs and an initialisation on drive 0; each job has a tape of its own, and the
\* initialisation is for the second's.
OnFirst  == [j \in Jobs |-> d0]
OwnTapes == [j \in Jobs |-> IF j = j1 THEN t1 ELSE t2]
OpFirst  == [o \in Ops |-> d0]
OpSecond == [o \in Ops |-> t2]
==============================================================================
