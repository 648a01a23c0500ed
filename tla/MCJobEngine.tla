----------------------------- MODULE MCJobEngine -----------------------------
(* Instances of JobEngine for TLC.                                          *)
EXTENDS JobEngine

CONSTANTS j1, j2, j3, d0, auto, t1, t2, o1

\* Every job and every initialisation on drive 0, and one tape for them.
AllOnFirst == [j \in Jobs |-> d0]
OneTape    == [j \in Jobs |-> t1]
OpOnFirst  == [o \in Ops |-> d0]
OpOnTape   == [o \in Ops |-> t1]

\* j2 comes from a schedule with drive -1 and has a tape of its own.
AutoSecond == [j \in Jobs |-> IF j = j2 THEN auto ELSE d0]
AutoThird  == [j \in Jobs |-> IF j = j3 THEN auto ELSE d0]
TwoTapes   == [j \in Jobs |-> IF j = j2 THEN t2 ELSE t1]
=============================================================================
