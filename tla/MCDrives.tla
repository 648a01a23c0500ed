------------------------------- MODULE MCDrives -------------------------------
(* An instance of DriveUsers for TLC: the second tape of the backup is also   *)
(* one that the restore needs.                                                *)
EXTENDS DriveUsers, TLC

CONSTANTS t1, t2, p1, r1

Provided == p1 :> t2
Planned  == r1 :> <<t2, t1>>
===============================================================================
