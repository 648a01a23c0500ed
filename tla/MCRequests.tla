------------------------------ MODULE MCRequests ------------------------------
(* Instances of TapeRequests for TLC: a bulk wipe and a format share a tape. *)
EXTENDS TapeRequests, TLC

CONSTANTS t1, t2, d0, wipe, format

KindPair  == wipe :> "quick" @@ format :> "format"
SameDrive == wipe :> d0 @@ format :> d0
BulkWipe  == wipe :> <<t1, t2>> @@ format :> <<t2>>
===============================================================================
