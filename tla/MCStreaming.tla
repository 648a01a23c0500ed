----------------------------- MODULE MCStreaming -----------------------------
(* Instances of StreamingPipeline for TLC.                                  *)
EXTENDS StreamingPipeline

CONSTANTS r1, r2, d0, d1

SameDrive == [r \in Runs |-> d0]
TwoDrives == [r \in Runs |-> IF r = r1 THEN d0 ELSE d1]
ThreeEach == [r \in Runs |-> 3]
FourEach  == [r \in Runs |-> 4]
TwoEach   == [r \in Runs |-> 2]
OneOfEach == [f \in Files |-> 1]
BigSecond == [f \in Files |-> IF f[2] = 2 THEN 2 ELSE 1]
BigFirst  == [f \in Files |-> IF f[2] = 1 THEN 2 ELSE 1]
SecondFaulty == {<<r, 2>> : r \in Runs}
\* The second file of r2 does not fit beside another one.
Sizes == [f \in Files |-> IF f[2] # 2 THEN 1 ELSE IF f[1] = r1 THEN 2 ELSE 4]
OneFaulty == {<<r1, 2>>, <<r2, 3>>}
=============================================================================
