------------------------------ MODULE MCArchive ------------------------------
(* Instances of ArchiveContents for TLC.                                    *)
EXTENDS ArchiveContents, TLC

CONSTANTS s1, s2, p1, p2, v1, v2, t1, t2

Sizes == [v \in Versions |-> IF v = v1 THEN 2 ELSE 3]
Symmetry == Permutations(Tapes)
=============================================================================
