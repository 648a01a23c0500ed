-------------------------------- MODULE MCTape --------------------------------
(* Instances of TapeController for TLC.                                     *)
EXTENDS TapeController, TLC

CONSTANTS t1, t2, d0

\* Nothing tells the tapes apart.
TapeSymmetry == Permutations(Tapes)
===============================================================================
