---------------------------- MODULE MCANNTStore ----------------------------
(* Instances of ANNTStore for TLC.                                         *)
EXTENDS ANNTStore, TLC

CONSTANTS e1, c1, c2, p1, p2

OneCamera == {e1}
TwoCalls == {c1, c2}
TwoRegisters == {p1, p2}

\* Requests do not differ, nor do registers.
Alike == Permutations(TwoCalls) \cup Permutations(TwoRegisters)
=============================================================================
