---------------------------- MODULE MCSimulator ----------------------------
(* Instances of Simulator for TLC.                                         *)
EXTENDS Simulator

CONSTANTS i1, i2

TwoIPs == {i1, i2}
=============================================================================
