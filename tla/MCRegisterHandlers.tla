------------------------ MODULE MCRegisterHandlers ------------------------
(* Instances of RegisterHandlers for TLC.                                  *)
EXTENDS RegisterHandlers, TLC

CONSTANTS r1, r2, r3

MCRequests == {r1, r2, r3}
=============================================================================
