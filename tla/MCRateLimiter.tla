--------------------------- MODULE MCRateLimiter ---------------------------
(* Instances of RateLimiter for TLC.                                       *)
EXTENDS RateLimiter

CONSTANTS c1, c2

TwoCallers == {c1, c2}
=============================================================================
