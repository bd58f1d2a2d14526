----------------------------- MODULE MCDelivery -----------------------------
(* Instances of Delivery for TLC.                                          *)
EXTENDS Delivery

CONSTANTS q1, q2, q3

ThreeRequests == {q1, q2, q3}
=============================================================================
