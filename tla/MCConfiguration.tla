-------------------------- MODULE MCConfiguration --------------------------
(* Instances of Configuration for TLC.                                      *)
EXTENDS Configuration, TLC

CONSTANTS e1, e2, i1, i2, i3

MCESNs == {e1, e2}
MCIPs == {i1, i2, i3}

\* Two cameras that never share a register.
ApartOffers == (e1 :> {{}, {i1}, {i2}, {i1, i2}}) @@ (e2 :> {{}, {i3}})

\* Two cameras that share a register.
SharedOffers == (e1 :> {{}, {i1}}) @@ (e2 :> {{}, {i1}, {i2}})
=============================================================================
