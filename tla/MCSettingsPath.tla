--------------------------- MODULE MCSettingsPath ---------------------------
(* Instances of SettingsPath for TLC.                                      *)
EXTENDS SettingsPath, TLC

CONSTANTS e1, e2, i1, i2, i3

MCESNs == {e1, e2}
MCIPs == {i1, i2, i3}

\* Two cameras that may share i2: one moves between two registers and none, the
\* other keeps i2 and has at times an entry, for i3, that cannot be read.
SharingOffers == (e1 :> {{}, {i1}, {i2}}) @@ (e2 :> {{i2}, {i2, i3}})
MCUnreadable == {i3}
=============================================================================
