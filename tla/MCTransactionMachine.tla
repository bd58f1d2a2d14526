------------------------ MODULE MCTransactionMachine ------------------------
(* Instances of TransactionMachine for TLC: which messages the register     *)
(* sends in each run.                                                       *)
EXTENDS TransactionMachine

CONSTANTS s1, s2, e1, e2

TwoSeqs == {s1, s2}
OneCamera == {e1}
TwoCameras == {e1, e2}

\* Two transactions, their lines before and after the start triad, and ends of
\* the cart, with content and without.
SessionKinds == {"Start", "End", "Meta", "Header", "Cart", "CartEOT", "Summary"}

\* Messages that find no transaction, and one kind that opens one.
UnknownKinds == {"End", "Meta", "MetaNoSeq", "Cart", "Payment", "Other"}
=============================================================================
