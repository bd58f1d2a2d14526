-------------------------- MODULE TransactionLedger --------------------------
(***************************************************************************)
(* What the transaction machine of a register promises about transactions, *)
(* without events, timers, cameras or lines: a transaction that opens is   *)
(* reported once, in the step that closes it; the start command belongs to *)
(* the first transaction that opens after it; a start or an end closes     *)
(* everything; only the transaction the start belongs to, or one that was  *)
(* left alone after the end of its cart, can end well.                     *)
(***************************************************************************)
EXTENDS Integers

CONSTANT Seqs

Outcome == {"GOOD", "ABANDONED"}

VARIABLES
    open,       \* transactions being collected
    armed,      \* a start command waits for its transaction
    started,    \* open transactions the start command was given to
    ended,      \* open transactions whose last message was the end of the cart
    reported    \* the reports of the last step

vars == <<open, armed, started, ended, reported>>

Report(outcome) == {[tx |-> s, status |-> outcome[s]] : s \in DOMAIN outcome}
Abandoned(S) == {[tx |-> s, status |-> "ABANDONED"] : s \in S}

Init ==
    /\ open = {}
    /\ armed = FALSE
    /\ started = {}
    /\ ended = {}
    /\ reported = {}

\* In every step some transactions time out first, with one of these outcomes.
TimeoutOutcomes(timedOut) ==
    {o \in [timedOut -> Outcome] : \A s \in timedOut : o[s] = "GOOD" => s \in ended}

\* A message joins transaction s, which opens if it is not open.
Join(timedOut, outcome, s) ==
    /\ open' = (open \ timedOut) \cup {s}
    /\ \E last \in SUBSET {s} : ended' = ((ended \ timedOut) \ {s}) \cup last
    /\ reported' = Report(outcome)
    /\ IF s \in open \ timedOut
       THEN /\ started' = started \ timedOut
            /\ armed' = armed
       ELSE /\ started' = (started \ timedOut) \cup (IF armed THEN {s} ELSE {})
            /\ armed' = FALSE

\* A start command interrupts all that is open and waits for its transaction.
Interrupt(timedOut, outcome) ==
    /\ open' = {} /\ started' = {} /\ ended' = {} /\ armed' = TRUE
    /\ reported' = Report(outcome) \cup Abandoned(open \ timedOut)

\* An end command closes s, well only if s was started, and abandons the rest.
Finish(timedOut, outcome, s) ==
    /\ s \in open \ timedOut
    /\ open' = {} /\ started' = {} /\ ended' = {} /\ armed' = FALSE
    /\ \E o \in Outcome :
        /\ o = "GOOD" => s \in started
        /\ reported' = Report(outcome) \cup Abandoned((open \ timedOut) \ {s})
                         \cup {[tx |-> s, status |-> o]}

\* A message, or an end command, that finds no transaction open.
Outside(timedOut, outcome) ==
    /\ timedOut = open
    /\ open' = {} /\ started' = {} /\ ended' = {}
    /\ armed' \in {armed, FALSE}
    /\ reported' = Report(outcome)

Quiet == reported' = {} /\ UNCHANGED <<open, armed, started, ended>>

Next ==
    \/ Quiet
    \/ \E timedOut \in SUBSET open : \E outcome \in TimeoutOutcomes(timedOut) :
        \/ Interrupt(timedOut, outcome)
        \/ Outside(timedOut, outcome)
        \/ \E s \in Seqs : Join(timedOut, outcome, s) \/ Finish(timedOut, outcome, s)

Spec == Init /\ [][Next]_vars
=============================================================================
