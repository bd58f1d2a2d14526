---------------------------- MODULE RateLimiter ----------------------------
(***************************************************************************)
(* The adaptive rate limiter and its circuit breaker                       *)
(* (internal/core/rate_limiter.go), as its callers would use it: CanServe, *)
(* then RecordSuccess or RecordFailure.  The callers are external; nothing *)
(* in the service calls the limiter yet.                                   *)
(*                                                                         *)
(* CanServe holds the limiter's mutex, the window and the health monitor   *)
(* have mutexes of their own, and cleanup takes none.  Time is an age in   *)
(* ticks, the same for every age beyond what the code compares it with.    *)
(* A rate is the number of requests it allows in a window.                 *)
(***************************************************************************)
EXTENDS Integers, Sequences, FiniteSets

CONSTANTS
    Callers,
    Window,         \* 30 seconds in the code
    Recovery,       \* 30 seconds
    AdjustEvery,    \* 5 seconds
    Threshold,      \* 5 failures
    MinLimit,       \* minRate and maxRate, in requests per window
    MaxLimit,
    MaxFailures     \* bound: failures recorded

\* The limiter starts at 80 % of its maximum.
StartLimit == (4 * MaxLimit + 4) \div 5

ASSUME LimiterAssumption ==
    /\ IsFiniteSet(Callers) /\ Callers # {}
    /\ Window \in Nat /\ Recovery \in Nat /\ AdjustEvery \in Nat
    /\ Threshold \in Nat \ {0}
    /\ MinLimit \in Nat \ {0} /\ MaxLimit \in Nat /\ MinLimit <= StartLimit
    /\ MaxFailures \in Nat

Circuits == {"closed", "open", "half"}

VARIABLES
    pc,             \* where each caller is
    kept,           \* what the caller in cleanup will store as the window
    requests,       \* successWindow.requests, as ages
    limit,          \* currentRate
    sinceAdjust,    \* age of lastAdjust
    circuit,        \* circuitState
    failures,       \* failureCount, up to the threshold
    silence,        \* age of lastResponse
    failed          \* failures recorded so far

vars == <<pc, kept, requests, limit, sinceAdjust, circuit, failures, silence, failed>>

windowVars == <<kept, requests>>
rateVars == <<limit, sinceAdjust>>
healthVars == <<circuit, failures, silence, failed>>

\* Which callers are inside CanServe, or between it and the end of their record.
Holding(c) == pc[c] \in {"cleanup", "store", "check"}
Pending == {c \in Callers : pc[c] = "serve"}

Free == \A c \in Callers : ~Holding(c)

Goto(c, step) == pc' = [pc EXCEPT ![c] = step]

Init ==
    /\ pc = [c \in Callers |-> "idle"]
    /\ kept = <<>>
    /\ requests = <<>>
    /\ limit = StartLimit
    /\ sinceAdjust = 0
    /\ circuit = "closed"
    /\ failures = 0
    /\ silence = Recovery + 1
    /\ failed = 0

-----------------------------------------------------------------------------
(* CanServe *)

\* Mutant: the failures are forgotten as the circuit is half open.
AskForgetting(c) ==
    /\ pc[c] = "idle" /\ Free
    /\ circuit = "open" => silence > Recovery
    /\ circuit' = IF circuit = "open" THEN "half" ELSE circuit
    /\ failures' = IF circuit = "open" THEN 0 ELSE failures
    /\ Goto(c, "cleanup")
    /\ UNCHANGED <<windowVars, rateVars, silence, failed>>

\* Mutant: an open circuit is not tried again.
AskWhileClosed(c) ==
    /\ pc[c] = "idle" /\ Free
    /\ circuit # "open"
    /\ Goto(c, "cleanup")
    /\ UNCHANGED <<windowVars, rateVars, healthVars>>

\* CanProceed lets everyone in while the circuit is half open.
Ask(c) ==
    /\ pc[c] = "idle" /\ Free
    /\ circuit = "open" => silence > Recovery
    /\ circuit' = IF circuit = "open" THEN "half" ELSE circuit
    /\ Goto(c, "cleanup")
    /\ UNCHANGED <<windowVars, rateVars, failures, silence, failed>>

Young(i) == requests[i] < Window

FirstYoung == {i \in DOMAIN requests : Young(i) /\ \A j \in 1 .. i - 1 : ~Young(j)}

\* The entries before the first young one are to go, if there is a young one.
Kept ==
    IF FirstYoung = {} THEN {requests}
    ELSE {SubSeq(requests, i, Len(requests)) : i \in FirstYoung}

CleanupRead(c) ==
    /\ pc[c] = "cleanup"
    /\ kept' \in Kept
    /\ Goto(c, IF kept' = requests THEN "check" ELSE "store")
    /\ UNCHANGED <<requests, rateVars, healthVars>>

\* A success recorded since the read is overwritten.
CleanupStore(c) ==
    /\ pc[c] = "store"
    /\ requests' = kept
    /\ Goto(c, "check")
    /\ UNCHANGED <<kept, rateVars, healthVars>>

\* Mutant: the rate is halved without a look at the minimum.
AdjustedFreely ==
    IF sinceAdjust > AdjustEvery
    THEN {limit, limit \div 2, IF limit < MaxLimit THEN limit + 1 ELSE MaxLimit}
    ELSE {limit}

\* adjustRate halves the rate or adds a tenth, as the load tells; the load is
\* a share of all calls ever made and of the silence, and left open here.
Adjusted ==
    IF sinceAdjust > AdjustEvery
    THEN {limit,
          IF limit \div 2 > MinLimit THEN limit \div 2 ELSE MinLimit,
          IF limit < MaxLimit THEN limit + 1 ELSE MaxLimit}
    ELSE {limit}

\* Mutant: one request more than the rate allows.
CheckLate(c) ==
    /\ pc[c] = "check"
    /\ Goto(c, IF Len(requests) <= limit THEN "serve" ELSE "idle")
    /\ limit' \in Adjusted
    /\ sinceAdjust' = IF sinceAdjust > AdjustEvery THEN 0 ELSE sinceAdjust
    /\ UNCHANGED <<windowVars, healthVars>>

\* The rate that was measured is compared with the rate as adjusted.
Check(c) ==
    /\ pc[c] = "check"
    /\ limit' \in Adjusted
    /\ Goto(c, IF Len(requests) < limit' THEN "serve" ELSE "idle")
    /\ sinceAdjust' = IF sinceAdjust > AdjustEvery THEN 0 ELSE sinceAdjust
    /\ UNCHANGED <<windowVars, healthVars>>

-----------------------------------------------------------------------------
(* RecordSuccess and RecordFailure *)

\* Add.
RecordInWindow(c) ==
    /\ pc[c] = "serve"
    /\ requests' = Append(requests, 0)
    /\ Goto(c, "record")
    /\ UNCHANGED <<kept, rateVars, healthVars>>

\* HealthMonitor.RecordSuccess.
RecordSuccess(c) ==
    /\ pc[c] = "record"
    /\ silence' = 0
    /\ IF circuit = "half"
       THEN circuit' = "closed" /\ failures' = 0
       ELSE UNCHANGED <<circuit, failures>>
    /\ Goto(c, "idle")
    /\ UNCHANGED <<windowVars, rateVars, failed>>

RecordFailure(c) ==
    /\ pc[c] = "serve"
    /\ failed < MaxFailures /\ failed' = failed + 1
    /\ silence' = 0
    /\ failures' = IF failures < Threshold THEN failures + 1 ELSE Threshold
    /\ circuit' = IF failures' = Threshold THEN "open" ELSE circuit
    /\ Goto(c, "idle")
    /\ UNCHANGED <<windowVars, rateVars>>

-----------------------------------------------------------------------------
Older(age, most) == IF age < most THEN age + 1 ELSE most

Tick ==
    /\ requests' = [i \in DOMAIN requests |-> Older(requests[i], Window)]
    /\ kept' = [i \in DOMAIN kept |-> Older(kept[i], Window)]
    /\ sinceAdjust' = Older(sinceAdjust, AdjustEvery + 1)
    /\ silence' = Older(silence, Recovery + 1)
    /\ UNCHANGED <<pc, limit, circuit, failures, failed>>

CanServe(c) == Ask(c) \/ CleanupRead(c) \/ CleanupStore(c) \/ Check(c)
Record(c) == RecordInWindow(c) \/ RecordSuccess(c) \/ RecordFailure(c)

Next == Tick \/ \E c \in Callers : CanServe(c) \/ Record(c)

Spec == Init /\ [][Next]_vars

\* Callers ask again and again and record what they were told, and time
\* passes; the bridge fails a bounded number of times.
FairSpec ==
    /\ Spec
    /\ WF_vars(Tick)
    /\ \A c \in Callers : WF_vars(CanServe(c)) /\ WF_vars(Record(c))

-----------------------------------------------------------------------------
(* Properties *)

TypeOK ==
    /\ pc \in [Callers -> {"idle", "cleanup", "store", "check", "serve", "record"}]
    /\ \A c, d \in Callers : Holding(c) /\ Holding(d) => c = d
    /\ kept \in Seq(0 .. Window) /\ requests \in Seq(0 .. Window)
    /\ limit \in MinLimit .. MaxLimit
    /\ sinceAdjust \in 0 .. AdjustEvery + 1
    /\ circuit \in Circuits
    /\ failures \in 0 .. Threshold
    /\ silence \in 0 .. Recovery + 1
    /\ failed \in 0 .. MaxFailures

\* The check and the record of a success are two calls, so callers can overshoot
\* the rate together: by one request for each other caller and no more, though
\* the rate is lowered and the window cut while they are on their way.
Overshoot == Len(requests) + Cardinality(Pending) < MaxLimit + Cardinality(Callers)

\* The circuit is closed exactly while the failures counted are below the
\* threshold: whoever fails while it is half open, of all that are let in then,
\* opens it again at once, and an answer that comes late does not close it.
CircuitMatchesCount == (circuit = "closed") <=> (failures < Threshold)

Stuck ==
    /\ \A c \in Callers : pc[c] # "serve"
    /\ \A i \in DOMAIN requests : ~Young(i)
    /\ Len(requests) >= limit

\* Whoever keeps asking is served again and again, whatever failed before,
\* unless every entry of a full window has become old: then cleanup finds no
\* young one to cut before, and nobody is served any more.
ServesUnlessStuck == []<>(Pending # {}) \/ <>[]Stuck
=============================================================================
