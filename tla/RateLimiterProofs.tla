-------------------------- MODULE RateLimiterProofs --------------------------
(* Proofs about RateLimiter, for any callers, windows, rates and thresholds. *)
EXTENDS RateLimiter, FiniteSetTheorems, SequenceTheorems, TLAPS

\* What cleanup will store is no longer than what is there.
StoreShortens == \A c \in Callers : pc[c] = "store" => Len(kept) <= Len(requests)

Inv == TypeOK /\ StoreShortens /\ Overshoot /\ CircuitMatchesCount

Steps == {"idle", "cleanup", "store", "check", "serve", "record"}

\* One caller at a time holds the limiter's mutex.
OneHolds == \A c, d \in Callers : Holding(c) /\ Holding(d) => c = d

-----------------------------------------------------------------------------
(* Callers, windows and rates *)

LEMMA GotoKeeps ==
    ASSUME Inv, NEW c \in Callers, NEW step \in Steps, Goto(c, step),
           Free \/ Holding(c) \/ step \notin {"cleanup", "store", "check"}
    PROVE  /\ pc' \in [Callers -> Steps] /\ pc'[c] = step
           /\ \A d \in Callers \ {c} : pc'[d] = pc[d]
           /\ OneHolds'
<1>1. pc \in [Callers -> Steps] /\ OneHolds
  BY DEF Inv, TypeOK, OneHolds, Steps
<1>2. pc' \in [Callers -> Steps] /\ pc'[c] = step /\ \A d \in Callers \ {c} : pc'[d] = pc[d]
  BY <1>1 DEF Goto
<1>3. OneHolds'
  BY <1>1, <1>2 DEF OneHolds, Holding, Free
<1>4. QED
  BY <1>2, <1>3

LEMMA PendingBounded ==
    ASSUME pc \in [Callers -> Steps]
    PROVE  IsFiniteSet(Pending) /\ Cardinality(Pending) \in Nat
           /\ Cardinality(Pending) <= Cardinality(Callers) /\ Cardinality(Callers) \in Nat
<1>1. Pending \in SUBSET Callers /\ IsFiniteSet(Callers)
  BY LimiterAssumption DEF Pending
<1>2. QED
  BY <1>1, FS_Subset, FS_CardinalityType

\* A caller that is not about to serve makes none more pending.
LEMMA NoMorePending ==
    ASSUME pc \in [Callers -> Steps], NEW c \in Callers,
           pc'[c] # "serve", \A d \in Callers \ {c} : pc'[d] = pc[d]
    PROVE  /\ Cardinality(Pending') \in Nat
           /\ Cardinality(Pending') <= Cardinality(Pending)
           /\ pc[c] = "serve" => Cardinality(Pending') = Cardinality(Pending) - 1
<1>1. Pending' = Pending \ {c} /\ (pc[c] = "serve" <=> c \in Pending)
  BY DEF Pending
<1>2. IsFiniteSet(Pending) /\ Cardinality(Pending) \in Nat
  BY PendingBounded
<1>3. IsFiniteSet(Pending') /\ Cardinality(Pending') \in Nat
  BY <1>1, <1>2, FS_RemoveElement, FS_CardinalityType
<1>4. Cardinality(Pending') = IF c \in Pending THEN Cardinality(Pending) - 1 ELSE Cardinality(Pending)
  BY <1>1, <1>2, FS_RemoveElement
<1>5. QED
  BY <1>1, <1>2, <1>3, <1>4

\* Cleanup cuts the window.
LEMMA KeptIsShorter ==
    ASSUME NEW k \in Kept, requests \in Seq(0 .. Window)
    PROVE  k \in Seq(0 .. Window) /\ Len(k) <= Len(requests)
<1>1. CASE k = requests
  BY <1>1
<1>2. CASE k # requests
  <2>1. PICK i \in DOMAIN requests : k = SubSeq(requests, i, Len(requests))
    BY <1>2 DEF Kept, FirstYoung
  <2>2. Len(requests) \in Nat /\ DOMAIN requests = 1 .. Len(requests) /\ i \in 1 .. Len(requests)
    BY <2>1
  <2>3. \A j \in i .. Len(requests) : requests[j] \in 0 .. Window
    <3>1. \A j \in 1 .. Len(requests) : requests[j] \in 0 .. Window
      BY ElementOfSeq
    <3>2. QED
      BY <2>2, <3>1
  <2>4. k \in Seq(0 .. Window) /\ Len(k) = Len(requests) - i + 1
    BY <2>1, <2>2, <2>3, SubSeqProperties
  <2>5. QED
    BY <2>2, <2>4
<1>3. QED
  BY <1>1, <1>2

\* The rate stays between its limits.
LEMMA AdjustedInRange ==
    ASSUME limit \in MinLimit .. MaxLimit, NEW l \in Adjusted
    PROVE  l \in MinLimit .. MaxLimit
<1>1. MinLimit \in Nat /\ MaxLimit \in Nat
  BY LimiterAssumption
<1>2. limit \in Nat /\ limit \div 2 \in Nat /\ limit \div 2 <= limit
  BY <1>1
<1> DEFINE half == limit \div 2
<1>3. l \in {limit, MinLimit, MaxLimit} \/ (l = half /\ half > MinLimit)
      \/ (l = limit + 1 /\ limit < MaxLimit)
  BY DEF Adjusted
<1> HIDE DEF half
<1>4. half \in Nat /\ half <= limit
  BY <1>2 DEF half
<1>5. QED
  BY <1>1, <1>2, <1>3, <1>4

LEMMA InitInv == Init => Inv
<1> SUFFICES ASSUME Init PROVE Inv
  OBVIOUS
<1>1. pc = [c \in Callers |-> "idle"] /\ pc \in [Callers -> Steps]
  BY DEF Init, Steps
<1>2. limit \in MinLimit .. MaxLimit
  BY LimiterAssumption DEF Init, StartLimit
<1> <<>> \in Seq(0 .. Window)
  OBVIOUS
<1>3. TypeOK
  <2>1. \A c, d \in Callers : Holding(c) /\ Holding(d) => c = d
    BY <1>1 DEF Holding
  <2>2. kept \in Seq(0 .. Window) /\ requests \in Seq(0 .. Window)
    BY DEF Init
  <2>3. sinceAdjust \in 0 .. AdjustEvery + 1 /\ silence \in 0 .. Recovery + 1
        /\ failures \in 0 .. Threshold /\ failed \in 0 .. MaxFailures /\ circuit \in Circuits
    BY LimiterAssumption DEF Init, Circuits
  <2>4. QED
    BY <1>1, <1>2, <2>1, <2>2, <2>3 DEF TypeOK, Steps
<1>4. Pending = {} /\ Len(requests) = 0 /\ StoreShortens
  BY <1>1 DEF Init, Pending, StoreShortens
<1>5. Overshoot
  <2>1. Cardinality(Callers) \in Nat /\ Cardinality(Callers) # 0
    BY LimiterAssumption, FS_CardinalityType, FS_EmptySet
  <2>2. QED
    BY <1>4, <2>1, FS_EmptySet, LimiterAssumption DEF Overshoot
<1>6. CircuitMatchesCount
  BY LimiterAssumption DEF Init, CircuitMatchesCount
<1>7. QED
  BY <1>3, <1>4, <1>5, <1>6 DEF Inv

-----------------------------------------------------------------------------
(* The steps *)

LEMMA AskInv == ASSUME Inv, NEW c \in Callers, Ask(c) PROVE Inv'
<1>1. /\ Free /\ Goto(c, "cleanup") /\ UNCHANGED <<windowVars, rateVars, failures, silence, failed>>
      /\ circuit' = IF circuit = "open" THEN "half" ELSE circuit
  BY DEF Ask
<1>2. /\ pc' \in [Callers -> Steps] /\ pc'[c] = "cleanup" /\ OneHolds'
      /\ \A d \in Callers \ {c} : pc'[d] = pc[d]
  BY <1>1, GotoKeeps DEF Steps
<1>3. TypeOK'
  BY <1>1, <1>2 DEF Inv, TypeOK, OneHolds, Steps, windowVars, rateVars, Circuits
<1>4. StoreShortens'
  BY <1>1, <1>2 DEF Inv, StoreShortens, windowVars
<1>5. Overshoot'
  <2>1. Cardinality(Pending') \in Nat /\ Cardinality(Pending') <= Cardinality(Pending)
    BY <1>2, NoMorePending DEF Inv, TypeOK, Steps
  <2>2. Len(requests) \in Nat /\ Cardinality(Pending) \in Nat /\ Cardinality(Callers) \in Nat
        /\ MaxLimit \in Nat
    BY PendingBounded, LimiterAssumption DEF Inv, TypeOK, Steps
  <2>3. QED
    BY <1>1, <2>1, <2>2 DEF Inv, Overshoot, windowVars
<1>6. CircuitMatchesCount'
  BY <1>1 DEF Inv, CircuitMatchesCount
<1>7. QED
  BY <1>3, <1>4, <1>5, <1>6 DEF Inv

LEMMA CleanupReadInv == ASSUME Inv, NEW c \in Callers, CleanupRead(c) PROVE Inv'
<1> DEFINE step == IF kept' = requests THEN "check" ELSE "store"
<1>1. /\ pc[c] = "cleanup" /\ kept' \in Kept /\ Goto(c, step)
      /\ UNCHANGED <<requests, rateVars, healthVars>>
  BY DEF CleanupRead
<1>2. step \in {"check", "store"}
  OBVIOUS
<1> HIDE DEF step
<1>3. /\ pc' \in [Callers -> Steps] /\ pc'[c] = step /\ OneHolds'
      /\ \A d \in Callers \ {c} : pc'[d] = pc[d]
  BY <1>1, <1>2, GotoKeeps DEF Steps, Holding
<1>4. kept' \in Seq(0 .. Window) /\ Len(kept') <= Len(requests)
  BY <1>1, KeptIsShorter DEF Inv, TypeOK
<1>5. TypeOK'
  BY <1>1, <1>3, <1>4 DEF Inv, TypeOK, OneHolds, Steps, rateVars, healthVars
<1>6. StoreShortens'
  BY <1>1, <1>4 DEF StoreShortens
<1>7. Overshoot'
  <2>1. Cardinality(Pending') \in Nat /\ Cardinality(Pending') <= Cardinality(Pending)
    BY <1>2, <1>3, NoMorePending DEF Inv, TypeOK, Steps
  <2>2. Len(requests) \in Nat /\ Cardinality(Pending) \in Nat /\ Cardinality(Callers) \in Nat
        /\ MaxLimit \in Nat
    BY PendingBounded, LimiterAssumption DEF Inv, TypeOK, Steps
  <2>3. QED
    BY <1>1, <2>1, <2>2 DEF Inv, Overshoot
<1>8. CircuitMatchesCount'
  BY <1>1 DEF Inv, CircuitMatchesCount, healthVars
<1>9. QED
  BY <1>5, <1>6, <1>7, <1>8 DEF Inv

\* What is written back is no longer than what it overwrites: others can only
\* have added to the window since it was read.
LEMMA CleanupStoreInv == ASSUME Inv, NEW c \in Callers, CleanupStore(c) PROVE Inv'
<1>1. /\ pc[c] = "store" /\ requests' = kept /\ Goto(c, "check")
      /\ UNCHANGED <<kept, rateVars, healthVars>>
  BY DEF CleanupStore
<1>2. /\ pc' \in [Callers -> Steps] /\ pc'[c] = "check" /\ OneHolds'
      /\ \A d \in Callers \ {c} : pc'[d] = pc[d]
  BY <1>1, GotoKeeps DEF Steps, Holding
<1>3. Len(requests') <= Len(requests) /\ Len(requests') \in Nat /\ Len(requests) \in Nat
  BY <1>1 DEF Inv, TypeOK, StoreShortens
<1>4. TypeOK'
  BY <1>1, <1>2 DEF Inv, TypeOK, OneHolds, Steps, rateVars, healthVars
\* The caller that held the mutex was the only one in cleanup.
<1>5. StoreShortens'
  BY <1>1, <1>2 DEF StoreShortens, Inv, TypeOK, Holding
<1>6. Overshoot'
  <2>1. Cardinality(Pending') \in Nat /\ Cardinality(Pending') <= Cardinality(Pending)
    BY <1>2, NoMorePending DEF Inv, TypeOK, Steps
  <2>2. Cardinality(Pending) \in Nat /\ Cardinality(Callers) \in Nat /\ MaxLimit \in Nat
    BY PendingBounded, LimiterAssumption DEF Inv, TypeOK, Steps
  <2>3. QED
    BY <1>3, <2>1, <2>2 DEF Inv, Overshoot
<1>7. CircuitMatchesCount'
  BY <1>1 DEF Inv, CircuitMatchesCount, healthVars
<1>8. QED
  BY <1>4, <1>5, <1>6, <1>7 DEF Inv

\* Whoever is let in found fewer requests than the rate allows; all others may
\* be on their way to record theirs.
LEMMA CheckInv == ASSUME Inv, NEW c \in Callers, Check(c) PROVE Inv'
<1> DEFINE step == IF Len(requests) < limit' THEN "serve" ELSE "idle"
<1>1. /\ pc[c] = "check" /\ limit' \in Adjusted /\ Goto(c, step)
      /\ sinceAdjust' = IF sinceAdjust > AdjustEvery THEN 0 ELSE sinceAdjust
      /\ UNCHANGED <<windowVars, healthVars>>
  BY DEF Check
<1>2. step \in {"serve", "idle"} /\ (step = "serve" => Len(requests) < limit')
  OBVIOUS
<1> HIDE DEF step
<1>3. /\ pc' \in [Callers -> Steps] /\ pc'[c] = step /\ OneHolds'
      /\ \A d \in Callers \ {c} : pc'[d] = pc[d]
  BY <1>1, <1>2, GotoKeeps DEF Steps, Holding
<1>4. limit' \in MinLimit .. MaxLimit /\ MinLimit \in Nat /\ MaxLimit \in Nat
  BY <1>1, AdjustedInRange, LimiterAssumption DEF Inv, TypeOK
<1>5. sinceAdjust' \in 0 .. AdjustEvery + 1
  BY <1>1, LimiterAssumption DEF Inv, TypeOK
<1>6. TypeOK'
  BY <1>1, <1>3, <1>4, <1>5 DEF Inv, TypeOK, OneHolds, Steps, windowVars, healthVars
<1>7. StoreShortens'
  BY <1>1, <1>2, <1>3 DEF Inv, StoreShortens, windowVars
<1>8. Overshoot'
  <2>1. Len(requests) \in Nat /\ requests' = requests
    BY <1>1 DEF Inv, TypeOK, windowVars
  <2>2. /\ Cardinality(Pending) \in Nat /\ Cardinality(Callers) \in Nat
        /\ Cardinality(Pending') \in Nat /\ Cardinality(Pending') <= Cardinality(Callers)
    <3>1. pc \in [Callers -> Steps]
      BY DEF Inv, TypeOK, Steps
    <3>2. Pending' \in SUBSET Callers /\ IsFiniteSet(Callers)
      BY LimiterAssumption DEF Pending
    <3>3. QED
      BY <3>1, <3>2, PendingBounded, FS_Subset, FS_CardinalityType
  <2>3. CASE step = "serve"
    BY <1>2, <1>4, <2>1, <2>2, <2>3 DEF Overshoot
  <2>4. CASE step = "idle"
    <3>1. Cardinality(Pending') <= Cardinality(Pending)
      BY <1>3, <2>4, NoMorePending DEF Inv, TypeOK, Steps
    <3>2. QED
      BY <1>4, <2>1, <2>2, <3>1 DEF Inv, Overshoot
  <2>5. QED
    BY <1>2, <2>3, <2>4
<1>9. CircuitMatchesCount'
  BY <1>1 DEF Inv, CircuitMatchesCount, healthVars
<1>10. QED
  BY <1>6, <1>7, <1>8, <1>9 DEF Inv

LEMMA RecordInWindowInv == ASSUME Inv, NEW c \in Callers, RecordInWindow(c) PROVE Inv'
<1>1. /\ pc[c] = "serve" /\ requests' = Append(requests, 0) /\ Goto(c, "record")
      /\ UNCHANGED <<kept, rateVars, healthVars>>
  BY DEF RecordInWindow
<1>2. /\ pc' \in [Callers -> Steps] /\ pc'[c] = "record" /\ OneHolds'
      /\ \A d \in Callers \ {c} : pc'[d] = pc[d]
  BY <1>1, GotoKeeps DEF Steps
<1>3. requests' \in Seq(0 .. Window) /\ Len(requests') = Len(requests) + 1 /\ Len(requests) \in Nat
  BY <1>1, LimiterAssumption DEF Inv, TypeOK
<1>4. TypeOK'
  BY <1>1, <1>2, <1>3 DEF Inv, TypeOK, OneHolds, Steps, rateVars, healthVars
<1>5. StoreShortens'
  BY <1>1, <1>2, <1>3 DEF Inv, StoreShortens, TypeOK
<1>6. Overshoot'
  <2>1. Cardinality(Pending') \in Nat /\ Cardinality(Pending') = Cardinality(Pending) - 1
    BY <1>1, <1>2, NoMorePending DEF Inv, TypeOK, Steps
  <2>2. Cardinality(Pending) \in Nat /\ Cardinality(Callers) \in Nat /\ MaxLimit \in Nat
    BY PendingBounded, LimiterAssumption DEF Inv, TypeOK, Steps
  <2>3. QED
    BY <1>3, <2>1, <2>2 DEF Inv, Overshoot
<1>7. CircuitMatchesCount'
  BY <1>1 DEF Inv, CircuitMatchesCount, healthVars
<1>8. QED
  BY <1>4, <1>5, <1>6, <1>7 DEF Inv

LEMMA RecordHealthInv ==
    ASSUME Inv, NEW c \in Callers, RecordSuccess(c) \/ RecordFailure(c)
    PROVE  Inv'
<1>1. /\ pc[c] \in {"serve", "record"} /\ Goto(c, "idle") /\ silence' = 0
      /\ UNCHANGED <<windowVars, rateVars>>
  BY DEF RecordSuccess, RecordFailure
<1>2. /\ pc' \in [Callers -> Steps] /\ pc'[c] = "idle" /\ OneHolds'
      /\ \A d \in Callers \ {c} : pc'[d] = pc[d]
  BY <1>1, GotoKeeps DEF Steps
<1>3. circuit' \in Circuits /\ failures' \in 0 .. Threshold /\ CircuitMatchesCount'
  <2>1. CASE RecordSuccess(c)
    BY <2>1, LimiterAssumption DEF RecordSuccess, Inv, TypeOK, CircuitMatchesCount, Circuits
  <2>2. CASE RecordFailure(c)
    BY <2>2, LimiterAssumption DEF RecordFailure, Inv, TypeOK, CircuitMatchesCount, Circuits
  <2>3. QED
    BY <2>1, <2>2
<1>4. failed' \in 0 .. MaxFailures /\ silence' \in 0 .. Recovery + 1
  <2>1. failed' = failed \/ (failed < MaxFailures /\ failed' = failed + 1)
    BY DEF RecordSuccess, RecordFailure
  <2>2. QED
    BY <1>1, <2>1, LimiterAssumption DEF Inv, TypeOK
<1>5. TypeOK'
  BY <1>1, <1>2, <1>3, <1>4 DEF Inv, TypeOK, OneHolds, Steps, windowVars, rateVars
<1>6. StoreShortens'
  BY <1>1, <1>2 DEF Inv, StoreShortens, windowVars
<1>7. Overshoot'
  <2>1. Cardinality(Pending') \in Nat /\ Cardinality(Pending') <= Cardinality(Pending)
    BY <1>2, NoMorePending DEF Inv, TypeOK, Steps
  <2>2. Len(requests) \in Nat /\ Cardinality(Pending) \in Nat /\ Cardinality(Callers) \in Nat
        /\ MaxLimit \in Nat
    BY PendingBounded, LimiterAssumption DEF Inv, TypeOK, Steps
  <2>3. QED
    BY <1>1, <2>1, <2>2 DEF Inv, Overshoot, windowVars
<1>8. QED
  BY <1>3, <1>5, <1>6, <1>7 DEF Inv

LEMMA OlderInRange ==
    ASSUME NEW most \in Nat, NEW age \in 0 .. most
    PROVE  Older(age, most) \in 0 .. most
  BY DEF Older

LEMMA AgedWindow ==
    ASSUME NEW s \in Seq(0 .. Window), NEW t, t = [i \in DOMAIN s |-> Older(s[i], Window)]
    PROVE  t \in Seq(0 .. Window) /\ Len(t) = Len(s)
<1>1. DOMAIN s = 1 .. Len(s) /\ Len(s) \in Nat
  OBVIOUS
<1>2. \A i \in 1 .. Len(s) : s[i] \in 0 .. Window
  BY ElementOfSeq
<1>3. \A i \in 1 .. Len(s) : Older(s[i], Window) \in 0 .. Window
  BY <1>2, OlderInRange, LimiterAssumption
<1>4. t \in [1 .. Len(s) -> 0 .. Window]
  BY <1>1, <1>3
<1>5. t \in Seq(0 .. Window)
  BY <1>1, <1>4
<1>6. DOMAIN t = 1 .. Len(t) /\ DOMAIN t = 1 .. Len(s) /\ Len(t) \in Nat
  BY <1>4, <1>5
<1>7. QED
  BY <1>1, <1>5, <1>6

LEMMA TickInv == ASSUME Inv, Tick PROVE Inv'
<1>1. /\ requests' = [i \in DOMAIN requests |-> Older(requests[i], Window)]
      /\ kept' = [i \in DOMAIN kept |-> Older(kept[i], Window)]
      /\ sinceAdjust' = Older(sinceAdjust, AdjustEvery + 1)
      /\ silence' = Older(silence, Recovery + 1)
      /\ UNCHANGED <<pc, limit, circuit, failures, failed>>
  BY DEF Tick
<1>2. requests \in Seq(0 .. Window) /\ kept \in Seq(0 .. Window)
  BY DEF Inv, TypeOK
<1>3. /\ requests' \in Seq(0 .. Window) /\ Len(requests') = Len(requests)
      /\ kept' \in Seq(0 .. Window) /\ Len(kept') = Len(kept)
  BY <1>1, <1>2, AgedWindow
<1>4. sinceAdjust' \in 0 .. AdjustEvery + 1 /\ silence' \in 0 .. Recovery + 1
  BY <1>1, OlderInRange, LimiterAssumption DEF Inv, TypeOK
<1>5. TypeOK'
  BY <1>1, <1>3, <1>4 DEF Inv, TypeOK, Holding
<1>6. QED
  BY <1>1, <1>3, <1>5 DEF Inv, StoreShortens, Overshoot, Pending, CircuitMatchesCount

LEMMA NextInv == Inv /\ [Next]_vars => Inv'
<1> SUFFICES ASSUME Inv, [Next]_vars PROVE Inv'
  OBVIOUS
<1>1. CASE Tick
  BY <1>1, TickInv
<1>2. ASSUME NEW c \in Callers, CanServe(c) PROVE Inv'
  BY <1>2, AskInv, CleanupReadInv, CleanupStoreInv, CheckInv DEF CanServe
<1>3. ASSUME NEW c \in Callers, Record(c) PROVE Inv'
  BY <1>3, RecordInWindowInv, RecordHealthInv DEF Record
<1>4. CASE UNCHANGED vars
  BY <1>4 DEF vars, Inv, TypeOK, Holding, StoreShortens, Overshoot, Pending, CircuitMatchesCount
<1>5. QED
  BY <1>1, <1>2, <1>3, <1>4 DEF Next

LEMMA Invariant == Spec => []Inv
<1>1. Init => Inv
  BY InitInv
<1>2. Inv /\ [Next]_vars => Inv'
  BY NextInv
<1>3. QED
  BY <1>1, <1>2, PTL DEF Spec

-----------------------------------------------------------------------------
(* What the runs check *)

\* Every variable has its type, and one caller at a time is in CanServe.
THEOREM TypeCorrect == Spec => []TypeOK
<1>1. Inv => TypeOK
  BY DEF Inv
<1>2. QED
  BY <1>1, Invariant, PTL

\* However many callers check before they record, they exceed the highest rate
\* by one request each at most.
THEOREM OvershootBounded == Spec => []Overshoot
<1>1. Inv => Overshoot
  BY DEF Inv
<1>2. QED
  BY <1>1, Invariant, PTL

\* The circuit is closed exactly while fewer failures than the threshold are
\* counted, whatever overlaps.
THEOREM CircuitFollowsFailures == Spec => []CircuitMatchesCount
<1>1. Inv => CircuitMatchesCount
  BY DEF Inv
<1>2. QED
  BY <1>1, Invariant, PTL
=============================================================================
