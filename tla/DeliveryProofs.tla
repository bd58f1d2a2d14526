--------------------------- MODULE DeliveryProofs ---------------------------
(* Proofs about BridgePoller and Delivery, for any number of requests,       *)
(* changes, items and faults.                                                *)
EXTENDS Delivery, FiniteSetTheorems, TLAPS

-----------------------------------------------------------------------------
(* The script by itself *)

PollerInv == TypeOK /\ PollingAlive /\ ChainPerActivation

LEMMA FlyingFinite ==
    ASSUME flying \subseteq Requests
    PROVE  IsFiniteSet(flying) /\ Cardinality(flying) \in Nat
  BY PollerAssumption, FS_Subset, FS_CardinalityType

\* Polling is started with a timer and a count of its own.
LEMMA SyncKeeps ==
    ASSUME PollerInv, SyncSettings
    PROVE  /\ active' \in BOOLEAN /\ timers' \in Nat /\ activations' \in Nat
           /\ active' => timers' > 0 \/ held \in flying
           /\ timers' + Cardinality(flying) <= activations'
           /\ timers' - timers = activations' - activations
           /\ activations' \in {activations, activations + 1}
<1>1. /\ active \in BOOLEAN /\ present \in BOOLEAN /\ timers \in Nat /\ activations \in Nat
      /\ Cardinality(flying) \in Nat /\ timers + Cardinality(flying) <= activations
      /\ active => timers > 0 \/ held \in flying
  BY FlyingFinite DEF PollerInv, TypeOK, PollingAlive, ChainPerActivation
<1>2. CASE UNCHANGED <<active, timers, activations>>
  BY <1>1, <1>2
<1>3. CASE active' = present /\ present /\ ~active
           /\ timers' = timers + 1 /\ activations' = activations + 1
  BY <1>1, <1>3
<1>4. CASE active' = present /\ ~(present /\ ~active) /\ UNCHANGED <<timers, activations>>
  BY <1>1, <1>4
<1>5. QED
  BY <1>2, <1>3, <1>4 DEF SyncSettings

LEMMA SettingsInv ==
    ASSUME PollerInv, SettingsChange \/ CameraOnChange \/ SettingsCallback \/ Start \/ Stop
    PROVE  PollerInv'
<1>1. UNCHANGED <<flying, held>>
  BY DEF SettingsChange, CameraOnChange, SettingsCallback, Start, Stop, pollVars
<1>2. \/ SyncSettings
      \/ UNCHANGED <<active, timers, activations>>
      \/ ~active' /\ active' \in BOOLEAN /\ UNCHANGED <<timers, activations>>
  BY DEF SettingsChange, CameraOnChange, SettingsCallback, Start, Stop
<1>3. /\ active' \in BOOLEAN /\ timers' \in Nat /\ activations' \in Nat
      /\ active' => timers' > 0 \/ held \in flying
      /\ timers' + Cardinality(flying) <= activations'
  <2>1. CASE SyncSettings
    BY <2>1, SyncKeeps
  <2>2. CASE ~SyncSettings
    BY <1>2, <2>2 DEF PollerInv, TypeOK, PollingAlive, ChainPerActivation
  <2>3. QED
    BY <2>1, <2>2
<1>4. changes' \in 0 .. MaxChanges
  <2>1. changes' = changes \/ Change
    BY DEF SettingsChange, CameraOnChange, SettingsCallback, Start, Stop
  <2>2. QED
    BY <2>1, PollerAssumption DEF Change, PollerInv, TypeOK
<1>5. present' \in BOOLEAN /\ running' \in BOOLEAN
  BY DEF SettingsChange, CameraOnChange, SettingsCallback, Start, Stop, PollerInv, TypeOK
<1>6. subscribed' \subseteq Hooks /\ notified' \subseteq subscribed'
  <2>1. subscribed \subseteq Hooks /\ notified \subseteq subscribed
    BY DEF PollerInv, TypeOK
  <2>2. CASE SettingsChange
    BY <2>1, <2>2 DEF SettingsChange
  <2>3. CASE CameraOnChange
    BY <2>1, <2>3 DEF CameraOnChange
  <2>4. CASE SettingsCallback
    BY <2>1, <2>4 DEF SettingsCallback
  <2>5. CASE Start
    BY <2>1, <2>5 DEF Start
  <2>6. CASE Stop
    BY <2>1, <2>6 DEF Stop
  <2>7. QED
    BY <2>2, <2>3, <2>4, <2>5, <2>6
<1>7. QED
  BY <1>1, <1>3, <1>4, <1>5, <1>6 DEF PollerInv, TypeOK, PollingAlive, ChainPerActivation

\* A timer becomes a request, or goes off in vain.
LEMMA GetEventsInv == ASSUME PollerInv, GetEvents PROVE PollerInv'
<1>1. /\ timers > 0 /\ timers' = timers - 1
      /\ UNCHANGED <<present, notified, running, subscribed, active, activations, changes>>
  BY DEF GetEvents
<1>2. IsFiniteSet(flying) /\ Cardinality(flying) \in Nat
  BY FlyingFinite DEF PollerInv, TypeOK
<1>3. CASE active
  <2>1. PICK r \in Requests \ flying : flying' = flying \cup {r} /\ held' = r
    BY <1>3 DEF GetEvents
  <2>2. Cardinality(flying') = Cardinality(flying) + 1
    BY <1>2, <2>1, FS_AddElement
  <2>3. QED
    BY <1>1, <1>2, <2>1, <2>2 DEF PollerInv, TypeOK, PollingAlive, ChainPerActivation
<1>4. CASE ~active
  <2>1. UNCHANGED <<flying, held>>
    BY <1>4 DEF GetEvents
  <2>2. QED
    BY <1>1, <1>2, <1>4, <2>1 DEF PollerInv, TypeOK, PollingAlive, ChainPerActivation
<1>5. QED
  BY <1>3, <1>4

\* A request that ends makes room for the timer it starts.
LEMMA RequestEndsInv ==
    ASSUME PollerInv, NEW r \in Requests, GetEventsCallback(r) \/ Collect(r)
    PROVE  PollerInv'
<1>1. /\ r \in flying /\ flying' = flying \ {r}
      /\ UNCHANGED <<present, notified, running, subscribed, active, activations, changes>>
  BY DEF GetEventsCallback, Collect
<1>2. IsFiniteSet(flying) /\ Cardinality(flying) \in Nat
  BY FlyingFinite DEF PollerInv, TypeOK
<1>3. Cardinality(flying') = Cardinality(flying) - 1
  BY <1>1, <1>2, FS_RemoveElement
<1>4. CASE GetEventsCallback(r)
  <2>1. held' = None /\ timers' = timers + 1
    BY <1>4 DEF GetEventsCallback
  <2>2. QED
    BY <1>1, <1>2, <1>3, <2>1 DEF PollerInv, TypeOK, PollingAlive, ChainPerActivation
<1>5. CASE Collect(r)
  <2>1. held' = held /\ timers' = timers /\ r # held
    BY <1>5 DEF Collect
  <2>2. QED
    BY <1>1, <1>2, <1>3, <2>1 DEF PollerInv, TypeOK, PollingAlive, ChainPerActivation
<1>6. QED
  BY <1>4, <1>5

\* A request that is none leaves its timer, and may let go of another.
LEMMA GetEventsFailsInv == ASSUME PollerInv, GetEventsFails PROVE PollerInv'
  BY DEF GetEventsFails, PollerInv, TypeOK, PollingAlive, ChainPerActivation

LEMMA PollerStep == PollerInv /\ [Next]_vars => PollerInv'
<1> SUFFICES ASSUME PollerInv, [Next]_vars PROVE PollerInv'
  OBVIOUS
<1>1. CASE UNCHANGED vars
  BY <1>1 DEF vars, pollVars, PollerInv, TypeOK, PollingAlive, ChainPerActivation
<1>2. CASE Answered
  BY <1>2, RequestEndsInv DEF Answered
<1>3. ASSUME NEW r \in Requests, Collect(r) PROVE PollerInv'
  BY <1>3, RequestEndsInv
<1>4. QED
  BY <1>1, <1>2, <1>3, SettingsInv, GetEventsInv, GetEventsFailsInv DEF Next

LEMMA PollerInit == Init => PollerInv
<1>1. Init => TypeOK
  <2>1. Init => present \in BOOLEAN /\ running \in BOOLEAN /\ active \in BOOLEAN
    BY DEF Init
  <2> MaxChanges \in Nat
    BY PollerAssumption
  <2>4. Init => timers \in Nat /\ activations \in Nat /\ changes \in 0 .. MaxChanges
    BY DEF Init
  <2>2. Init => subscribed \subseteq Hooks /\ notified \subseteq subscribed
                /\ flying \subseteq Requests /\ held \in flying \cup {None}
    BY DEF Init
  <2>3. QED
    BY <2>1, <2>2, <2>4 DEF TypeOK
<1>2. Init => PollingAlive /\ ChainPerActivation
  BY FS_EmptySet DEF Init, PollingAlive, ChainPerActivation
<1>3. QED
  BY <1>1, <1>2 DEF PollerInv

LEMMA PollerInvariant == Spec => []PollerInv
<1>1. Init => PollerInv
  BY PollerInit
<1>2. PollerInv /\ [Next]_vars => PollerInv'
  BY PollerStep
<1>3. QED
  BY <1>1, <1>2, PTL DEF Spec

-----------------------------------------------------------------------------
(* The script and the store with the service between them *)

\* Whatever the service does, the script is the script.
LEMMA ScriptStep == [DeliveryNext]_allVars => [Next]_vars
<1> SUFFICES ASSUME [DeliveryNext]_allVars PROVE [Next]_vars
  OBVIOUS
<1>1. CASE UNCHANGED allVars
  BY <1>1 DEF allVars
<1>2. CASE Arrive \/ Discard \/ Restart
  BY <1>2 DEF Arrive, Discard, Restart
<1>3. CASE Script \/ Ask \/ AskFails
  BY <1>3 DEF Script, Ask, AskFails, Next
<1>4. ASSUME NEW r \in Requests, Serve(r) \/ Refuse(r) PROVE UNCHANGED vars
  BY <1>4 DEF Serve, Refuse
<1>5. ASSUME NEW r \in Requests, Answer(r) \/ Fail(r) \/ Forget(r) PROVE Next
  BY <1>5 DEF Answer, Fail, Forget, Next, Answered
<1>6. QED
  BY <1>1, <1>2, <1>3, <1>4, <1>5 DEF DeliveryNext

\* The script polls under every behaviour of the service as it does by itself.
THEOREM DeliveryRunsScript == DeliverySpec => Spec
<1>1. DeliveryInit => Init
  BY DEF DeliveryInit
<1>2. [DeliveryNext]_allVars => [Next]_vars
  BY ScriptStep
<1>3. QED
  BY <1>1, <1>2, PTL DEF DeliverySpec, Spec

\* Polling does not die while the script is active.
THEOREM PollingSurvives == DeliverySpec => []PollingAlive
<1>1. PollerInv => PollingAlive
  BY DEF PollerInv
<1>2. QED
  BY <1>1, DeliveryRunsScript, PollerInvariant, PTL

\* There are never more chains of timers and requests than activations.
THEOREM ChainsCounted == DeliverySpec => []ChainPerActivation
<1>1. PollerInv => ChainPerActivation
  BY DEF PollerInv
<1>2. QED
  BY <1>1, DeliveryRunsScript, PollerInvariant, PTL

-----------------------------------------------------------------------------
(* What happens to items *)

\* Reads take the items in order, sent is part of what they took, and an answer
\* on its way holds an item that is neither sent nor in another answer.
Books ==
    /\ \A i \in Range(fetched), j \in box : i < j
    /\ \A i \in box \cup Range(fetched) : i <= put
    /\ Range(sent) \subseteq Range(fetched) /\ IsInjective(sent)
    /\ \A r \in flying : answer[r] # 0 =>
        /\ answer[r] \in Range(fetched) \ Range(sent)
        /\ \A q \in flying : answer[q] = answer[r] => q = r

\* With one chain there is one request at most, nobody collects it, and its
\* answer comes after all that was sent.
OneChain ==
    activations <= 1 =>
        /\ flying \subseteq {held}
        /\ \A k, l \in DOMAIN sent : k < l => sent[k] < sent[l]
        /\ \A r \in flying, i \in Range(sent) : answer[r] # 0 => i < answer[r]

\* Without a fault no request is left to the service alone.
NoStray == faults = 0 /\ activations <= 1 => asked \subseteq flying

Inv == PollerInv /\ DeliveryTypeOK /\ Books /\ OneChain /\ NoStray /\ LossNeedsCause

LEMMA AppendFacts ==
    ASSUME NEW S, NEW s \in Seq(S), NEW e \in S
    PROVE  /\ Append(s, e) \in Seq(S) /\ Range(Append(s, e)) = Range(s) \cup {e}
           /\ IsInjective(s) /\ e \notin Range(s) => IsInjective(Append(s, e))
<1>1. Append(s, e) \in Seq(S) /\ Len(Append(s, e)) = Len(s) + 1 /\ Len(s) \in Nat
  OBVIOUS
<1>2. \A k \in 1 .. Len(s) : Append(s, e)[k] = s[k]
  OBVIOUS
<1>3. Append(s, e)[Len(s) + 1] = e
  OBVIOUS
<1>4. DOMAIN Append(s, e) = 1 .. Len(s) + 1 /\ DOMAIN s = 1 .. Len(s)
  BY <1>1
<1>5. Range(Append(s, e)) = Range(s) \cup {e}
  BY <1>1, <1>2, <1>3, <1>4 DEF Range
<1>6. ASSUME IsInjective(s), e \notin Range(s) PROVE IsInjective(Append(s, e))
  BY <1>1, <1>2, <1>3, <1>4, <1>6 DEF Range, IsInjective
<1>7. QED
  BY <1>1, <1>5, <1>6

LEMMA AppendRises ==
    ASSUME NEW s \in Seq(Items), NEW e \in Items,
           \A k, l \in DOMAIN s : k < l => s[k] < s[l],
           \A i \in Range(s) : i < e
    PROVE  \A k, l \in DOMAIN Append(s, e) : k < l => Append(s, e)[k] < Append(s, e)[l]
<1>1. \A k \in 1 .. Len(s) : Append(s, e)[k] = s[k] /\ s[k] \in Range(s)
  BY DEF Range
<1>2. Append(s, e)[Len(s) + 1] = e /\ Len(s) \in Nat
  OBVIOUS
<1>3. DOMAIN Append(s, e) = 1 .. Len(s) + 1 /\ DOMAIN s = 1 .. Len(s)
  OBVIOUS
<1>4. QED
  BY <1>1, <1>2, <1>3

\* One chain is one timer or one request.
LEMMA OneAtATime ==
    ASSUME PollerInv, activations <= 1, timers > 0
    PROVE  flying = {}
<1>1. IsFiniteSet(flying) /\ Cardinality(flying) \in Nat
  BY FlyingFinite DEF PollerInv, TypeOK
<1>2. Cardinality(flying) = 0
  BY <1>1 DEF PollerInv, TypeOK, ChainPerActivation
<1>3. QED
  BY <1>1, <1>2, FS_EmptySet

\* What the script keeps, whatever else is delivered.
LEMMA PollerKept == ASSUME Inv, [DeliveryNext]_allVars PROVE PollerInv'
  BY ScriptStep, PollerStep DEF Inv

LEMMA ArriveInv == ASSUME Inv, Arrive PROVE Inv'
<1>1. /\ put < MaxItems /\ put' = put + 1 /\ box' = box \cup {put + 1}
      /\ UNCHANGED <<vars, fetched, asked, answer, sent, faults>>
  BY DEF Arrive, Mail!Put
<1>2. put \in Nat /\ put + 1 \in Items /\ put' \in 0 .. MaxItems
  BY <1>1, DeliveryAssumption DEF Inv, DeliveryTypeOK, Items
<1>3. PollerInv' /\ TypeOK'
  BY <1>1, PollerKept DEF DeliveryNext, PollerInv
<1>4. DeliveryTypeOK'
  BY <1>1, <1>2, <1>3 DEF Inv, DeliveryTypeOK
<1>5. Books'
  <2>1. box \subseteq Items /\ \A i \in Items : i \in Nat
    BY DEF Inv, DeliveryTypeOK, Items
  <2>2. \A i \in Range(fetched) : i < put + 1
    <3>1. Range(fetched) \subseteq Items
      BY DEF Inv, DeliveryTypeOK, Range
    <3>2. QED
      BY <1>2, <2>1, <3>1 DEF Inv, Books
  <2>3. \A i \in box \cup Range(fetched) : i <= put /\ i \in Nat
    <3>1. Range(fetched) \subseteq Items
      BY DEF Inv, DeliveryTypeOK, Range
    <3>2. QED
      BY <2>1, <3>1 DEF Inv, Books
  <2>4. \A i \in box' \cup Range(fetched') : i <= put'
    BY <1>1, <1>2, <2>3
  <2>5. \A i \in Range(fetched'), j \in box' : i < j
    BY <1>1, <2>2 DEF Inv, Books
  <2>6. QED
    BY <1>1, <2>4, <2>5 DEF Inv, Books, vars, pollVars
<1>6. OneChain' /\ NoStray' /\ LossNeedsCause'
  BY <1>1 DEF Inv, OneChain, NoStray, LossNeedsCause, OnItsWay, vars, pollVars
<1>7. QED
  BY <1>3, <1>4, <1>5, <1>6 DEF Inv

\* The item that is read comes after all that were read before it.
LEMMA ServeInv == ASSUME Inv, NEW r \in Requests, Serve(r) PROVE Inv'
<1>1. /\ r \in asked /\ asked' = asked \ {r}
      /\ UNCHANGED <<present, notified, running, subscribed, active, timers, flying, held,
                     activations, changes, sent, put, faults>>
  BY DEF Serve, vars, pollVars
<1>2. PollerInv' /\ TypeOK'
  BY PollerKept DEF DeliveryNext, PollerInv
<1>3. CASE box = {}
  <2>1. UNCHANGED <<box, fetched, answer>>
    BY <1>3 DEF Serve
  <2>2. DeliveryTypeOK' /\ Books' /\ OneChain' /\ NoStray'
    BY <1>1, <1>2, <2>1 DEF Inv, DeliveryTypeOK, Books, OneChain, NoStray
  <2>3. LossNeedsCause'
    BY <1>1, <2>1 DEF Inv, LossNeedsCause, OnItsWay
  <2>4. QED
    BY <1>2, <2>2, <2>3 DEF Inv
<1>4. CASE box # {}
  <2>1. PICK i \in box : /\ \A j \in box : i <= j
                         /\ box' = box \ {i} /\ fetched' = Append(fetched, i)
                         /\ answer' = [answer EXCEPT ![r] = IF r \in flying THEN i ELSE 0]
    BY <1>4 DEF Serve, Oldest, Mail!Fetch
  <2>2. i \in Items /\ i \in Nat /\ i # 0 /\ \A j \in box : j \in Nat
    BY DEF Inv, DeliveryTypeOK, Items
  <2>3. fetched' \in Seq(Items) /\ Range(fetched') = Range(fetched) \cup {i}
    BY <2>1, <2>2, AppendFacts DEF Inv, DeliveryTypeOK
  <2>4. /\ answer' \in [Requests -> Items \cup {0}]
        /\ answer'[r] = (IF r \in flying THEN i ELSE 0)
        /\ \A q \in Requests \ {r} : answer'[q] = answer[q]
    BY <2>1, <2>2 DEF Inv, DeliveryTypeOK
  <2>5. DeliveryTypeOK'
    BY <1>1, <1>2, <2>1, <2>3, <2>4 DEF Inv, DeliveryTypeOK
  <2>6. i \notin Range(fetched) /\ i \notin Range(sent)
    BY <2>2 DEF Inv, Books
  <2>7. \A q \in flying : q \in Requests
    BY DEF Inv, PollerInv, TypeOK
  <2>8. Books'
    <3>1. \A j \in Range(fetched'), k \in box' : j < k
      BY <2>1, <2>2, <2>3 DEF Inv, Books
    <3>2. \A q \in flying' : answer'[q] # 0 =>
            /\ answer'[q] \in Range(fetched') \ Range(sent')
            /\ \A p \in flying' : answer'[p] = answer'[q] => p = q
      BY <1>1, <2>2, <2>3, <2>4, <2>6, <2>7 DEF Inv, Books
    <3>3. QED
      BY <1>1, <2>1, <2>3, <3>1, <3>2 DEF Inv, Books
  <2>9. OneChain'
    <3>1. \A j \in Range(sent) : j < i
      BY DEF Inv, Books
    <3>2. QED
      BY <1>1, <2>4, <2>7, <3>1 DEF Inv, OneChain
  <2>10. NoStray'
    BY <1>1 DEF Inv, NoStray
  <2>11. LossNeedsCause'
    <3>1. SUFFICES ASSUME faults = 0, activations <= 1, NEW j \in Range(fetched')
                   PROVE  j \in Range(sent') \/ OnItsWay(j)'
      <4>1. faults \in Nat /\ activations \in Nat
        BY DEF Inv, DeliveryTypeOK, PollerInv, TypeOK
      <4>2. QED
        BY <1>1, <4>1 DEF LossNeedsCause
    <3>2. r \in flying
      BY <1>1, <3>1 DEF Inv, NoStray
    <3>3. CASE j = i
      BY <1>1, <2>4, <3>2, <3>3 DEF OnItsWay
    <3>4. CASE j # i
      <4>1. j \in Range(sent) \/ OnItsWay(j)
        <5>1. ~(faults > 0) /\ ~(activations > 1)
          BY <3>1 DEF Inv, PollerInv, TypeOK
        <5>2. j \in Range(fetched)
          BY <2>3, <3>1, <3>4
        <5>3. QED
          BY <5>1, <5>2 DEF Inv, LossNeedsCause
      <4>2. QED
        BY <1>1, <2>4, <2>7, <4>1 DEF OnItsWay
    <3>5. QED
      BY <3>3, <3>4
  <2>12. QED
    BY <1>2, <2>5, <2>8, <2>9, <2>10, <2>11 DEF Inv
<1>5. QED
  BY <1>3, <1>4

\* Steps of the service that answer nothing.
LEMMA NothingServedInv ==
    ASSUME Inv, Discard \/ Restart \/ \E r \in Requests : Refuse(r)
    PROVE  Inv'
<1>1. /\ box' \subseteq box /\ asked' \subseteq asked
      /\ UNCHANGED <<present, notified, running, subscribed, active, timers, flying, held,
                     activations, changes, fetched, answer, sent, put>>
  BY DEF Discard, Restart, Refuse, Mail!Discard, vars, pollVars
<1>2. PollerInv' /\ TypeOK'
  BY PollerKept DEF DeliveryNext, PollerInv
<1>3. faults' \in 0 .. MaxFaults /\ faults \in Nat
      /\ (faults' = 0 => faults = 0 /\ asked' = asked)
  <2>1. CASE Discard
    BY <2>1 DEF Discard, Inv, DeliveryTypeOK
  <2>2. CASE ~Discard
    BY <2>2, DeliveryAssumption DEF Restart, Refuse, Fault, Inv, DeliveryTypeOK
  <2>3. QED
    BY <2>1, <2>2
<1>4. DeliveryTypeOK'
  BY <1>1, <1>2, <1>3 DEF Inv, DeliveryTypeOK
<1>5. Books' /\ OneChain' /\ NoStray'
  BY <1>1, <1>3 DEF Inv, Books, OneChain, NoStray
<1>6. LossNeedsCause'
  BY <1>1, <1>3 DEF Inv, LossNeedsCause, OnItsWay
<1>7. QED
  BY <1>2, <1>4, <1>5, <1>6 DEF Inv

LEMMA ScriptInv == ASSUME Inv, Script PROVE Inv'
<1>1. UNCHANGED <<flying, held, box, fetched, asked, answer, sent, put, faults>>
  BY DEF Script, deliveryVars, SettingsChange, CameraOnChange, SettingsCallback, Start, Stop,
         pollVars
<1>2. PollerInv' /\ TypeOK'
  BY PollerKept DEF DeliveryNext, PollerInv
<1>3. activations' \in {activations, activations + 1} /\ activations \in Nat
  BY SyncKeeps DEF Script, SettingsChange, CameraOnChange, SettingsCallback, Start, Stop,
         Inv, PollerInv, TypeOK
<1>4. activations' <= 1 => activations <= 1
  BY <1>3
<1>5. DeliveryTypeOK'
  BY <1>1, <1>2 DEF Inv, DeliveryTypeOK
<1>6. Books' /\ OneChain' /\ NoStray'
  BY <1>1, <1>4 DEF Inv, Books, OneChain, NoStray
<1>7. LossNeedsCause'
  BY <1>1, <1>3 DEF Inv, LossNeedsCause, OnItsWay
<1>8. QED
  BY <1>2, <1>5, <1>6, <1>7 DEF Inv

\* A new request has no answer yet.
LEMMA AskInv == ASSUME Inv, Ask PROVE Inv'
<1>1. /\ GetEvents /\ asked' = asked \cup (flying' \ flying)
      /\ answer' = [r \in Requests |-> IF r \in flying THEN answer[r] ELSE 0]
      /\ timers > 0 /\ timers' = timers - 1
      /\ UNCHANGED <<present, notified, running, subscribed, active, activations, changes,
                     box, fetched, sent, put, faults>>
  BY DEF Ask, GetEvents
<1>2. PollerInv' /\ TypeOK' /\ flying' \subseteq Requests
  BY PollerKept DEF DeliveryNext, PollerInv, TypeOK
<1>3. flying \subseteq flying' /\ flying' \subseteq flying \cup {held'}
  BY <1>1 DEF GetEvents
<1>4. answer' \in [Requests -> Items \cup {0}]
      /\ \A r \in Requests : answer'[r] = IF r \in flying THEN answer[r] ELSE 0
  BY <1>1 DEF Inv, DeliveryTypeOK
<1>5. DeliveryTypeOK'
  <2>1. asked' \subseteq Requests
    BY <1>1, <1>2 DEF Inv, DeliveryTypeOK
  <2>2. QED
    BY <1>1, <1>2, <1>4, <2>1 DEF Inv, DeliveryTypeOK
<1>6. Books'
  BY <1>1, <1>2, <1>4 DEF Inv, Books
<1>7. activations <= 1 => flying = {}
  BY <1>1, OneAtATime DEF Inv
<1>8. OneChain'
  BY <1>1, <1>2, <1>3, <1>4, <1>7 DEF Inv, OneChain
<1>9. NoStray'
  BY <1>1, <1>3 DEF Inv, NoStray
<1>10. LossNeedsCause'
  <2>1. activations <= 1 \/ activations > 1
    BY DEF Inv, PollerInv, TypeOK
  <2>2. QED
    BY <1>1, <1>7, <2>1 DEF Inv, LossNeedsCause, OnItsWay
<1>11. QED
  BY <1>2, <1>5, <1>6, <1>8, <1>9, <1>10 DEF Inv

\* A request that cannot be started is a fault; the one chain is its timer.
LEMMA AskFailsInv == ASSUME Inv, AskFails PROVE Inv'
<1>1. /\ timers > 0
      /\ UNCHANGED <<flying, activations, box, fetched, asked, answer, sent, put>>
  BY DEF AskFails, GetEventsFails
<1>2. PollerInv' /\ TypeOK'
  BY PollerKept DEF DeliveryNext, PollerInv
<1>3. faults' \in 0 .. MaxFaults /\ faults' > 0
  BY DeliveryAssumption DEF AskFails, Fault, Inv, DeliveryTypeOK
<1>4. activations <= 1 => flying = {}
  BY <1>1, OneAtATime DEF Inv
<1>5. DeliveryTypeOK'
  BY <1>1, <1>2, <1>3 DEF Inv, DeliveryTypeOK
<1>6. Books' /\ OneChain'
  BY <1>1, <1>4 DEF Inv, Books, OneChain
<1>7. NoStray' /\ LossNeedsCause'
  BY <1>3 DEF NoStray, LossNeedsCause
<1>8. QED
  BY <1>2, <1>5, <1>6, <1>7 DEF Inv

\* An answer that arrives is sent on; the one chain has no other request.
LEMMA AnswerInv == ASSUME Inv, NEW r \in Requests, Answer(r) PROVE Inv'
<1>1. /\ r \in flying /\ flying' = flying \ {r} /\ r \notin asked
      /\ sent' = IF answer[r] = 0 THEN sent ELSE Append(sent, answer[r])
      /\ UNCHANGED <<activations, box, fetched, asked, answer, put, faults>>
  BY DEF Answer, GetEventsCallback, SendItem
<1>2. PollerInv' /\ TypeOK'
  BY PollerKept DEF DeliveryNext, PollerInv
<1>3. /\ answer[r] \in Items \cup {0} /\ sent \in Seq(Items)
      /\ IsInjective(sent)
      /\ answer[r] # 0 => answer[r] \in Range(fetched) \ Range(sent)
  BY <1>1 DEF Inv, DeliveryTypeOK, Books
<1>4. /\ sent' \in Seq(Items) /\ IsInjective(sent')
      /\ answer[r] = 0 => sent' = sent
      /\ answer[r] # 0 => Range(sent') = Range(sent) \cup {answer[r]}
  BY <1>1, <1>3, AppendFacts
<1>5. DeliveryTypeOK'
  BY <1>1, <1>2, <1>4 DEF Inv, DeliveryTypeOK
<1>6. Books'
  BY <1>1, <1>3, <1>4 DEF Inv, Books
<1>7. OneChain'
  <2>1. SUFFICES ASSUME activations <= 1
                 PROVE  /\ flying' = {}
                        /\ \A k, l \in DOMAIN sent' : k < l => sent'[k] < sent'[l]
    BY <1>1 DEF OneChain
  <2>2. flying' = {}
    BY <1>1, <2>1 DEF Inv, OneChain
  <2>3. CASE answer[r] = 0
    BY <1>4, <2>1, <2>2, <2>3 DEF Inv, OneChain
  <2>4. CASE answer[r] # 0
    <3>1. \A i \in Range(sent) : i < answer[r]
      BY <1>1, <2>1, <2>4 DEF Inv, OneChain
    <3>2. \A k, l \in DOMAIN sent : k < l => sent[k] < sent[l]
      BY <2>1 DEF Inv, OneChain
    <3>3. QED
      BY <1>1, <1>3, <2>2, <2>4, <3>1, <3>2, AppendRises
  <2>5. QED
    BY <2>3, <2>4
<1>8. NoStray'
  BY <1>1 DEF Inv, NoStray
<1>9. LossNeedsCause'
  <2>1. SUFFICES ASSUME NEW i \in Range(fetched), ~(faults > 0), ~(activations > 1)
                 PROVE  i \in Range(sent') \/ OnItsWay(i)'
    BY <1>1 DEF LossNeedsCause
  <2>2. i # 0
    <3>1. i \in Items
      BY DEF Inv, DeliveryTypeOK, Range
    <3>2. QED
      BY <3>1 DEF Items
  <2>3. CASE i \in Range(sent)
    BY <1>4, <2>3
  <2>4. CASE OnItsWay(i)
    <3>1. PICK q \in flying \ asked : answer[q] = i
      BY <2>4 DEF OnItsWay
    <3>2. CASE q = r
      BY <1>4, <2>2, <3>1, <3>2
    <3>3. CASE q # r
      BY <1>1, <3>1, <3>3 DEF OnItsWay
    <3>4. QED
      BY <3>2, <3>3
  <2>5. QED
    BY <2>1, <2>3, <2>4 DEF Inv, LossNeedsCause
<1>10. QED
  BY <1>2, <1>5, <1>6, <1>7, <1>8, <1>9 DEF Inv

\* A request that fails is a fault, and one that is collected has another beside it.
LEMMA RequestLostInv ==
    ASSUME Inv, NEW r \in Requests, Fail(r) \/ Forget(r)
    PROVE  Inv'
<1>1. /\ r \in flying /\ flying' = flying \ {r}
      /\ UNCHANGED <<activations, box, fetched, asked, answer, sent, put>>
  BY DEF Fail, Forget, GetEventsCallback, Collect, deliveryVars
<1>2. PollerInv' /\ TypeOK'
  BY PollerKept DEF DeliveryNext, PollerInv
<1>3. faults' \in 0 .. MaxFaults /\ faults \in Nat
  BY DeliveryAssumption DEF Fail, Forget, Fault, deliveryVars, Inv, DeliveryTypeOK
<1>4. faults' > 0 \/ activations > 1
  <2>1. CASE Fail(r)
    BY <1>3, <2>1 DEF Fail, Fault
  <2>2. CASE Forget(r)
    BY <1>1, <2>2 DEF Forget, Collect, Inv, OneChain, PollerInv, TypeOK
  <2>3. QED
    BY <2>1, <2>2
<1>5. DeliveryTypeOK'
  BY <1>1, <1>2, <1>3 DEF Inv, DeliveryTypeOK
<1>6. Books'
  BY <1>1 DEF Inv, Books
<1>7. OneChain'
  BY <1>1 DEF Inv, OneChain
<1>8. NoStray' /\ LossNeedsCause'
  <2>1. activations \in Nat
    BY DEF Inv, PollerInv, TypeOK
  <2>2. QED
    BY <1>1, <1>3, <1>4, <2>1 DEF NoStray, LossNeedsCause
<1>9. QED
  BY <1>2, <1>5, <1>6, <1>7, <1>8 DEF Inv

LEMMA DeliveryStep == Inv /\ [DeliveryNext]_allVars => Inv'
<1> SUFFICES ASSUME Inv, [DeliveryNext]_allVars PROVE Inv'
  OBVIOUS
<1>1. CASE UNCHANGED allVars
  <2>1. PollerInv' /\ TypeOK'
    BY PollerKept DEF PollerInv
  <2>2. DeliveryTypeOK'
    BY <1>1, <2>1 DEF allVars, deliveryVars, Inv, DeliveryTypeOK
  <2>3. QED
    BY <1>1, <2>1, <2>2 DEF allVars, vars, pollVars, deliveryVars, Inv, Books, OneChain,
         NoStray, LossNeedsCause, OnItsWay
<1>2. ASSUME NEW r \in Requests, Serve(r) \/ Refuse(r) \/ Answer(r) \/ Fail(r) \/ Forget(r)
      PROVE  Inv'
  BY <1>2, ServeInv, NothingServedInv, AnswerInv, RequestLostInv
<1>3. QED
  BY <1>1, <1>2, ArriveInv, NothingServedInv, ScriptInv, AskInv, AskFailsInv DEF DeliveryNext

LEMMA DeliveryStart == DeliveryInit => Inv
<1> SUFFICES ASSUME DeliveryInit PROVE Inv
  OBVIOUS
<1>1. PollerInv /\ TypeOK
  BY PollerInit DEF DeliveryInit, PollerInv
<1>2. /\ box = {} /\ fetched = <<>> /\ asked = {} /\ answer = [r \in Requests |-> 0]
      /\ sent = <<>> /\ put = 0 /\ faults = 0 /\ flying = {}
  BY DEF DeliveryInit, Mail!Init, Init
<1>3. Range(fetched) = {} /\ Range(sent) = {} /\ DOMAIN sent = {} /\ IsInjective(sent)
  BY <1>2 DEF Range, IsInjective
<1>4. DeliveryTypeOK
  <2>1. fetched \in Seq(Items) /\ sent \in Seq(Items)
    BY <1>2
  <2>2. answer \in [Requests -> Items \cup {0}]
    BY <1>2
  <2>3. QED
    BY <1>1, <1>2, <2>1, <2>2, DeliveryAssumption DEF DeliveryTypeOK
<1>5. QED
  BY <1>1, <1>2, <1>3, <1>4 DEF Inv, Books, OneChain, NoStray, LossNeedsCause

LEMMA Invariant == DeliverySpec => []Inv
<1>1. DeliveryInit => Inv
  BY DeliveryStart
<1>2. Inv /\ [DeliveryNext]_allVars => Inv'
  BY DeliveryStep
<1>3. QED
  BY <1>1, <1>2, PTL DEF DeliverySpec

\* Every variable of the script, the store and what is between them has its type.
THEOREM TypeCorrect == DeliverySpec => []DeliveryTypeOK
<1>1. Inv => DeliveryTypeOK
  BY DEF Inv
<1>2. QED
  BY <1>1, Invariant, PTL

\* "Fetched by bridge = delivered", unless something fails or polling was
\* started again.
THEOREM FetchedIsDelivered == DeliverySpec => []LossNeedsCause
<1>1. Inv => LossNeedsCause
  BY DEF Inv
<1>2. QED
  BY <1>1, Invariant, PTL

\* Nothing is sent on twice, and one chain sends in order, also through faults.
THEOREM SentOnceInOrder == DeliverySpec => []SentInOrder
<1>1. Inv => SentInOrder
  BY DEF Inv, Books, OneChain, SentInOrder
<1>2. QED
  BY <1>1, Invariant, PTL

\* What arrives, is read and is discarded is what a mailbox allows.
LEMMA BoxStep == Inv /\ [DeliveryNext]_allVars => [Mail!Next]_(Mail!mailVars)
<1> SUFFICES ASSUME Inv, [DeliveryNext]_allVars PROVE [Mail!Next]_(Mail!mailVars)
  OBVIOUS
<1>1. CASE UNCHANGED allVars \/ Script \/ Ask \/ AskFails
  BY <1>1 DEF allVars, deliveryVars, Mail!mailVars, Script, Ask, AskFails
<1>2. CASE Arrive
  <2>1. put' = put + 1 /\ Mail!Put(put')
    BY <1>2 DEF Arrive
  <2>2. put' \in Items
    BY <1>2, <2>1, DeliveryAssumption DEF Arrive, Inv, DeliveryTypeOK, Items
  <2>3. QED
    BY <2>1, <2>2 DEF Mail!Next
<1>3. CASE Discard \/ Restart
  <2>1. \E S \in SUBSET box : Mail!Discard(S)
    BY <1>3 DEF Discard, Restart
  <2>2. QED
    BY <2>1 DEF Mail!Next
<1>4. ASSUME NEW r \in Requests, Serve(r) PROVE [Mail!Next]_(Mail!mailVars)
  BY <1>4 DEF Serve, Mail!Next, Mail!mailVars
<1>5. ASSUME NEW r \in Requests, Refuse(r) \/ Answer(r) \/ Fail(r) \/ Forget(r)
      PROVE  UNCHANGED Mail!mailVars
  BY <1>5 DEF Refuse, Answer, Fail, Forget, deliveryVars, Mail!mailVars
<1>6. QED
  BY <1>1, <1>2, <1>3, <1>4, <1>5 DEF DeliveryNext

\* The composition reads out of a mailbox: what NothingTwice says of fetches
\* holds for it, whatever the bridge and the service do.
THEOREM DeliveryUsesMailbox == DeliverySpec => Mail!Spec
<1>1. DeliveryInit => Mail!Init
  BY DEF DeliveryInit
<1>2. Inv /\ [DeliveryNext]_allVars => [Mail!Next]_(Mail!mailVars)
  BY BoxStep
<1>3. QED
  BY <1>1, <1>2, Invariant, PTL DEF DeliverySpec, Mail!Spec
=============================================================================
