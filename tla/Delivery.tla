------------------------------ MODULE Delivery ------------------------------
(***************************************************************************)
(* What reaches the bridge: the script's polling of one camera             *)
(* (BridgePoller) together with the service that answers its requests out  *)
(* of the store (Mailbox, which ANNTStore implements).                     *)
(*                                                                         *)
(* A read takes its item out of the store before it is answered            *)
(* (internal/api/handlers.go, eventsHandler), and the service goes on with *)
(* a request the bridge has given up.  Items are numbered in the order of  *)
(* their keys.                                                             *)
(***************************************************************************)
EXTENDS BridgePoller, Sequences, Functions

CONSTANTS
    MaxItems,       \* bound: items the store is given
    MaxFaults       \* bound: timeouts, failed requests and restarts

ASSUME DeliveryAssumption == MaxItems \in Nat /\ MaxFaults \in Nat

Items == 1 .. MaxItems

VARIABLES
    box,            \* the camera's items in the store
    fetched,        \* history: the items reads took out, in order
    asked,          \* requests the service has yet to answer
    answer,         \* the item in a request's answer, 0 for an answer without one
    sent,           \* history: the items sent on as ANNTs, in order
    put,            \* items the store was given
    faults

deliveryVars == <<box, fetched, asked, answer, sent, put, faults>>

allVars == <<vars, deliveryVars>>

\* A read is one step here: it holds nothing in between.
Mail == INSTANCE Mailbox WITH
    used <- 1 .. put, held <- {}, listed <- {}, given <- {}

DeliveryInit ==
    /\ Init
    /\ put = 0
    /\ Mail!Init
    /\ asked = {}
    /\ answer = [r \in Requests |-> 0]
    /\ sent = <<>>
    /\ faults = 0

Fault == faults < MaxFaults /\ faults' = faults + 1

-----------------------------------------------------------------------------
(* The service *)

\* A result of the camera is stored.
Arrive ==
    /\ put < MaxItems
    /\ put' = put + 1
    /\ Mail!Put(put')
    /\ UNCHANGED <<vars, asked, answer, sent, faults>>

\* Mutant: the latest item first.
Latest(i) == \A j \in box : i >= j

Oldest(i) == \A j \in box : i <= j

\* The read of eventsHandler, whether or not the bridge still waits for it.
Serve(r) ==
    /\ r \in asked
    /\ asked' = asked \ {r}
    /\ UNCHANGED <<vars, sent, put, faults>>
    /\ IF box = {}
       THEN UNCHANGED <<box, fetched, answer>>
       ELSE \E i \in box :
            /\ Oldest(i)
            /\ Mail!Fetch(i)
            /\ answer' = [answer EXCEPT ![r] = IF r \in flying THEN i ELSE 0]

\* A read that fails, in a conflict for one, takes nothing.
Refuse(r) ==
    /\ r \in asked
    /\ Fault
    /\ asked' = asked \ {r}
    /\ UNCHANGED <<vars, box, fetched, answer, sent, put>>

\* A cleanup, or a drain that no read overlaps.
Discard ==
    /\ UNCHANGED <<vars, asked, answer, sent, put, faults>>
    /\ \E S \in SUBSET box \ {{}} : Mail!Discard(S)

\* The container stops and comes back: its requests break off, and what its
\* queues had in hand is gone.
Restart ==
    /\ Fault
    /\ asked' = {}
    /\ UNCHANGED <<vars, answer, sent, put>>
    /\ \E S \in SUBSET box : Mail!Discard(S)

-----------------------------------------------------------------------------
(* The bridge *)

Script ==
    /\ SettingsChange \/ CameraOnChange \/ SettingsCallback \/ Start \/ Stop
    /\ UNCHANGED deliveryVars

\* get_events; a request is a new one to the service.
Ask ==
    /\ GetEvents
    /\ flying' \cap asked \subseteq flying
    /\ asked' = asked \cup (flying' \ flying)
    /\ answer' = [r \in Requests |-> IF r \in flying THEN answer[r] ELSE 0]
    /\ UNCHANGED <<box, fetched, sent, put, faults>>

AskFails ==
    /\ Fault
    /\ GetEventsFails
    /\ UNCHANGED <<box, fetched, asked, answer, sent, put>>

\* Mutant: the item is sent on unless the script was stopped meanwhile.
SendWhileActive(r) ==
    sent' = IF answer[r] = 0 \/ ~active THEN sent ELSE Append(sent, answer[r])

\* process_single_annt, also after the script was stopped.
SendItem(r) == sent' = IF answer[r] = 0 THEN sent ELSE Append(sent, answer[r])

\* The answer is there in time and whole.
Answer(r) ==
    /\ r \notin asked
    /\ GetEventsCallback(r)
    /\ SendItem(r)
    /\ UNCHANGED <<box, fetched, asked, answer, put, faults>>

\* The callback is told of an error, a timeout for one, or has an item it
\* cannot send: an item in the answer is lost, and the service is not told.
Fail(r) ==
    /\ Fault
    /\ GetEventsCallback(r)
    /\ UNCHANGED <<box, fetched, asked, answer, sent, put>>

Forget(r) == Collect(r) /\ UNCHANGED deliveryVars

DeliveryNext ==
    \/ Arrive \/ Discard \/ Restart
    \/ Script \/ Ask \/ AskFails
    \/ \E r \in Requests :
        Serve(r) \/ Refuse(r) \/ Answer(r) \/ Fail(r) \/ Forget(r)

DeliverySpec == DeliveryInit /\ [][DeliveryNext]_allVars

\* The service answers what it is asked and timers go off; a request ends in
\* its callback or, if nothing refers to it, may be collected instead.  What
\* fails does so a bounded number of times.
DeliveryFairSpec ==
    /\ DeliverySpec
    /\ WF_allVars(Ask)
    /\ \A r \in Requests :
        /\ WF_allVars(Serve(r))
        /\ WF_allVars(Answer(r) /\ r = held)
        /\ WF_allVars(Answer(r) \/ Forget(r))

-----------------------------------------------------------------------------
(* Properties *)

DeliveryTypeOK ==
    /\ TypeOK
    /\ box \subseteq Items /\ fetched \in Seq(Items)
    /\ asked \subseteq Requests
    /\ answer \in [Requests -> Items \cup {0}]
    /\ sent \in Seq(Items)
    /\ put \in 0 .. MaxItems
    /\ faults \in 0 .. MaxFaults

OnItsWay(i) == \E r \in flying \ asked : answer[r] = i

\* "Fetched by bridge = delivered": an item that a read took out of the store is
\* on its way or has been sent on.  Only a fault loses one, or the second chain
\* of a script whose polling was started again, which leaves a request to the
\* collector; a stop in between does not.
LossNeedsCause ==
    \A i \in Range(fetched) :
        i \in Range(sent) \/ OnItsWay(i) \/ faults > 0 \/ activations > 1

\* No item is sent on twice, also when requests time out and are answered late;
\* while polling was started once, items are sent on in the order of their keys.
SentInOrder ==
    /\ IsInjective(sent)
    /\ activations <= 1 =>
        \A k, l \in DOMAIN sent : k < l => sent[k] < sent[l]

\* A script that stays active empties the store, whatever timed out, failed or
\* was stopped and started before.
AllFetched == <>[]active => <>[](box = {})
=============================================================================
