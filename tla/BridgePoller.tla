---------------------------- MODULE BridgePoller ----------------------------
(***************************************************************************)
(* The script the bridge runs for one camera                               *)
(* (internal/bridge/point_of_sale.lua): it follows the camera's settings   *)
(* and, while they have a point_of_sale configuration, polls the events    *)
(* endpoint: a timer starts a request, and the request's callback starts   *)
(* the next timer.                                                         *)
(*                                                                         *)
(* The bridge's runtime is external: it runs one callback at a time; a     *)
(* request nobody refers to any more may be collected as garbage, its      *)
(* callback with it.  The script refers to one request, E.Curl.            *)
(***************************************************************************)
EXTENDS Integers, FiniteSets

CONSTANTS
    Requests,       \* bound: requests in flight at once
    None,           \* E.Curl = nil
    MaxChanges      \* bound: changes of the settings, starts and stops

ASSUME PollerAssumption ==
    /\ IsFiniteSet(Requests) /\ None \notin Requests
    /\ MaxChanges \in Nat

Hooks == {"scripts", "on"}

VARIABLES
    present,        \* the camera's settings have a point_of_sale configuration
    notified,       \* the hooks whose callback has yet to run
    running,        \* Running
    subscribed,     \* Subscriptions
    active,         \* E.Active
    timers,         \* calls of get_events that EENEnv.after will make
    flying,         \* requests in flight
    held,           \* E.Curl
    activations,    \* history: how often polling was started
    changes

vars == <<present, notified, running, subscribed, active, timers, flying, held,
          activations, changes>>

pollVars == <<flying, held>>

Init ==
    /\ present = FALSE
    /\ notified = {}
    /\ running = FALSE
    /\ subscribed = {}
    /\ active = FALSE
    /\ timers = 0
    /\ flying = {}
    /\ held = None
    /\ activations = 0
    /\ changes = 0

-----------------------------------------------------------------------------
(* The settings *)

Change == changes < MaxChanges /\ changes' = changes + 1

\* The configuration appears or goes; subscribers are told.
SettingsChange ==
    /\ Change
    /\ present' = ~present
    /\ notified' = notified \cup (subscribed \cap {"scripts"})
    /\ UNCHANGED <<running, subscribed, active, timers, pollVars, activations>>

\* The camera is turned on or off.
CameraOnChange ==
    /\ Change
    /\ "on" \in subscribed
    /\ notified' = notified \cup {"on"}
    /\ UNCHANGED <<present, running, subscribed, active, timers, pollVars, activations>>

\* Mutant: polling is started without a look at whether it runs.
SyncAlwaysStarts ==
    /\ active' = present
    /\ IF present
       THEN timers' = timers + 1 /\ activations' = activations + (IF active THEN 0 ELSE 1)
       ELSE UNCHANGED <<timers, activations>>

\* sync_settings; settings that cannot be retrieved leave all as it is.
SyncSettings ==
    \/ UNCHANGED <<active, timers, activations>>
    \/ /\ active' = present
       /\ IF present /\ ~active
          THEN timers' = timers + 1 /\ activations' = activations + 1
          ELSE UNCHANGED <<timers, activations>>

SettingsCallback ==
    /\ \E hook \in notified : notified' = notified \ {hook}
    /\ SyncSettings
    /\ UNCHANGED <<present, running, subscribed, pollVars, changes>>

-----------------------------------------------------------------------------
(* The script's life *)

\* start and restart: without valid settings it subscribes to nothing.
Start ==
    /\ Change
    /\ ~running
    /\ running' = TRUE
    /\ \/ UNCHANGED <<subscribed, active, timers, activations>>
       \/ subscribed' = Hooks /\ SyncSettings
    /\ UNCHANGED <<present, notified, pollVars>>

\* Mutant: the scripts hook is forgotten and not dropped.
StopForgetsHook ==
    /\ Change
    /\ running
    /\ running' = FALSE
    /\ active' = FALSE
    /\ subscribed' = subscribed \ {"scripts"}
    /\ UNCHANGED <<present, notified, timers, pollVars, activations>>

\* stop drops the scripts hook only; a dropped hook calls back no more.
Stop ==
    /\ Change
    /\ running
    /\ running' = FALSE
    /\ active' = FALSE
    /\ subscribed' = subscribed \ {"scripts"}
    /\ notified' = notified \ {"scripts"}
    /\ UNCHANGED <<present, timers, pollVars, activations>>

-----------------------------------------------------------------------------
(* Polling *)

\* Mutant: the object of a new request is kept in no global variable.
GetEventsLocally ==
    /\ timers > 0
    /\ timers' = timers - 1
    /\ IF active
       THEN \E r \in Requests \ flying : flying' = flying \cup {r}
       ELSE UNCHANGED flying
    /\ UNCHANGED <<present, notified, running, subscribed, active, held, activations, changes>>

\* Mutant: a timer that finds the script inactive is set again.
GetEventsRearmed ==
    /\ timers > 0
    /\ IF active
       THEN \E r \in Requests \ flying :
                flying' = flying \cup {r} /\ held' = r /\ timers' = timers - 1
       ELSE UNCHANGED <<flying, held, timers>>
    /\ UNCHANGED <<present, notified, running, subscribed, active, activations, changes>>

\* get_events.
GetEvents ==
    /\ timers > 0
    /\ timers' = timers - 1
    /\ IF active
       THEN \E r \in Requests \ flying : flying' = flying \cup {r} /\ held' = r
       ELSE UNCHANGED <<flying, held>>
    /\ UNCHANGED <<present, notified, running, subscribed, active, activations, changes>>

\* A request that cannot be made or started is none; E.Curl may be its object,
\* and the timer is set again.
GetEventsFails ==
    /\ timers > 0 /\ active
    /\ held' \in {held, None}
    /\ UNCHANGED <<present, notified, running, subscribed, active, timers, flying,
                   activations, changes>>

\* Mutant: an answer that is an error starts no timer.
CallbackGivesUp(r) ==
    /\ r \in flying
    /\ flying' = flying \ {r}
    /\ held' = None
    /\ timers' \in {timers, timers + 1}
    /\ UNCHANGED <<present, notified, running, subscribed, active, activations, changes>>

\* get_events_callback: whatever the answer, a timer is started.
GetEventsCallback(r) ==
    /\ r \in flying
    /\ flying' = flying \ {r}
    /\ held' = None
    /\ timers' = timers + 1
    /\ UNCHANGED <<present, notified, running, subscribed, active, activations, changes>>

Collect(r) ==
    /\ r \in flying /\ r # held
    /\ flying' = flying \ {r}
    /\ UNCHANGED <<present, notified, running, subscribed, active, timers, held,
                   activations, changes>>

Answered == \E r \in Requests : GetEventsCallback(r)

Next ==
    \/ SettingsChange \/ CameraOnChange \/ SettingsCallback
    \/ Start \/ Stop
    \/ GetEvents \/ GetEventsFails \/ Answered
    \/ \E r \in Requests : Collect(r)

Spec == Init /\ [][Next]_vars

-----------------------------------------------------------------------------
(* Properties *)

TypeOK ==
    /\ present \in BOOLEAN /\ running \in BOOLEAN
    /\ subscribed \subseteq Hooks /\ notified \subseteq subscribed
    /\ active \in BOOLEAN
    /\ timers \in Nat
    /\ flying \subseteq Requests
    /\ held \in flying \cup {None}
    /\ activations \in Nat
    /\ changes \in 0 .. MaxChanges

\* Polling does not die: while the script is active a timer is set or a request
\* is in flight that cannot be collected, though the callback of one request
\* forgets another and chains of an earlier activation are still about.
PollingAlive == active => timers > 0 \/ held \in flying

\* Chains of timers and requests do not multiply by themselves: there are never
\* more than the times polling was started.
ChainPerActivation == timers + Cardinality(flying) <= activations

\* A script that stays inactive comes to rest, whatever was in flight.
PollingStops == <>[](~active) => <>[](timers = 0 /\ flying = {})
=============================================================================
