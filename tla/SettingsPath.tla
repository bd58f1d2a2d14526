---------------------------- MODULE SettingsPath ----------------------------
(***************************************************************************)
(* From a camera's settings to the vendor's camera table: the scripts of   *)
(* all cameras (internal/bridge/point_of_sale.lua, sync_settings) post     *)
(* their configurations to the service (Configuration), and the container  *)
(* the service runs in may stop and come back with nothing.                *)
(*                                                                         *)
(* A post is sent once: the script does not wait for its answer and does   *)
(* not repeat it, and two posts of one camera may overtake each other.     *)
(* Settings without a point_of_sale entry are Absent; they are not posted. *)
(***************************************************************************)
EXTENDS Configuration, FiniteSets

CONSTANTS
    Absent,         \* settings without a point_of_sale entry
    MaxChanges,     \* bound: changes of settings, starts and stops
    MaxFaults       \* bound: what is not retrieved or not delivered; restarts

ASSUME PathAssumption ==
    /\ \A esn \in ESNs : Absent \notin Offers[esn]
    /\ MaxChanges \in Nat /\ MaxFaults \in Nat

Hooks == {"scripts", "on"}

VARIABLES
    wanted,         \* the settings of each camera
    hooks,          \* what each camera's script has subscribed to
    due,            \* cameras whose sync_settings has yet to run
    posts,          \* posts the service has not taken up
    astray,         \* history: cameras whose last settings were not noticed,
                    \* not delivered, or posted beside an earlier post
    changes,
    faults

pathVars == <<wanted, hooks, due, posts, astray, changes, faults>>

allVars == <<vars, pathVars>>

PathInit ==
    /\ Init
    /\ wanted = [esn \in ESNs |-> Absent]
    /\ hooks = [esn \in ESNs |-> {}]
    /\ due = {}
    /\ posts = {}
    /\ astray = {}
    /\ changes = 0
    /\ faults = 0

OneChange == changes < MaxChanges /\ changes' = changes + 1
Fault == faults < MaxFaults /\ faults' = faults + 1

-----------------------------------------------------------------------------
(* The settings and the scripts' lives *)

SettingsChange(esn) ==
    /\ OneChange
    /\ \E ips \in Offers[esn] \cup {Absent} : wanted' = [wanted EXCEPT ![esn] = ips]
    /\ IF "scripts" \in hooks[esn]
       THEN due' = due \cup {esn} /\ UNCHANGED astray
       ELSE astray' = astray \cup {esn} /\ UNCHANGED due
    /\ UNCHANGED <<vars, hooks, posts, faults>>

CameraOnChange(esn) ==
    /\ OneChange
    /\ "on" \in hooks[esn]
    /\ due' = due \cup {esn}
    /\ UNCHANGED <<vars, wanted, hooks, posts, astray, faults>>

\* start and restart, whose settings are valid.
Start(esn) ==
    /\ OneChange
    /\ "scripts" \notin hooks[esn]
    /\ hooks' = [hooks EXCEPT ![esn] = Hooks]
    /\ due' = due \cup {esn}
    /\ UNCHANGED <<vars, wanted, posts, astray, faults>>

\* stop drops the scripts hook and the notification it may have had.
Stop(esn) ==
    /\ OneChange
    /\ "scripts" \in hooks[esn]
    /\ hooks' = [hooks EXCEPT ![esn] = @ \ {"scripts"}]
    /\ due' = due \ {esn}
    /\ astray' = astray \cup (due \cap {esn})
    /\ UNCHANGED <<vars, wanted, posts, faults>>

-----------------------------------------------------------------------------
(* sync_settings and its post *)

InFlight(esn) == \E p \in posts : p.esn = esn

\* A number tells posts of the same content apart.
Unused == CHOOSE n \in 1 .. Cardinality(posts) + 1 : \A p \in posts : p.n # n

Post(esn, ips) ==
    /\ posts' = posts \cup {[esn |-> esn, ips |-> ips, n |-> Unused]}
    /\ astray' = IF InFlight(esn) THEN astray \cup {esn} ELSE astray \ {esn}

\* Mutant: an entry without registers is not posted either.
SyncSkipsEmpty(esn) ==
    /\ esn \in due
    /\ due' = due \ {esn}
    /\ IF wanted[esn] \in {Absent, {}}
       THEN UNCHANGED <<posts, astray>>
       ELSE Post(esn, wanted[esn])
    /\ UNCHANGED <<vars, wanted, hooks, changes, faults>>

\* send_config_to_pos_service posts the entry, if there is one.
SyncSettings(esn) ==
    /\ esn \in due
    /\ due' = due \ {esn}
    /\ IF wanted[esn] = Absent
       THEN UNCHANGED <<posts, astray>>
       ELSE Post(esn, wanted[esn])
    /\ UNCHANGED <<vars, wanted, hooks, changes, faults>>

\* Settings that cannot be retrieved are not asked for again.
SyncFails(esn) ==
    /\ Fault
    /\ esn \in due
    /\ due' = due \ {esn}
    /\ astray' = astray \cup {esn}
    /\ UNCHANGED <<vars, wanted, hooks, posts, changes>>

\* A post is refused, times out on its way or is collected: nothing holds its
\* EENCurl object.
LosePost(p) ==
    /\ Fault
    /\ p \in posts
    /\ posts' = posts \ {p}
    /\ astray' = astray \cup {p.esn}
    /\ UNCHANGED <<vars, wanted, hooks, due, changes>>

\* settingsHandler.
Deliver(p) ==
    /\ p \in posts
    /\ BeginUpdate(p.esn, p.ips)
    /\ posts' = posts \ {p}
    /\ UNCHANGED <<wanted, hooks, due, astray, changes, faults>>

\* The container stops and comes back: nothing of what the service knew was
\* kept, and no script is told.
Restart ==
    /\ Fault
    /\ configs' = NoConfigs /\ activeVendor' = FALSE
    /\ token' = FALSE /\ locked' = FALSE /\ work' = NoWork
    /\ main' = "wait" /\ snapshot' = NoConfigs
    /\ vendor' = 0 /\ started' = 0 /\ maps' = Empty
    /\ updates' = 0 /\ raced' = {} /\ unsignalled' = FALSE
    /\ posts' = {}
    /\ astray' = ESNs
    /\ UNCHANGED <<wanted, hooks, due, changes>>

-----------------------------------------------------------------------------
(* The whole *)

Service ==
    /\ \/ Callback \/ Call \/ Panic \/ EndUpdate
       \/ \E a \in Actors : Handle(a)
       \/ MainStep
    /\ UNCHANGED pathVars

PathNext ==
    \/ \E esn \in ESNs :
        \/ SettingsChange(esn) \/ CameraOnChange(esn) \/ Start(esn) \/ Stop(esn)
        \/ SyncSettings(esn) \/ SyncFails(esn)
    \/ \E p \in posts : LosePost(p) \/ Deliver(p)
    \/ Service
    \/ Restart

PathSpec == PathInit /\ [][PathNext]_allVars

\* The service's goroutines run, a callback that is due is called, and a post
\* that is not lost arrives.
PathFairSpec ==
    /\ PathSpec
    /\ WF_allVars((Callback \/ Call \/ Panic) /\ UNCHANGED pathVars)
    /\ WF_allVars(EndUpdate /\ UNCHANGED pathVars)
    /\ WF_allVars(MainStep /\ UNCHANGED pathVars)
    /\ \A a \in Actors : WF_allVars(Handle(a) /\ UNCHANGED pathVars)
    /\ \A esn \in ESNs : WF_allVars(SyncSettings(esn))
    /\ WF_allVars(\E p \in posts : Deliver(p))

-----------------------------------------------------------------------------
(* Properties *)

PathTypeOK ==
    /\ TypeOK
    /\ wanted \in [ESNs -> (SUBSET IPs) \cup {Absent}]
    /\ hooks \in [ESNs -> SUBSET Hooks]
    /\ due \subseteq ESNs
    /\ posts \subseteq [esn : ESNs, ips : SUBSET IPs, n : Nat]
    /\ astray \subseteq ESNs
    /\ changes \in 0 .. MaxChanges
    /\ faults \in 0 .. MaxFaults

Delivered == Settled /\ due = {} /\ posts = {} /\ ~unsignalled

\* End to end: when all is quiet, a camera whose settings name registers is
\* mapped to those, and to no other that is its own, unless one of the named
\* accidents befell its last settings: they were not noticed, not delivered or
\* overtaken, the container was restarted since, or main was replaying a
\* snapshot as they arrived.  The next settings that are noticed and arrive by
\* themselves make it good.
RoutedAsSettings ==
    Delivered =>
        \A esn \in ESNs \ (astray \cup raced) :
            wanted[esn] # Absent /\ wanted[esn] \cap Unreadable = {} =>
                RoutedFor(esn, wanted[esn])
=============================================================================
