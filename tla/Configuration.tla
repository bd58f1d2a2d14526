---------------------------- MODULE Configuration ----------------------------
(***************************************************************************)
(* From the configurations the bridge posts to the camera table of the     *)
(* running vendor: settings.Manager (internal/settings/manager.go), the    *)
(* vendor goroutine of main (cmd/bridge-pointofsale/main.go) and the       *)
(* vendor's HandleESNConfiguration with the state machine's IP-to-ESN      *)
(* table (internal/vendors/seveneleven).                                   *)
(*                                                                         *)
(* Two goroutines change the table: the one that holds the manager's lock  *)
(* in UpdateSettings ("update", through the callback), and main's          *)
(* ("replay", through the snapshot it replays to a new vendor).  Each      *)
(* works in steps, one per critical section of the table's mutex.          *)
(* A configuration is the set of register IPs it names; {} removes it.     *)
(***************************************************************************)
EXTENDS Integers, Sequences, Functions, Filtering

CONSTANTS
    ESNs,           \* cameras
    IPs,            \* register addresses
    Offers,         \* Offers[esn]: the register sets the bridge may post
    Unreadable,     \* addresses whose entry has a store number that is no string
    MaxUpdates      \* bound: posted configurations

ASSUME CameraAssumption == ESNs # {}
ASSUME OffersAssumption == Offers \in [ESNs -> SUBSET SUBSET IPs]
ASSUME UnreadableAssumption == Unreadable \subseteq IPs
ASSUME BoundAssumption == MaxUpdates \in Nat

Actors == {"update", "replay"}
MainSteps == {"wait", "read", "create", "snapshot", "replay", "stop"}

\* What an actor is doing to the table on behalf of one camera; on is the
\* vendor it got from main's variable active.
Work == [step : {"none", "callback", "call", "diff", "remove", "add", "drop"},
         esn : ESNs, ips : SUBSET IPs, gone : SUBSET IPs, on : Nat]

VARIABLES
    configs,        \* esnConfigs, {} for an absent key
    activeVendor,   \* activeVendor # nil
    token,          \* changeChan holds its one element
    locked,         \* UpdateSettings holds the manager's lock
    work,           \* what each actor is doing
    main,           \* where main's vendor goroutine is
    snapshot,       \* what it still has to replay
    vendor,         \* main's variable active: a vendor's number, 0 for nil
    started,        \* vendors started so far
    maps,           \* ipToESNs of the vendor that is active
    updates,        \* configurations posted so far
    raced,          \* history: cameras last posted for during a replay
    unsignalled     \* history: the last update broke off before its signal

vars == <<configs, activeVendor, token, locked, work, main, snapshot, vendor,
          started, maps, updates, raced, unsignalled>>

managerVars == <<configs, activeVendor, updates>>
mainVars == <<main, snapshot, vendor, started>>
historyVars == <<raced, unsignalled>>

Configured == {esn \in ESNs : configs[esn] # {}}
Empty == [ip \in IPs |-> <<>>]
NoConfigs == [esn \in ESNs |-> {}]
NoWork == [a \in Actors |-> [step |-> "none", esn |-> CHOOSE e \in ESNs : TRUE,
                             ips |-> {}, gone |-> {}, on |-> 0]]

\* GetIPESNMappings reports the first camera of each address only.
FirstMapped(esn) == {ip \in IPs : maps[ip] # <<>> /\ maps[ip][1] = esn}

MappedTo(esn) == {ip \in IPs : esn \in Range(maps[ip])}

Without(cameras, esn) == Filtered(cameras, Range(cameras) \ {esn})

\* Mutant: a camera that is in the list is added once more.
AddTwice(cameras, esn) == Append(cameras, esn)

AddTo(cameras, esn) ==
    IF esn \in Range(cameras) THEN cameras ELSE Append(cameras, esn)

\* The table of a vendor that is no longer active is out of sight.
Change(a, new) == maps' = IF work[a].on = vendor THEN new ELSE maps

Goto(a, step) == work' = [work EXCEPT ![a].step = step]

Init ==
    /\ configs = NoConfigs
    /\ activeVendor = FALSE
    /\ token = FALSE
    /\ locked = FALSE
    /\ work = NoWork
    /\ main = "wait"
    /\ snapshot = NoConfigs
    /\ vendor = 0
    /\ started = 0
    /\ maps = Empty
    /\ updates = 0
    /\ raced = {}
    /\ unsignalled = FALSE

-----------------------------------------------------------------------------
(* UpdateSettings: the lock is held until EndUpdate *)

Assign(a, step, esn, ips) ==
    work' = [work EXCEPT ![a] = [step |-> step, esn |-> esn, ips |-> ips,
                                 gone |-> {}, on |-> vendor]]

BeginUpdate(esn, ips) ==
    /\ ~locked /\ updates < MaxUpdates
    /\ locked' = TRUE
    /\ updates' = updates + 1
    /\ configs' = [configs EXCEPT ![esn] = ips]
    /\ activeVendor' = (activeVendor \/ ips # {})
    /\ Assign("update", "callback", esn, ips)
    /\ raced' = IF main = "replay" THEN raced \cup {esn} ELSE raced \ {esn}
    /\ UNCHANGED <<token, maps, mainVars, unsignalled>>

\* What HandleESNConfiguration does first: one entry that cannot be read
\* leaves the table as it is.
Handling(ips) ==
    IF ips = {} THEN "drop" ELSE IF ips \cap Unreadable = {} THEN "diff" ELSE "none"

\* The callback looks at active, which main changes without a lock, and looks
\* again to call the vendor.
Callback ==
    /\ work["update"].step = "callback"
    /\ work' = [work EXCEPT !["update"].on = vendor,
                            !["update"].step = IF vendor = 0 THEN "none" ELSE "call"]
    /\ UNCHANGED <<managerVars, token, locked, mainVars, maps, historyVars>>

Call ==
    /\ work["update"].step = "call"
    /\ Goto("update", Handling(work["update"].ips))
    /\ UNCHANGED <<managerVars, token, locked, mainVars, maps, historyVars>>

\* A vendor of which one word is set, as main assigns it, or that has become
\* nil in between, makes the callback panic: the server recovers, the lock is
\* released, and the rest of UpdateSettings is not done.
Panic ==
    /\ \/ work["update"].step = "callback" /\ main = "create"
       \/ work["update"].step = "call" /\ vendor = 0
    /\ Goto("update", "none")
    /\ locked' = FALSE
    /\ unsignalled' = TRUE
    /\ UNCHANGED <<managerVars, token, mainVars, maps, raced>>

\* Mutant: only a configuration that is left is worth a notification.
EndUpdateSilent ==
    /\ locked /\ work["update"].step = "none"
    /\ activeVendor' = (activeVendor /\ Configured # {})
    /\ token' = (token \/ Configured # {})
    /\ locked' = FALSE
    /\ unsignalled' = FALSE
    /\ UNCHANGED <<configs, updates, work, maps, raced, mainVars>>

EndUpdate ==
    /\ locked /\ work["update"].step = "none"
    /\ activeVendor' = (activeVendor /\ Configured # {})
    /\ token' = TRUE
    /\ locked' = FALSE
    /\ unsignalled' = FALSE
    /\ UNCHANGED <<configs, updates, work, maps, raced, mainVars>>

-----------------------------------------------------------------------------
(* HandleESNConfiguration, by either goroutine *)

\* Mutant: registers are only ever added.
DiffNothing(a) ==
    /\ work[a].step = "diff"
    /\ Goto(a, "add")
    /\ UNCHANGED <<managerVars, token, locked, mainVars, maps, historyVars>>

\* The addresses the camera has lost, as far as GetIPESNMappings tells.
Diff(a) ==
    /\ work[a].step = "diff"
    /\ LET gone == FirstMapped(work[a].esn) \ work[a].ips
           seen == IF work[a].on = vendor THEN gone ELSE {}
       IN  work' = [work EXCEPT ![a].gone = seen,
                                ![a].step = IF seen # {} THEN "remove" ELSE "add"]
    /\ UNCHANGED <<managerVars, token, locked, mainVars, maps, historyVars>>

\* Mutant: the whole entry of a lost address is deleted, as the comment warns.
RemoveWholeEntry(a) ==
    /\ work[a].step = "remove"
    /\ Change(a, [ip \in IPs |-> IF ip \in work[a].gone THEN <<>> ELSE maps[ip]])
    /\ Goto(a, "add")
    /\ UNCHANGED <<managerVars, token, locked, mainVars, historyVars>>

\* RemoveSpecificIPESNMappings.
Remove(a) ==
    /\ work[a].step = "remove"
    /\ Change(a, [ip \in IPs |-> IF ip \in work[a].gone
                                 THEN Without(maps[ip], work[a].esn) ELSE maps[ip]])
    /\ Goto(a, "add")
    /\ UNCHANGED <<managerVars, token, locked, mainVars, historyVars>>

\* AddIPESNMapping for each register: one critical section each.
Add(a) ==
    /\ work[a].step = "add"
    /\ \E ip \in work[a].ips :
        /\ Change(a, [maps EXCEPT ![ip] = AddTo(@, work[a].esn)])
        /\ work' = [work EXCEPT ![a].ips = @ \ {ip},
                                ![a].step = IF work[a].ips = {ip} THEN "none" ELSE "add"]
    /\ UNCHANGED <<managerVars, token, locked, mainVars, historyVars>>

\* removeESNConfiguration: RemoveESNMappings.
Drop(a) ==
    /\ work[a].step = "drop"
    /\ Change(a, [ip \in IPs |-> Without(maps[ip], work[a].esn)])
    /\ Goto(a, "none")
    /\ UNCHANGED <<managerVars, token, locked, mainVars, historyVars>>

Handle(a) == Diff(a) \/ Remove(a) \/ Add(a) \/ Drop(a)

-----------------------------------------------------------------------------
(* main's vendor goroutine *)

\* Mutant: one receive in place of the loop over the changes.
ReceiveFirstChange ==
    /\ main = "wait" /\ token /\ started = 0
    /\ token' = FALSE
    /\ main' = "read"
    /\ UNCHANGED <<managerVars, locked, work, snapshot, vendor, started, maps, historyVars>>

ReceiveChange ==
    /\ main = "wait" /\ token
    /\ token' = FALSE
    /\ main' = "read"
    /\ UNCHANGED <<managerVars, locked, work, snapshot, vendor, started, maps, historyVars>>

\* GetActiveVendor waits for the manager's lock.
ReadActiveVendor ==
    /\ main = "read" /\ ~locked
    /\ main' = IF activeVendor /\ vendor = 0 THEN "create"
               ELSE IF ~activeVendor /\ vendor # 0 THEN "stop"
               ELSE "wait"
    /\ UNCHANGED <<managerVars, token, locked, work, snapshot, vendor, started, maps, historyVars>>

\* New, Start and the assignment of active; the new table is empty.
CreateVendor ==
    /\ main = "create"
    /\ started' = started + 1
    /\ vendor' = started + 1
    /\ maps' = Empty
    /\ main' = "snapshot"
    /\ UNCHANGED <<managerVars, token, locked, work, snapshot, historyVars>>

\* GetAllESNConfigurations waits for the manager's lock.
TakeSnapshot ==
    /\ main = "snapshot" /\ ~locked
    /\ snapshot' = configs
    /\ raced' = {}
    /\ main' = "replay"
    /\ UNCHANGED <<managerVars, token, locked, work, vendor, started, maps, unsignalled>>

ReplayOne ==
    /\ main = "replay" /\ work["replay"].step = "none"
    /\ \E esn \in ESNs :
        /\ snapshot[esn] # {}
        /\ Assign("replay", Handling(snapshot[esn]), esn, snapshot[esn])
        /\ snapshot' = [snapshot EXCEPT ![esn] = {}]
    /\ UNCHANGED <<managerVars, token, locked, main, vendor, started, maps, historyVars>>

EndReplay ==
    /\ main = "replay" /\ work["replay"].step = "none"
    /\ \A esn \in ESNs : snapshot[esn] = {}
    /\ main' = "wait"
    /\ UNCHANGED <<managerVars, token, locked, work, snapshot, vendor, started, maps, historyVars>>

\* Stop, and the assignment of nil to active; the table goes with the vendor.
StopVendor ==
    /\ main = "stop"
    /\ vendor' = 0
    /\ maps' = Empty
    /\ main' = "wait"
    /\ UNCHANGED <<managerVars, token, locked, work, snapshot, started, historyVars>>

MainStep ==
    \/ ReceiveChange \/ ReadActiveVendor \/ CreateVendor \/ TakeSnapshot
    \/ ReplayOne \/ EndReplay \/ StopVendor

Next ==
    \/ \E esn \in ESNs : \E ips \in Offers[esn] : BeginUpdate(esn, ips)
    \/ Callback \/ Call \/ Panic
    \/ EndUpdate
    \/ \E a \in Actors : Handle(a)
    \/ MainStep

Spec == Init /\ [][Next]_vars

\* Goroutines that can run are run, and the lock is handed on; the bridge owes
\* no further configuration.
FairSpec ==
    /\ Spec
    /\ WF_vars(Callback \/ Call \/ Panic) /\ WF_vars(EndUpdate) /\ WF_vars(MainStep)
    /\ \A a \in Actors : WF_vars(Handle(a))

-----------------------------------------------------------------------------
(* Properties *)

TypeOK ==
    /\ configs \in [ESNs -> SUBSET IPs]
    /\ activeVendor \in BOOLEAN
    /\ token \in BOOLEAN
    /\ locked \in BOOLEAN
    /\ work \in [Actors -> Work]
    /\ main \in MainSteps
    /\ snapshot \in [ESNs -> SUBSET IPs]
    /\ vendor \in Nat /\ started \in Nat
    /\ maps \in [IPs -> Seq(ESNs)] /\ \A ip \in IPs : IsInjective(maps[ip])
    /\ updates \in 0 .. MaxUpdates
    /\ raced \subseteq ESNs
    /\ unsignalled \in BOOLEAN

\* Nobody is at work on the settings, the table or the vendor.
Settled ==
    /\ ~locked /\ ~token /\ main = "wait"
    /\ \A a \in Actors : work[a].step = "none"

Agreed == (vendor # 0) <=> (Configured # {})

\* However updates, the one-element change channel and main's goroutine
\* interleave, once all is quiet a vendor runs exactly if some camera has a
\* configuration: no change is lost by the notification that is dropped when
\* the channel is full.  Only an update that ran into main's assignment of
\* active and panicked goes unnoticed, until the next one.
VendorFollowsSettings == Settled /\ ~unsignalled => Agreed

\* Main and the manager come to rest with that agreement, whatever they were
\* doing when the last configuration was posted.
VendorSettles == <>[](Settled /\ (unsignalled \/ Agreed))

\* "This preserves mappings for IPs that might be shared with other ESNs": a
\* goroutine that configures one camera never adds or removes another
\* camera's mappings, though it computes what to remove before it removes it.
OthersUntouched ==
    [][(vendor' = vendor) =>
        \A esn \in ESNs : MappedTo(esn)' # MappedTo(esn) =>
            \E a \in Actors : work[a].step # "none" /\ work[a].esn = esn]_vars

Readable(esn) == configs[esn] \cap Unreadable = {}

\* The registers another camera may have as well.
Shared(esn) == {ip \in IPs : \E e \in ESNs \ {esn} : ip \in UNION Offers[e]}

\* esn has all of these registers, and no other but one it may have shared:
\* from an address it is not the first camera of, no configuration takes it
\* away.
RoutedFor(esn, ips) ==
    /\ ips \subseteq MappedTo(esn)
    /\ MappedTo(esn) \subseteq ips \cup Shared(esn)

\* Unless its configuration was last posted while main replayed a snapshot, a
\* camera is in the end mapped to the registers its configuration names, if
\* that can be read, and to no other that is its own.
RoutedAsConfigured ==
    Settled /\ vendor # 0 =>
        \A esn \in ESNs \ raced : Readable(esn) => RoutedFor(esn, configs[esn])

\* "Remove only the specific IPs that are no longer in the configuration": a
\* camera is in the end mapped to exactly the registers its configuration
\* names, shared or not.
RoutedExactly ==
    Settled /\ vendor # 0 =>
        \A esn \in ESNs \ raced : Readable(esn) => MappedTo(esn) = configs[esn]

\* "GetAllESNConfigurations returns all current ESN configurations for replay
\* to new vendors": with the snapshot replayed, every camera's registers are
\* those of its current configuration.
ReplayIsCurrent ==
    Settled /\ vendor # 0 => \A esn \in ESNs : MappedTo(esn) = configs[esn]
=============================================================================
