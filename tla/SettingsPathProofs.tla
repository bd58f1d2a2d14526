-------------------------- MODULE SettingsPathProofs --------------------------
(* Proofs about Configuration by itself, and about SettingsPath, in which the *)
(* cameras' scripts post and the container restarts.  First what the manager *)
(* and main know of each other, then the types, then who is at work on the   *)
(* table, then what each camera is mapped to; then the scripts' part.        *)
EXTENDS SettingsPath, FilteringProofs, FiniteSetTheorems

\* The types of what the manager and main keep.
ManagerTypes ==
    /\ configs \in [ESNs -> SUBSET IPs]
    /\ activeVendor \in BOOLEAN /\ token \in BOOLEAN /\ locked \in BOOLEAN
    /\ main \in MainSteps
    /\ vendor \in Nat /\ started \in Nat
    /\ unsignalled \in BOOLEAN

\* Main has been told of everything, and there is nothing left to tell.
Told == ~token /\ ~locked /\ ~unsignalled

\* The manager's activeVendor covers the configurations at any time, and is
\* exact when an update has ended as it should.
ManagerKnows ==
    /\ Configured # {} => activeVendor
    /\ ~locked /\ ~unsignalled /\ activeVendor => Configured # {}

\* Where main is tells which vendor it has, and what activeVendor was when main
\* last looked still stands unless main has yet to be told.
MainFollows ==
    /\ main = "create" => vendor = 0
    /\ main \in {"snapshot", "replay", "stop"} => vendor # 0
    /\ main \in {"create", "snapshot", "replay"} /\ Told => activeVendor
    /\ main = "stop" /\ Told => ~activeVendor
    /\ main = "wait" /\ Told => (vendor # 0 <=> activeVendor)

\* What the manager and main know of each other, whatever the table holds.
Inv == ManagerTypes /\ ManagerKnows /\ MainFollows

\* The container starts with nothing configured and nothing told.
LEMMA InitInv == Init => Inv
<1> SUFFICES ASSUME Init PROVE Inv
  OBVIOUS
<1>1. ManagerTypes
  <2>1. configs \in [ESNs -> SUBSET IPs]
    BY DEF Init, NoConfigs
  <2>2. QED
    BY <2>1 DEF Init, ManagerTypes, MainSteps
<1>2. Configured = {}
  BY DEF Init, NoConfigs, Configured
<1>3. QED
  BY <1>1, <1>2 DEF Init, Inv, ManagerKnows, MainFollows

\* The manager's lock is taken with the configuration and what it says of the
\* vendor.
LEMMA BeginUpdateInv ==
    ASSUME Inv, NEW esn \in ESNs, NEW ips \in SUBSET IPs, BeginUpdate(esn, ips)
    PROVE  Inv'
<1>1. /\ ~locked /\ locked' = TRUE
      /\ configs' = [configs EXCEPT ![esn] = ips]
      /\ activeVendor' = (activeVendor \/ ips # {})
      /\ UNCHANGED <<token, main, vendor, started, unsignalled>>
  BY DEF BeginUpdate, mainVars
<1>2. ManagerTypes'
  BY <1>1 DEF Inv, ManagerTypes
<1>3. ips = {} => Configured' \subseteq Configured
  BY <1>1 DEF Configured, Inv, ManagerTypes
<1>4. ManagerKnows'
  BY <1>1, <1>3 DEF Inv, ManagerKnows
<1>5. MainFollows'
  BY <1>1 DEF Inv, MainFollows, Told
<1>6. QED
  BY <1>2, <1>4, <1>5 DEF Inv

\* The signal comes with the end of the lock.
LEMMA EndUpdateInv == ASSUME Inv, EndUpdate PROVE Inv'
<1>1. /\ activeVendor' = (activeVendor /\ Configured # {})
      /\ token' = TRUE /\ locked' = FALSE /\ unsignalled' = FALSE
      /\ UNCHANGED <<configs, main, vendor, started>>
  BY DEF EndUpdate, mainVars
<1>2. Configured' = Configured
  BY <1>1 DEF Configured
<1>3. ManagerTypes'
  BY <1>1 DEF Inv, ManagerTypes
<1>4. ManagerKnows' /\ MainFollows'
  BY <1>1, <1>2 DEF Inv, ManagerKnows, MainFollows, Told
<1>5. QED
  BY <1>3, <1>4 DEF Inv

\* A panic leaves the lock and no signal.
LEMMA PanicInv == ASSUME Inv, Panic PROVE Inv'
<1>1. /\ locked' = FALSE /\ unsignalled' = TRUE
      /\ UNCHANGED <<configs, activeVendor, token, main, vendor, started>>
  BY DEF Panic, managerVars, mainVars
<1>2. Configured' = Configured
  BY <1>1 DEF Configured
<1>3. ManagerTypes'
  BY <1>1 DEF Inv, ManagerTypes
<1>4. ManagerKnows' /\ MainFollows'
  BY <1>1, <1>2 DEF Inv, ManagerKnows, MainFollows, Told
<1>5. QED
  BY <1>3, <1>4 DEF Inv

\* What is done to the camera table touches neither the manager nor main.
LEMMA TableInv ==
    ASSUME Inv,
           Callback \/ Call \/ (\E a \in Actors : Handle(a)) \/ TakeSnapshot \/ ReplayOne
             \/ UNCHANGED vars
    PROVE  Inv'
<1>1. /\ UNCHANGED <<configs, activeVendor, token, locked, vendor, started, unsignalled>>
      /\ main' = main \/ (main = "snapshot" /\ main' = "replay")
  BY DEF Callback, Call, Handle, Diff, Remove, Add, Drop, TakeSnapshot, ReplayOne, vars,
         managerVars, mainVars, historyVars
<1>2. Configured' = Configured
  BY <1>1 DEF Configured
<1>3. ManagerTypes'
  BY <1>1 DEF Inv, ManagerTypes, MainSteps
<1>4. ManagerKnows' /\ MainFollows'
  BY <1>1, <1>2 DEF Inv, ManagerKnows, MainFollows, Told
<1>5. QED
  BY <1>3, <1>4 DEF Inv

\* Main takes the signal, looks, and starts or stops a vendor.
LEMMA MainInv ==
    ASSUME Inv, ReceiveChange \/ ReadActiveVendor \/ CreateVendor \/ EndReplay \/ StopVendor
    PROVE  Inv'
<1>1. UNCHANGED <<configs, activeVendor, locked, unsignalled>>
  BY DEF ReceiveChange, ReadActiveVendor, CreateVendor, EndReplay, StopVendor, managerVars,
         historyVars
<1>2. Configured' = Configured
  BY <1>1 DEF Configured
<1>3. ManagerKnows'
  BY <1>1, <1>2 DEF Inv, ManagerKnows
<1>4. ManagerTypes' /\ MainFollows'
  <2>1. CASE ReceiveChange
    BY <1>1, <2>1 DEF ReceiveChange, Inv, ManagerTypes, MainSteps, MainFollows
  <2>2. CASE ReadActiveVendor
    <3>1. /\ main' = IF activeVendor /\ vendor = 0 THEN "create"
                     ELSE IF ~activeVendor /\ vendor # 0 THEN "stop" ELSE "wait"
          /\ UNCHANGED <<token, vendor, started>>
      BY <2>2 DEF ReadActiveVendor
    <3>2. ManagerTypes'
      BY <1>1, <3>1 DEF Inv, ManagerTypes, MainSteps
    <3>3. MainFollows'
      BY <1>1, <3>1 DEF Inv, ManagerTypes, MainFollows
    <3>4. QED
      BY <3>2, <3>3
  <2>3. CASE CreateVendor
    <3>1. main = "create" /\ main' = "snapshot" /\ vendor' = started + 1 /\ started' = started + 1
          /\ token' = token
      BY <2>3 DEF CreateVendor
    <3>2. vendor' \in Nat /\ started' \in Nat /\ vendor' # 0
      BY <3>1 DEF Inv, ManagerTypes
    <3>3. QED
      BY <1>1, <3>1, <3>2 DEF Inv, ManagerTypes, MainSteps, MainFollows, Told
  <2>4. CASE EndReplay
    <3>1. main = "replay" /\ main' = "wait" /\ UNCHANGED <<token, vendor, started>>
      BY <2>4 DEF EndReplay
    <3>2. QED
      BY <1>1, <3>1 DEF Inv, ManagerTypes, MainSteps, MainFollows, Told
  <2>5. CASE StopVendor
    <3>1. main = "stop" /\ main' = "wait" /\ vendor' = 0 /\ UNCHANGED <<token, started>>
      BY <2>5 DEF StopVendor
    <3>2. QED
      BY <1>1, <3>1 DEF Inv, ManagerTypes, MainSteps, MainFollows, Told
  <2>6. QED
    BY <2>1, <2>2, <2>3, <2>4, <2>5
<1>5. QED
  BY <1>3, <1>4 DEF Inv

\* Every step of the service but the arrival of a configuration keeps it.
LEMMA ServiceInv ==
    ASSUME Inv,
           \/ Callback \/ Call \/ Panic \/ EndUpdate
           \/ \E a \in Actors : Handle(a)
           \/ MainStep
    PROVE  Inv'
  BY TableInv, PanicInv, EndUpdateInv, MainInv DEF MainStep

\* With nobody at work, what main was last told is what is configured.
LEMMA FollowsWhenSettled == Inv => VendorFollowsSettings
  BY DEF Inv, ManagerTypes, ManagerKnows, MainFollows, Told, VendorFollowsSettings, Settled, Agreed

-----------------------------------------------------------------------------
(* The table: what filtering and appending do to the cameras of an address *)

\* Filtering a camera out of an address leaves exactly the others.
LEMMA WithoutCamera ==
    ASSUME NEW cameras \in Seq(ESNs), NEW esn, IsInjective(cameras)
    PROVE  /\ Without(cameras, esn) \in Seq(ESNs) /\ IsInjective(Without(cameras, esn))
           /\ Range(Without(cameras, esn)) = Range(cameras) \ {esn}
<1>1. Without(cameras, esn) = Filtered(cameras, Range(cameras) \ {esn})
  BY DEF Without
<1>2. QED
  BY <1>1, FilteredHolds, FilteredInjective

\* Appending a camera unless it is there adds it and nothing else.
LEMMA AddedCamera ==
    ASSUME NEW cameras \in Seq(ESNs), NEW esn \in ESNs, IsInjective(cameras)
    PROVE  /\ AddTo(cameras, esn) \in Seq(ESNs) /\ IsInjective(AddTo(cameras, esn))
           /\ Range(AddTo(cameras, esn)) = Range(cameras) \cup {esn}
<1>1. CASE esn \in Range(cameras)
  BY <1>1 DEF AddTo
<1>2. CASE esn \notin Range(cameras)
  <2> DEFINE new == Append(cameras, esn)
  <2>1. new \in Seq(ESNs) /\ DOMAIN new = 1 .. Len(cameras) + 1 /\ DOMAIN cameras = 1 .. Len(cameras)
    OBVIOUS
  <2>2. (\A i \in 1 .. Len(cameras) : new[i] = cameras[i]) /\ new[Len(cameras) + 1] = esn
    OBVIOUS
  <2>3. Len(cameras) \in Nat
    OBVIOUS
  <2>4. AddTo(cameras, esn) = new /\ IsInjective(new)
    BY <1>2, AppendedInjective DEF AddTo
  <2> HIDE DEF new
  <2>5. Range(new) = Range(cameras) \cup {esn}
    BY <2>1, <2>2, <2>3 DEF Range
  <2>6. QED
    BY <2>1, <2>4, <2>5
<1>3. QED
  BY <1>1, <1>2

\* The table as its type has it: no address lists a camera twice.
Table(m) == m \in [IPs -> Seq(ESNs)] /\ \A ip \in IPs : IsInjective(m[ip])

\* What the actor at work for a camera does to the table and to its own state.
LEMMA RemoveEffect ==
    ASSUME TypeOK, NEW a \in Actors, Remove(a)
    PROVE  /\ Table(maps')
           /\ \A esn \in ESNs :
                 MappedTo(esn)' = IF esn = work[a].esn /\ work[a].on = vendor
                                  THEN MappedTo(esn) \ work[a].gone ELSE MappedTo(esn)
<1>1. Table(maps)
  BY DEF TypeOK, Table
<1>2. CASE work[a].on # vendor
  BY <1>1, <1>2 DEF Remove, Change, MappedTo
<1>3. CASE work[a].on = vendor
  <2>1. maps' = [ip \in IPs |-> IF ip \in work[a].gone
                                THEN Without(maps[ip], work[a].esn) ELSE maps[ip]]
    BY <1>3 DEF Remove, Change
  <2>2. \A ip \in IPs : /\ maps'[ip] \in Seq(ESNs) /\ IsInjective(maps'[ip])
                        /\ Range(maps'[ip]) = IF ip \in work[a].gone
                                              THEN Range(maps[ip]) \ {work[a].esn}
                                              ELSE Range(maps[ip])
    BY <1>1, <2>1, WithoutCamera DEF Table
  <2>3. Table(maps')
    BY <2>1, <2>2 DEF Table
  <2>4. QED
    BY <1>3, <2>2, <2>3 DEF MappedTo
<1>4. QED
  BY <1>2, <1>3

\* An add maps the camera at work to one more address, in the vendor's own
\* table only.
LEMMA AddEffect ==
    ASSUME TypeOK, NEW a \in Actors, NEW ip \in work[a].ips,
           Change(a, [maps EXCEPT ![ip] = AddTo(@, work[a].esn)])
    PROVE  /\ Table(maps')
           /\ \A esn \in ESNs :
                 MappedTo(esn)' = IF esn = work[a].esn /\ work[a].on = vendor
                                  THEN MappedTo(esn) \cup {ip} ELSE MappedTo(esn)
<1>1. Table(maps) /\ work[a].esn \in ESNs /\ ip \in IPs
  BY DEF TypeOK, Work, Table
<1>2. CASE work[a].on # vendor
  BY <1>1, <1>2 DEF Change, MappedTo
<1>3. CASE work[a].on = vendor
  <2>1. maps' = [maps EXCEPT ![ip] = AddTo(maps[ip], work[a].esn)]
    BY <1>3 DEF Change
  <2>2. /\ AddTo(maps[ip], work[a].esn) \in Seq(ESNs)
        /\ IsInjective(AddTo(maps[ip], work[a].esn))
    BY <1>1, AddedCamera DEF Table
  <2>3. Table(maps')
    BY <1>1, <2>1, <2>2 DEF Table
  <2>4. \A k \in IPs : Range(maps'[k]) = IF k = ip THEN Range(maps[ip]) \cup {work[a].esn}
                                         ELSE Range(maps[k])
    BY <1>1, <2>1, AddedCamera DEF Table
  <2>5. QED
    BY <1>1, <1>3, <2>3, <2>4 DEF MappedTo
<1>4. QED
  BY <1>2, <1>3

\* A deletion takes the camera at work from every address and no other camera
\* from any.
LEMMA DropEffect ==
    ASSUME TypeOK, NEW a \in Actors, Drop(a)
    PROVE  /\ Table(maps')
           /\ \A esn \in ESNs :
                 MappedTo(esn)' = IF esn = work[a].esn /\ work[a].on = vendor
                                  THEN {} ELSE MappedTo(esn)
<1>1. Table(maps)
  BY DEF TypeOK, Table
<1>2. CASE work[a].on # vendor
  BY <1>1, <1>2 DEF Drop, Change, MappedTo
<1>3. CASE work[a].on = vendor
  <2>1. maps' = [ip \in IPs |-> Without(maps[ip], work[a].esn)]
    BY <1>3 DEF Drop, Change
  <2>2. \A ip \in IPs : /\ maps'[ip] \in Seq(ESNs) /\ IsInjective(maps'[ip])
                        /\ Range(maps'[ip]) = Range(maps[ip]) \ {work[a].esn}
    BY <1>1, <2>1, WithoutCamera DEF Table
  <2>3. Table(maps')
    BY <2>1, <2>2 DEF Table
  <2>4. QED
    BY <1>3, <2>2, <2>3 DEF MappedTo
<1>4. QED
  BY <1>2, <1>3

-----------------------------------------------------------------------------
(* Types *)

\* Nobody is at work when nothing has been configured.
LEMMA NoWorkType == NoWork \in [Actors -> Work] /\ \A a \in Actors : NoWork[a].step = "none"
<1>1. (CHOOSE e \in ESNs : TRUE) \in ESNs
  BY CameraAssumption
<1>2. QED
  BY <1>1 DEF NoWork, Work

\* An empty table has its type.
LEMMA EmptyTable == Table(Empty)
  BY DEF Table, Empty, IsInjective

\* The types hold at the start.
LEMMA InitTypes == Init => TypeOK
<1> SUFFICES ASSUME Init PROVE TypeOK
  OBVIOUS
<1>1. NoConfigs \in [ESNs -> SUBSET IPs] /\ Table(Empty)
  BY EmptyTable DEF NoConfigs
<1>2. work \in [Actors -> Work]
  BY NoWorkType DEF Init
<1>3. 0 \in 0 .. MaxUpdates /\ 0 \in Nat /\ "wait" \in MainSteps
  BY BoundAssumption DEF MainSteps
<1>4. QED
  BY <1>1, <1>2, <1>3 DEF Init, TypeOK, Table

\* The record of what an actor does keeps its type whatever part of it changes.
LEMMA BeginUpdateTypes ==
    ASSUME TypeOK, NEW esn \in ESNs, NEW ips \in SUBSET IPs, BeginUpdate(esn, ips)
    PROVE  TypeOK'
<1>1. /\ updates < MaxUpdates /\ locked' = TRUE /\ updates' = updates + 1
      /\ configs' = [configs EXCEPT ![esn] = ips]
      /\ activeVendor' = (activeVendor \/ ips # {})
      /\ work' = [work EXCEPT !["update"] = [step |-> "callback", esn |-> esn, ips |-> ips,
                                              gone |-> {}, on |-> vendor]]
      /\ raced' = IF main = "replay" THEN raced \cup {esn} ELSE raced \ {esn}
      /\ UNCHANGED <<token, maps, main, snapshot, vendor, started, unsignalled>>
  BY DEF BeginUpdate, Assign, mainVars
<1>2. [step |-> "callback", esn |-> esn, ips |-> ips, gone |-> {}, on |-> vendor] \in Work
  BY DEF TypeOK, Work
<1>3. work' \in [Actors -> Work]
  BY <1>1, <1>2 DEF TypeOK
<1>4. updates' \in 0 .. MaxUpdates
  BY <1>1, BoundAssumption DEF TypeOK
<1>5. configs' \in [ESNs -> SUBSET IPs] /\ raced' \subseteq ESNs
  BY <1>1 DEF TypeOK
<1>6. QED
  BY <1>1, <1>3, <1>4, <1>5 DEF TypeOK

\* Going on to the next step of some work leaves it well typed.
LEMMA GotoType ==
    ASSUME TypeOK, NEW a \in Actors,
           NEW step \in {"none", "callback", "call", "diff", "remove", "add", "drop"},
           Goto(a, step)
    PROVE  work' \in [Actors -> Work]
<1>1. work \in [Actors -> Work] /\ work[a] \in Work
  BY DEF TypeOK
<1>2. [work[a] EXCEPT !.step = step] \in Work
  BY <1>1 DEF Work
<1>3. QED
  BY <1>1, <1>2 DEF Goto

\* A vendor's handler keeps the types.
LEMMA HandleTypes == ASSUME TypeOK, NEW a \in Actors, Handle(a) PROVE TypeOK'
<1>1. UNCHANGED <<configs, activeVendor, token, locked, main, snapshot, vendor, started,
                  updates, raced, unsignalled>>
  BY DEF Handle, Diff, Remove, Add, Drop, managerVars, mainVars, historyVars
<1>2. work \in [Actors -> Work] /\ work[a] \in Work
  BY DEF TypeOK
<1>3. ASSUME Table(maps'), work' \in [Actors -> Work] PROVE TypeOK'
  BY <1>1, <1>3 DEF TypeOK, Table
<1>4. CASE Diff(a)
  <2> DEFINE seen == IF work[a].on = vendor THEN FirstMapped(work[a].esn) \ work[a].ips ELSE {}
             new == [work[a] EXCEPT !.gone = seen,
                                    !.step = IF seen # {} THEN "remove" ELSE "add"]
  <2>1. work' = [work EXCEPT ![a] = new] /\ maps' = maps
    BY <1>2, <1>4 DEF Diff
  <2>2. seen \in SUBSET IPs
    BY DEF FirstMapped
  <2>3. new \in Work
    BY <1>2, <2>2 DEF Work
  <2>4. work' \in [Actors -> Work]
    BY <1>2, <2>1, <2>3
  <2>5. QED
    BY <1>3, <2>1, <2>4 DEF TypeOK, Table
<1>5. CASE Remove(a)
  BY <1>3, <1>5, RemoveEffect, GotoType DEF Remove
<1>6. CASE Drop(a)
  BY <1>3, <1>6, DropEffect, GotoType DEF Drop
<1>7. CASE Add(a)
  <2>1. PICK ip \in work[a].ips :
           /\ Change(a, [maps EXCEPT ![ip] = AddTo(@, work[a].esn)])
           /\ work' = [work EXCEPT ![a].ips = @ \ {ip},
                                   ![a].step = IF work[a].ips = {ip} THEN "none" ELSE "add"]
    BY <1>7 DEF Add
  <2> DEFINE new == [work[a] EXCEPT !.ips = @ \ {ip},
                                    !.step = IF work[a].ips = {ip} THEN "none" ELSE "add"]
  <2>2. new \in Work
    BY <1>2 DEF Work
  <2>3. work' = [work EXCEPT ![a] = new]
    BY <1>2, <2>1
  <2>4. work' \in [Actors -> Work]
    BY <1>2, <2>2, <2>3
  <2>5. Table(maps')
    BY <2>1, AddEffect
  <2>6. QED
    BY <1>3, <2>4, <2>5
<1>8. QED
  BY <1>4, <1>5, <1>6, <1>7 DEF Handle

\* So does an update of the manager, at any of its steps.
LEMMA UpdateTypes ==
    ASSUME TypeOK, Callback \/ Call \/ Panic \/ EndUpdate PROVE TypeOK'
<1>0. "update" \in Actors /\ work \in [Actors -> Work] /\ work["update"] \in Work
  BY DEF Actors, TypeOK
<1>1. CASE Callback
  <2> DEFINE new == [work["update"] EXCEPT !.on = vendor,
                                           !.step = IF vendor = 0 THEN "none" ELSE "call"]
  <2>1. new \in Work
    BY <1>0 DEF Work, TypeOK
  <2>2. work' = [work EXCEPT !["update"] = new]
    BY <1>0, <1>1 DEF Callback
  <2>3. work' \in [Actors -> Work]
    BY <1>0, <2>1, <2>2
  <2>4. QED
    BY <1>1, <2>3 DEF Callback, TypeOK, managerVars, mainVars, historyVars
<1>2. CASE Call
  <2>1. Handling(work["update"].ips) \in {"drop", "diff", "none"}
    BY DEF Handling
  <2>2. work' \in [Actors -> Work]
    BY <1>0, <1>2, <2>1, GotoType DEF Call
  <2>3. QED
    BY <1>2, <2>2 DEF Call, TypeOK, managerVars, mainVars, historyVars
<1>3. CASE Panic
  <2>1. work' \in [Actors -> Work]
    BY <1>0, <1>3, GotoType DEF Panic
  <2>2. QED
    BY <1>3, <2>1 DEF Panic, TypeOK, managerVars, mainVars
<1>4. CASE EndUpdate
  BY <1>4 DEF EndUpdate, TypeOK, mainVars
<1>5. QED
  BY <1>1, <1>2, <1>3, <1>4

\* So does main.
LEMMA MainTypes == ASSUME TypeOK, MainStep PROVE TypeOK'
<1>1. CASE ReceiveChange \/ ReadActiveVendor \/ EndReplay
  BY <1>1 DEF ReceiveChange, ReadActiveVendor, EndReplay, TypeOK, MainSteps, managerVars, historyVars
<1>2. CASE CreateVendor \/ StopVendor
  <2>1. Table(maps')
    BY <1>2, EmptyTable DEF CreateVendor, StopVendor
  <2>2. QED
    BY <1>2, <2>1 DEF CreateVendor, StopVendor, TypeOK, Table, MainSteps, managerVars, historyVars
<1>3. CASE TakeSnapshot
  BY <1>3 DEF TakeSnapshot, TypeOK, MainSteps, managerVars
<1>4. CASE ReplayOne
  <2>1. PICK esn \in ESNs :
           /\ work' = [work EXCEPT !["replay"] = [step |-> Handling(snapshot[esn]), esn |-> esn,
                          ips |-> snapshot[esn], gone |-> {}, on |-> vendor]]
           /\ snapshot' = [snapshot EXCEPT ![esn] = {}]
    BY <1>4 DEF ReplayOne, Assign
  <2>2. Handling(snapshot[esn]) \in {"drop", "diff", "none"}
    BY DEF Handling
  <2>3. [step |-> Handling(snapshot[esn]), esn |-> esn, ips |-> snapshot[esn], gone |-> {},
         on |-> vendor] \in Work
    BY <2>2 DEF Work, TypeOK
  <2>4. work' \in [Actors -> Work] /\ snapshot' \in [ESNs -> SUBSET IPs]
    BY <2>1, <2>3 DEF TypeOK
  <2>5. QED
    BY <1>4, <2>4 DEF ReplayOne, TypeOK, managerVars, historyVars
<1>5. QED
  BY <1>1, <1>2, <1>3, <1>4 DEF MainStep

\* The three together.
LEMMA ServiceTypes ==
    ASSUME TypeOK,
           \/ Callback \/ Call \/ Panic \/ EndUpdate
           \/ \E a \in Actors : Handle(a)
           \/ MainStep
    PROVE  TypeOK'
  BY UpdateTypes, HandleTypes, MainTypes

-----------------------------------------------------------------------------
(* Cameras that nobody is at work for *)

\* Without a vendor there is no table.
TableOfVendor == vendor = 0 => maps = Empty

\* No address of an empty table has a camera.
LEMMA EmptyMaps == \A ip \in IPs : Empty[ip] = <<>> /\ Range(<<>>) = {}
  BY DEF Empty, Range

\* An actor at work changes its own camera's mappings only.
LEMMA HandleEffect ==
    ASSUME TypeOK, NEW a \in Actors, Handle(a)
    PROVE  /\ work[a].step # "none"
           /\ \A esn \in ESNs \ {work[a].esn} : MappedTo(esn)' = MappedTo(esn)
           /\ work[a].on # vendor => maps' = maps
<1>1. CASE Diff(a)
  BY <1>1 DEF Diff, MappedTo
<1>2. CASE Remove(a)
  BY <1>2, RemoveEffect DEF Remove, Change
<1>3. CASE Drop(a)
  BY <1>3, DropEffect DEF Drop, Change
<1>4. CASE Add(a)
  <2>1. PICK ip \in work[a].ips : Change(a, [maps EXCEPT ![ip] = AddTo(@, work[a].esn)])
    BY <1>4 DEF Add
  <2>2. \A esn \in ESNs \ {work[a].esn} : MappedTo(esn)' = MappedTo(esn)
    BY <2>1, AddEffect
  <2>3. QED
    BY <1>4, <2>1, <2>2 DEF Add, Change
<1>5. QED
  BY <1>1, <1>2, <1>3, <1>4 DEF Handle

\* What the actor's own record becomes.
LEMMA HandleWork ==
    ASSUME TypeOK, NEW a \in Actors, Handle(a)
    PROVE  /\ \A b \in Actors \ {a} : work'[b] = work[b]
           /\ work'[a].esn = work[a].esn /\ work'[a].on = work[a].on
           /\ work'[a].ips \subseteq work[a].ips
           /\ \/ work[a].step = "diff" /\ work'[a].step \in {"remove", "add"} /\ work'[a].ips = work[a].ips
              \/ work[a].step = "remove" /\ work'[a].step = "add" /\ work'[a].ips = work[a].ips
              \/ work[a].step = "add" /\ work'[a].step \in {"add", "none"}
              \/ work[a].step = "drop" /\ work'[a].step = "none"
<1>0. work \in [Actors -> Work] /\ work[a] \in Work
  BY DEF TypeOK
<1>1. CASE Diff(a)
  <2>1. PICK seen : work' = [work EXCEPT ![a].gone = seen,
                                         ![a].step = IF seen # {} THEN "remove" ELSE "add"]
    BY <1>1 DEF Diff
  <2>2. work[a].step = "diff"
    BY <1>1 DEF Diff
  <2>3. QED
    BY <1>0, <2>1, <2>2 DEF Work
<1>2. CASE Remove(a)
  BY <1>0, <1>2 DEF Remove, Goto, Work
<1>3. CASE Drop(a)
  BY <1>0, <1>3 DEF Drop, Goto, Work
<1>4. CASE Add(a)
  <2>1. PICK ip \in work[a].ips :
           work' = [work EXCEPT ![a].ips = @ \ {ip},
                                ![a].step = IF work[a].ips = {ip} THEN "none" ELSE "add"]
    BY <1>4 DEF Add
  <2>2. work[a].step = "add"
    BY <1>4 DEF Add
  <2>3. QED
    BY <1>0, <2>1, <2>2 DEF Work
<1>5. QED
  BY <1>1, <1>2, <1>3, <1>4 DEF Handle

-----------------------------------------------------------------------------
(* Who is at work, on which vendor and with which configuration *)

\* What an actor was given to do is what its camera's configuration says.
Doing(a) ==
    /\ work[a].ips \subseteq configs[work[a].esn]
    /\ work[a].step \in {"callback", "call", "diff", "remove"}
         => work[a].ips = configs[work[a].esn]
    /\ work[a].step = "drop" => configs[work[a].esn] = {}

\* An update works under the lock, on the vendor it was called for unless that
\* one has been stopped.  One that is at work during a replay has raced with it.
UpdateAtWork ==
    work["update"].step # "none" =>
        /\ locked
        /\ Doing("update")
        /\ main = "replay" => work["update"].esn \in raced
        /\ main \in {"create", "snapshot"} => work["update"].esn \notin raced
        /\ work["update"].step # "callback" =>
              /\ main # "create" /\ work["update"].on # 0
              /\ vendor # 0 => work["update"].on = vendor

\* Main works on the vendor it has started.
ReplayAtWork ==
    work["replay"].step # "none" =>
        /\ main = "replay" /\ work["replay"].on = vendor
        /\ work["replay"].step \in {"diff", "remove", "add"}
        /\ work["replay"].esn \notin raced => Doing("replay")

\* What is left to replay is what is configured.
SnapshotCurrent ==
    main = "replay" => \A esn \in ESNs \ raced : snapshot[esn] \in {{}, configs[esn]}

\* Who is at work, on which table, with which configuration.
Working == TableOfVendor /\ UpdateAtWork /\ ReplayAtWork /\ SnapshotCurrent

\* Nobody is at work at the start.
LEMMA InitWorking == Init => Working
  BY NoWorkType DEF Init, Working, TableOfVendor, UpdateAtWork, ReplayAtWork, SnapshotCurrent, Actors

\* An update starts its work with the configuration it has just stored.
LEMMA BeginUpdateWorking ==
    ASSUME Inv, TypeOK, Working, NEW esn \in ESNs, NEW ips \in SUBSET IPs, BeginUpdate(esn, ips)
    PROVE  Working'
<1>1. /\ ~locked /\ locked' = TRUE
      /\ configs' = [configs EXCEPT ![esn] = ips]
      /\ work' = [work EXCEPT !["update"] = [step |-> "callback", esn |-> esn, ips |-> ips,
                                              gone |-> {}, on |-> vendor]]
      /\ raced' = IF main = "replay" THEN raced \cup {esn} ELSE raced \ {esn}
      /\ UNCHANGED <<maps, main, snapshot, vendor>>
  BY DEF BeginUpdate, Assign, mainVars
<1>2. /\ work'["update"] = [step |-> "callback", esn |-> esn, ips |-> ips, gone |-> {}, on |-> vendor]
      /\ work'["replay"] = work["replay"]
  BY <1>1 DEF TypeOK, Actors
<1>3. \A e \in ESNs : configs'[e] = IF e = esn THEN ips ELSE configs[e]
  BY <1>1 DEF TypeOK
<1>4. work["replay"].esn \in ESNs
  BY DEF TypeOK, Work, Actors
<1>5. UpdateAtWork'
  BY <1>1, <1>2, <1>3 DEF UpdateAtWork, Doing
<1>6. ReplayAtWork'
  BY <1>1, <1>2, <1>3, <1>4 DEF ReplayAtWork, Doing, Working
<1>7. SnapshotCurrent'
  BY <1>1, <1>3 DEF SnapshotCurrent, Working
<1>8. QED
  BY <1>1, <1>5, <1>6, <1>7 DEF Working, TableOfVendor

\* The steps of an update, up to its end or its panic.
LEMMA UpdateWorking ==
    ASSUME Inv, TypeOK, Working, Callback \/ Call \/ Panic \/ EndUpdate
    PROVE  Working'
<1>1. /\ UNCHANGED <<configs, main, snapshot, vendor, maps, raced>>
      /\ work'["replay"] = work["replay"]
  BY DEF Callback, Call, Panic, EndUpdate, Goto, managerVars, mainVars, historyVars, TypeOK, Actors
<1>2. TableOfVendor' /\ SnapshotCurrent' /\ ReplayAtWork'
  BY <1>1 DEF TableOfVendor, SnapshotCurrent, ReplayAtWork, Doing, Working
<1>3. UpdateAtWork'
  <2>1. CASE Callback
    <3>1. /\ work["update"].step = "callback" /\ locked' = locked
          /\ work'["update"] = [work["update"] EXCEPT !.on = vendor,
                                      !.step = IF vendor = 0 THEN "none" ELSE "call"]
      BY <2>1 DEF Callback, TypeOK, Actors
    <3>2. /\ work'["update"].step = IF vendor = 0 THEN "none" ELSE "call"
          /\ work'["update"].on = vendor
          /\ work'["update"].esn = work["update"].esn /\ work'["update"].ips = work["update"].ips
      BY <3>1 DEF TypeOK, Work, Actors
    <3>3. QED
      BY <1>1, <3>1, <3>2 DEF UpdateAtWork, Doing, Working, Inv, MainFollows
  <2>2. CASE Call
    <3>1. /\ work["update"].step = "call" /\ locked' = locked
          /\ work'["update"] = [work["update"] EXCEPT !.step = Handling(work["update"].ips)]
      BY <2>2 DEF Call, Goto, TypeOK, Actors
    <3>2. /\ work'["update"].step = Handling(work["update"].ips)
          /\ work'["update"].on = work["update"].on
          /\ work'["update"].esn = work["update"].esn /\ work'["update"].ips = work["update"].ips
      BY <3>1 DEF TypeOK, Work, Actors
    <3>3. Handling(work["update"].ips) = "drop" => work["update"].ips = {}
      BY DEF Handling
    <3>4. QED
      BY <1>1, <3>1, <3>2, <3>3 DEF UpdateAtWork, Doing, Working
  <2>3. CASE Panic
    <3>1. work'["update"].step = "none"
      BY <2>3 DEF Panic, Goto, TypeOK, Actors, Work
    <3>2. QED
      BY <3>1 DEF UpdateAtWork
  <2>4. CASE EndUpdate
    <3>1. work'["update"].step = "none"
      BY <2>4 DEF EndUpdate
    <3>2. QED
      BY <3>1 DEF UpdateAtWork
  <2>5. QED
    BY <2>1, <2>2, <2>3, <2>4
<1>4. QED
  BY <1>2, <1>3 DEF Working

\* An actor at work has a vendor, or had one that is stopped.
LEMMA AtWorkOn ==
    ASSUME Inv, Working, NEW a \in Actors, work[a].step \in {"diff", "remove", "add", "drop"}
    PROVE  /\ work[a].on # 0 /\ main # "create"
           /\ vendor # 0 => work[a].on = vendor
<1>1. CASE a = "update"
  BY <1>1 DEF Working, UpdateAtWork
<1>2. CASE a = "replay"
  BY <1>2 DEF Working, ReplayAtWork, Inv, MainFollows
<1>3. QED
  BY <1>1, <1>2 DEF Actors

\* The steps of a vendor's handler, for an update or for main.
LEMMA HandleWorking ==
    ASSUME Inv, TypeOK, Working, NEW a \in Actors, Handle(a)
    PROVE  Working'
<1>1. UNCHANGED <<configs, locked, main, snapshot, vendor, raced>>
  BY DEF Handle, Diff, Remove, Add, Drop, managerVars, mainVars, historyVars
<1>2. TableOfVendor'
  <2>1. work[a].on # 0
    BY AtWorkOn, HandleWork
  <2>2. QED
    BY <1>1, <2>1, HandleEffect DEF Working, TableOfVendor
<1>3. SnapshotCurrent'
  BY <1>1 DEF SnapshotCurrent, Working
<1>4. UpdateAtWork'
  <2>1. CASE a = "update"
    BY <1>1, <2>1, HandleWork DEF UpdateAtWork, Doing, Working
  <2>2. CASE a # "update"
    <3>1. work'["update"] = work["update"]
      BY <2>2, HandleWork DEF Actors
    <3>2. QED
      BY <1>1, <3>1 DEF UpdateAtWork, Doing, Working
  <2>3. QED
    BY <2>1, <2>2
<1>5. ReplayAtWork'
  <2>1. CASE a = "replay"
    BY <1>1, <2>1, HandleWork DEF ReplayAtWork, Doing, Working
  <2>2. CASE a # "replay"
    <3>1. work'["replay"] = work["replay"]
      BY <2>2, HandleWork DEF Actors
    <3>2. QED
      BY <1>1, <3>1 DEF ReplayAtWork, Doing, Working
  <2>3. QED
    BY <2>1, <2>2
<1>6. QED
  BY <1>2, <1>3, <1>4, <1>5 DEF Working

\* The steps of main, which replays what it has a snapshot of.
LEMMA MainWorking == ASSUME Inv, TypeOK, Working, MainStep PROVE Working'
<1>0. UNCHANGED <<configs, locked>>
  BY DEF MainStep, ReceiveChange, ReadActiveVendor, CreateVendor, TakeSnapshot, ReplayOne,
         EndReplay, StopVendor, managerVars
<1>1. CASE ReceiveChange
  BY <1>0, <1>1 DEF ReceiveChange, Working, TableOfVendor, UpdateAtWork, ReplayAtWork, Doing,
                    SnapshotCurrent, historyVars
<1>2. CASE ReadActiveVendor
  <2>1. /\ main = "read" /\ ~locked /\ main' \in {"create", "stop", "wait"}
        /\ UNCHANGED <<work, snapshot, vendor, maps, raced>>
    BY <1>2 DEF ReadActiveVendor, historyVars
  <2>2. QED
    BY <1>0, <2>1 DEF Working, TableOfVendor, UpdateAtWork, ReplayAtWork, Doing, SnapshotCurrent
<1>3. CASE CreateVendor
  <2>1. /\ main = "create" /\ main' = "snapshot" /\ vendor' = started + 1 /\ maps' = Empty
        /\ UNCHANGED <<work, snapshot, raced>>
    BY <1>3 DEF CreateVendor, historyVars
  <2>2. vendor' # 0
    BY <2>1 DEF TypeOK
  <2>3. work["replay"].step = "none" /\ work["update"].step \in {"none", "callback"}
    BY <2>1 DEF Working, ReplayAtWork, UpdateAtWork
  <2>4. QED
    BY <1>0, <2>1, <2>2, <2>3 DEF Working, TableOfVendor, UpdateAtWork, ReplayAtWork, Doing,
                                  SnapshotCurrent
<1>4. CASE TakeSnapshot
  <2>1. /\ main = "snapshot" /\ ~locked /\ main' = "replay" /\ snapshot' = configs /\ raced' = {}
        /\ UNCHANGED <<work, vendor, maps>>
    BY <1>4 DEF TakeSnapshot
  <2>2. work["replay"].step = "none" /\ work["update"].step = "none"
    BY <2>1 DEF Working, ReplayAtWork, UpdateAtWork
  <2>3. QED
    BY <1>0, <2>1, <2>2 DEF Working, TableOfVendor, UpdateAtWork, ReplayAtWork, SnapshotCurrent
<1>5. CASE ReplayOne
  <2>1. /\ main = "replay" /\ work["replay"].step = "none"
        /\ UNCHANGED <<main, vendor, maps, raced>>
    BY <1>5 DEF ReplayOne, historyVars
  <2>2. PICK esn \in ESNs :
           /\ snapshot[esn] # {}
           /\ work' = [work EXCEPT !["replay"] = [step |-> Handling(snapshot[esn]), esn |-> esn,
                          ips |-> snapshot[esn], gone |-> {}, on |-> vendor]]
           /\ snapshot' = [snapshot EXCEPT ![esn] = {}]
    BY <1>5 DEF ReplayOne, Assign
  <2>3. /\ work'["update"] = work["update"]
        /\ work'["replay"] = [step |-> Handling(snapshot[esn]), esn |-> esn,
                              ips |-> snapshot[esn], gone |-> {}, on |-> vendor]
    BY <2>2 DEF TypeOK, Actors
  <2>4. Handling(snapshot[esn]) \in {"diff", "none"}
    BY <2>2 DEF Handling
  <2>5. UpdateAtWork' /\ TableOfVendor'
    BY <1>0, <2>1, <2>3 DEF Working, UpdateAtWork, Doing, TableOfVendor
  <2>6. ReplayAtWork'
    BY <1>0, <2>1, <2>2, <2>3, <2>4 DEF Working, ReplayAtWork, Doing, SnapshotCurrent
  <2>7. \A e \in ESNs : snapshot'[e] \in {{}, snapshot[e]}
    BY <2>2 DEF TypeOK
  <2>8. SnapshotCurrent'
    BY <1>0, <2>1, <2>7 DEF Working, SnapshotCurrent
  <2>9. QED
    BY <2>5, <2>6, <2>8 DEF Working
<1>6. CASE EndReplay
  BY <1>0, <1>6 DEF EndReplay, Working, TableOfVendor, UpdateAtWork, ReplayAtWork, Doing,
                    SnapshotCurrent, historyVars
<1>7. CASE StopVendor
  BY <1>0, <1>7 DEF StopVendor, Working, TableOfVendor, UpdateAtWork, ReplayAtWork, Doing,
                    SnapshotCurrent, historyVars
<1>8. QED
  BY <1>1, <1>2, <1>3, <1>4, <1>5, <1>6, <1>7 DEF MainStep

\* The invariant of the service by itself; nothing is assumed of what it is
\* offered.
ServiceInvariant == Inv /\ TypeOK /\ Working

\* Every step of the service but the arrival of a configuration keeps it.
LEMMA ServiceInvariantStep ==
    ASSUME ServiceInvariant,
           \/ Callback \/ Call \/ Panic \/ EndUpdate
           \/ \E a \in Actors : Handle(a)
           \/ MainStep
    PROVE  ServiceInvariant'
  BY ServiceInv, ServiceTypes, UpdateWorking, HandleWorking, MainWorking DEF ServiceInvariant

\* So does the arrival of a configuration.
LEMMA BeginUpdateInvariant ==
    ASSUME ServiceInvariant, NEW esn \in ESNs, NEW ips \in SUBSET IPs, BeginUpdate(esn, ips)
    PROVE  ServiceInvariant'
  BY BeginUpdateInv, BeginUpdateTypes, BeginUpdateWorking DEF ServiceInvariant

\* So does a step of somebody else.
LEMMA StutterInvariant == ASSUME ServiceInvariant, UNCHANGED vars PROVE ServiceInvariant'
<1>1. Inv'
  BY TableInv DEF ServiceInvariant
<1>2. TypeOK'
  BY DEF ServiceInvariant, TypeOK, vars
<1>3. Working'
  BY DEF ServiceInvariant, Working, TableOfVendor, UpdateAtWork, ReplayAtWork, Doing,
         SnapshotCurrent, vars
<1>4. QED
  BY <1>1, <1>2, <1>3 DEF ServiceInvariant

\* It holds at the start.
LEMMA InitInvariant == Init => ServiceInvariant
  BY InitInv, InitTypes, InitWorking DEF ServiceInvariant

\* It holds at all times.
LEMMA ServiceInvariance == Spec => []ServiceInvariant
<1>1. ServiceInvariant /\ [Next]_vars => ServiceInvariant'
  <2> SUFFICES ASSUME ServiceInvariant, [Next]_vars PROVE ServiceInvariant'
    OBVIOUS
  <2>1. ASSUME NEW esn \in ESNs, NEW ips \in Offers[esn], BeginUpdate(esn, ips)
        PROVE  ServiceInvariant'
    <3>1. ips \in SUBSET IPs
      BY OffersAssumption
    <3>2. QED
      BY <2>1, <3>1, BeginUpdateInvariant
  <2>2. QED
    BY <2>1, ServiceInvariantStep, StutterInvariant DEF Next
<1>2. QED
  BY InitInvariant, <1>1, PTL DEF Spec

\* Once all is quiet a vendor runs exactly if some camera is configured, for any
\* cameras, registers and offers, however the goroutines interleave.
THEOREM ServiceFollowsSettings == Spec => []VendorFollowsSettings
  BY ServiceInvariance, FollowsWhenSettled, PTL DEF ServiceInvariant

\* Every variable of the service has its type, the table with its cameras
\* among them, whatever is posted and however the goroutines interleave.
THEOREM ServiceTypeOK == Spec => []TypeOK
  BY ServiceInvariance, PTL DEF ServiceInvariant

-----------------------------------------------------------------------------
(* A camera that nobody is at work for keeps its mappings *)

\* What the mappings of a camera owe to the work under way, unless the vendor
\* is replaced.
Untouched ==
    vendor' = vendor =>
        \A esn \in ESNs : MappedTo(esn)' # MappedTo(esn) =>
            \E a \in Actors : work[a].step # "none" /\ work[a].esn = esn

\* A step that leaves the table alone touches no camera.
LEMMA SameTableUntouched == ASSUME maps' = maps PROVE Untouched
  BY DEF Untouched, MappedTo

\* The service touches the camera at work only.
LEMMA ServiceUntouched ==
    ASSUME ServiceInvariant,
           \/ Callback \/ Call \/ Panic \/ EndUpdate
           \/ \E a \in Actors : Handle(a)
           \/ MainStep
    PROVE  Untouched
<1>1. CASE Callback \/ Call \/ Panic \/ EndUpdate
  BY <1>1, SameTableUntouched DEF Callback, Call, Panic, EndUpdate
<1>2. ASSUME NEW a \in Actors, Handle(a) PROVE Untouched
  BY <1>2, HandleEffect DEF Untouched, ServiceInvariant
<1>3. CASE ReceiveChange \/ ReadActiveVendor \/ TakeSnapshot \/ ReplayOne \/ EndReplay
  BY <1>3, SameTableUntouched DEF ReceiveChange, ReadActiveVendor, TakeSnapshot, ReplayOne, EndReplay
<1>4. CASE CreateVendor
  <2>1. vendor' # vendor
    BY <1>4 DEF CreateVendor, ServiceInvariant, Inv, MainFollows, TypeOK
  <2>2. QED
    BY <2>1 DEF Untouched
<1>5. CASE StopVendor
  <2>1. vendor' # vendor
    BY <1>5 DEF StopVendor, ServiceInvariant, Inv, MainFollows
  <2>2. QED
    BY <2>1 DEF Untouched
<1>6. QED
  BY <1>1, <1>2, <1>3, <1>4, <1>5 DEF MainStep

\* Configuring one camera adds or removes no other camera's mappings, though
\* what is removed is computed in an earlier critical section, for any cameras
\* and registers, shared or not.
THEOREM ServiceLeavesOthers == Spec => OthersUntouched
<1>1. ServiceInvariant /\ [Next]_vars =>
        [vendor' = vendor =>
            \A esn \in ESNs : MappedTo(esn)' # MappedTo(esn) =>
                \E a \in Actors : work[a].step # "none" /\ work[a].esn = esn]_vars
  <2> SUFFICES ASSUME ServiceInvariant, Next PROVE Untouched
    BY DEF Untouched
  <2>1. ASSUME NEW esn \in ESNs, NEW ips \in Offers[esn], BeginUpdate(esn, ips) PROVE Untouched
    BY <2>1, SameTableUntouched DEF BeginUpdate
  <2>2. QED
    BY <2>1, ServiceUntouched DEF Next
<1>2. QED
  BY <1>1, ServiceInvariance, PTL DEF Spec, OthersUntouched

-----------------------------------------------------------------------------
(* What a camera may be offered, and what others may be offered with it *)

\* Every address a script may ever offer for a camera.
Offered(esn) == UNION Offers[esn]

\* No two cameras are offered one address: each register has one camera.
Apart == \A esn \in ESNs : Offered(esn) \cap Shared(esn) = {}

\* What is configured, replayed and done for a camera, and what it is mapped
\* to, is among what it may be offered.
WithinOffers ==
    /\ \A esn \in ESNs : /\ configs[esn] \subseteq Offered(esn)
                         /\ snapshot[esn] \subseteq Offered(esn)
                         /\ MappedTo(esn) \subseteq Offered(esn)
    /\ \A a \in Actors : work[a].step # "none" => work[a].ips \subseteq Offered(work[a].esn)

\* With an empty table a camera is mapped to nothing.
LEMMA NothingMapped == ASSUME maps = Empty, NEW esn \in ESNs PROVE MappedTo(esn) = {}
  BY DEF MappedTo, Empty, Range

\* Nothing is configured at the start.
LEMMA InitOffers == Init => WithinOffers
  BY NothingMapped, NoWorkType DEF Init, WithinOffers, NoConfigs, Actors

\* A configuration that arrives is one of those on offer.
LEMMA BeginUpdateOffers ==
    ASSUME TypeOK, WithinOffers, NEW esn \in ESNs, NEW ips \in SUBSET Offered(esn), BeginUpdate(esn, ips)
    PROVE  WithinOffers'
<1>1. /\ configs' = [configs EXCEPT ![esn] = ips]
      /\ work' = [work EXCEPT !["update"] = [step |-> "callback", esn |-> esn, ips |-> ips,
                                              gone |-> {}, on |-> vendor]]
      /\ UNCHANGED <<maps, snapshot>>
  BY DEF BeginUpdate, Assign, mainVars
<1>2. \A e \in ESNs : MappedTo(e)' = MappedTo(e)
  BY <1>1 DEF MappedTo
<1>3. \A e \in ESNs : configs'[e] = IF e = esn THEN ips ELSE configs[e]
  BY <1>1 DEF TypeOK
<1>4. /\ work'["update"].ips = ips /\ work'["update"].esn = esn
      /\ work'["replay"] = work["replay"]
  BY <1>1 DEF TypeOK, Actors
<1>5. \A a \in Actors : work'[a].step # "none" => work'[a].ips \subseteq Offered(work'[a].esn)
  BY <1>4 DEF WithinOffers, Actors
<1>6. QED
  BY <1>1, <1>2, <1>3, <1>5 DEF WithinOffers

\* A handler maps a camera to what its work names.
LEMMA HandleOffers ==
    ASSUME TypeOK, WithinOffers, NEW a \in Actors, Handle(a)
    PROVE  WithinOffers'
<1>1. UNCHANGED <<configs, snapshot>>
  BY DEF Handle, Diff, Remove, Add, Drop, managerVars, mainVars
<1>2. \A e \in ESNs : MappedTo(e)' \subseteq Offered(e)
  <2>1. CASE Diff(a)
    BY <2>1 DEF Diff, MappedTo, WithinOffers
  <2>2. CASE Remove(a)
    BY <2>2, RemoveEffect DEF WithinOffers
  <2>3. CASE Drop(a)
    BY <2>3, DropEffect DEF WithinOffers
  <2>4. CASE Add(a)
    <3>1. PICK ip \in work[a].ips : Change(a, [maps EXCEPT ![ip] = AddTo(@, work[a].esn)])
      BY <2>4 DEF Add
    <3>2. ip \in Offered(work[a].esn)
      BY <2>4 DEF Add, WithinOffers
    <3>3. QED
      BY <3>1, <3>2, AddEffect DEF WithinOffers
  <2>5. QED
    BY <2>1, <2>2, <2>3, <2>4 DEF Handle
<1>3. \A b \in Actors : work'[b].step # "none" => work'[b].ips \subseteq Offered(work'[b].esn)
  BY HandleWork DEF WithinOffers
<1>4. QED
  BY <1>1, <1>2, <1>3 DEF WithinOffers

\* The other steps map nothing and configure nothing.
LEMMA OtherStepsOffers ==
    ASSUME TypeOK, WithinOffers,
           Callback \/ Call \/ Panic \/ EndUpdate \/ MainStep \/ UNCHANGED vars
    PROVE  WithinOffers'
<1>1. configs' = configs
  BY DEF Callback, Call, Panic, EndUpdate, MainStep, ReceiveChange, ReadActiveVendor, CreateVendor,
         TakeSnapshot, ReplayOne, EndReplay, StopVendor, managerVars, vars
<1>2. \A e \in ESNs : MappedTo(e)' \subseteq Offered(e)
  <2>1. maps' = maps \/ maps' = Empty
    BY DEF Callback, Call, Panic, EndUpdate, MainStep, ReceiveChange, ReadActiveVendor,
           CreateVendor, TakeSnapshot, ReplayOne, EndReplay, StopVendor, vars
  <2>2. CASE maps' = maps
    BY <2>2 DEF MappedTo, WithinOffers
  <2>3. CASE maps' = Empty
    <3>1. \A e \in ESNs : MappedTo(e)' = {}
      BY <2>3 DEF MappedTo, Empty, Range
    <3>2. QED
      BY <3>1
  <2>4. QED
    BY <2>1, <2>2, <2>3
<1>3. /\ \A e \in ESNs : snapshot'[e] \subseteq Offered(e)
      /\ \A a \in Actors : work'[a].step # "none" => work'[a].ips \subseteq Offered(work'[a].esn)
  <2>1. CASE Callback \/ Call \/ Panic
    <3>1. snapshot' = snapshot /\ work'["replay"] = work["replay"]
      BY <2>1 DEF Callback, Call, Panic, Goto, mainVars, TypeOK, Actors
    <3>2. /\ work["update"].step # "none"
          /\ work'["update"].ips = work["update"].ips
          /\ work'["update"].esn = work["update"].esn
      BY <2>1 DEF Callback, Call, Panic, Goto, TypeOK, Actors, Work
    <3>3. QED
      BY <3>1, <3>2 DEF WithinOffers, Actors
  <2>2. CASE ReplayOne
    <3>1. PICK esn \in ESNs :
             /\ work' = [work EXCEPT !["replay"] = [step |-> Handling(snapshot[esn]), esn |-> esn,
                            ips |-> snapshot[esn], gone |-> {}, on |-> vendor]]
             /\ snapshot' = [snapshot EXCEPT ![esn] = {}]
      BY <2>2 DEF ReplayOne, Assign
    <3>2. \A e \in ESNs : snapshot'[e] \subseteq snapshot[e]
      BY <3>1 DEF TypeOK
    <3>3. /\ work'["update"] = work["update"]
          /\ work'["replay"].ips = snapshot[esn] /\ work'["replay"].esn = esn
      BY <3>1 DEF TypeOK, Actors
    <3>4. QED
      BY <3>2, <3>3 DEF WithinOffers, Actors
  <2>3. CASE EndUpdate \/ ReceiveChange \/ ReadActiveVendor \/ CreateVendor \/ TakeSnapshot
             \/ EndReplay \/ StopVendor \/ UNCHANGED vars
    <3>1. work' = work /\ (snapshot' = snapshot \/ snapshot' = configs)
      BY <2>3 DEF EndUpdate, ReceiveChange, ReadActiveVendor, CreateVendor, TakeSnapshot,
                  EndReplay, StopVendor, vars, mainVars
    <3>2. QED
      BY <3>1 DEF WithinOffers
  <2>4. QED
    BY <2>1, <2>2, <2>3 DEF MainStep
<1>4. QED
  BY <1>1, <1>2, <1>3 DEF WithinOffers

\* An address that no other camera is offered has one camera at most, which
\* GetIPESNMappings reports.
LEMMA FirstOrShared ==
    ASSUME TypeOK, WithinOffers, NEW esn \in ESNs
    PROVE  /\ MappedTo(esn) \ Shared(esn) \subseteq FirstMapped(esn)
           /\ FirstMapped(esn) \subseteq MappedTo(esn)
<1>1. ASSUME NEW ip \in IPs, ip \notin Shared(esn), esn \in Range(maps[ip])
      PROVE  maps[ip] # <<>> /\ maps[ip][1] = esn
  <2>1. maps[ip] \in Seq(ESNs)
    BY DEF TypeOK
  <2>2. \A e \in Range(maps[ip]) : e \in ESNs /\ ip \in Offered(e)
    BY <2>1 DEF WithinOffers, MappedTo, Range
  <2>3. \A e \in Range(maps[ip]) : e = esn
    BY <1>1, <2>2 DEF Shared, Offered
  <2>4. maps[ip] # <<>>
    BY <1>1, <2>1 DEF Range
  <2>5. maps[ip][1] \in Range(maps[ip])
    BY <2>1, <2>4 DEF Range
  <2>6. QED
    BY <2>3, <2>4, <2>5
<1>2. ASSUME NEW ip \in IPs, maps[ip] # <<>>, maps[ip][1] = esn PROVE esn \in Range(maps[ip])
  <2>1. maps[ip] \in Seq(ESNs)
    BY DEF TypeOK
  <2>2. QED
    BY <1>2, <2>1 DEF Range
<1>3. QED
  BY <1>1, <1>2 DEF FirstMapped, MappedTo

-----------------------------------------------------------------------------
(* What a camera is mapped to, at every step of the way *)

\* Between two critical sections of an actor the table is on its way: what is
\* to be removed is all that is wrong and not shared, and what is left to be
\* added is all that is missing.
Progress(a, esn) ==
    vendor # 0 /\ work[a].esn = esn /\ esn \notin raced =>
        /\ work[a].step = "remove" =>
                MappedTo(esn) \ configs[esn] \subseteq work[a].gone \cup Shared(esn)
        /\ work[a].step = "add" => /\ MappedTo(esn) \subseteq configs[esn] \cup Shared(esn)
                                   /\ configs[esn] \subseteq MappedTo(esn) \cup work[a].ips

\* Nobody is at work for the camera.
Idle(esn) == \A a \in Actors : work[a].step # "none" => work[a].esn # esn

\* A camera without a configuration has nothing when it has been handled.
Fits(esn) == RoutedFor(esn, configs[esn]) /\ (configs[esn] = {} => MappedTo(esn) = {})

\* A camera that nobody is at work for has what it should, but for what main
\* has yet to replay.  A new vendor begins with nothing.
AtRest(esn) ==
    vendor # 0 /\ Idle(esn) /\ Readable(esn) =>
        /\ main = "snapshot" /\ configs[esn] = {} => MappedTo(esn) = {}
        /\ main = "replay" /\ esn \notin raced /\ snapshot[esn] = {}
             => RoutedFor(esn, configs[esn])
        /\ main \in {"wait", "read", "stop"} /\ esn \notin raced
             => RoutedFor(esn, configs[esn])

\* The strengthening of RoutedAsConfigured.
Routed == (\A a \in Actors, esn \in ESNs : Progress(a, esn)) /\ \A esn \in ESNs : AtRest(esn)

\* Without a vendor there is nothing to route.
LEMMA NoVendorRouted == vendor = 0 => Routed
  BY DEF Routed, Progress, AtRest

\* A step that leaves the table alone leaves every camera's mappings alone.
LEMMA SameMappings == ASSUME maps' = maps PROVE \A e \in ESNs : MappedTo(e)' = MappedTo(e)
  BY DEF MappedTo

\* The arrival of a configuration puts an update to work for its camera.
LEMMA BeginUpdateRouted ==
    ASSUME ServiceInvariant, Routed, NEW esn \in ESNs, NEW ips, BeginUpdate(esn, ips)
    PROVE  Routed'
<1>1. /\ ~locked
      /\ configs' = [configs EXCEPT ![esn] = ips]
      /\ work' = [work EXCEPT !["update"] = [step |-> "callback", esn |-> esn, ips |-> ips,
                                              gone |-> {}, on |-> vendor]]
      /\ raced' = IF main = "replay" THEN raced \cup {esn} ELSE raced \ {esn}
      /\ UNCHANGED <<maps, main, snapshot, vendor>>
  BY DEF BeginUpdate, Assign, mainVars
<1>2. \A e \in ESNs : MappedTo(e)' = MappedTo(e)
  BY <1>1, SameMappings
<1>3. /\ work'["update"].step = "callback" /\ work'["update"].esn = esn
      /\ work'["replay"] = work["replay"]
  BY <1>1 DEF ServiceInvariant, TypeOK, Actors
<1>4. \A e \in ESNs \ {esn} : configs'[e] = configs[e]
  BY <1>1 DEF ServiceInvariant, TypeOK
<1>5. work["update"].step = "none" /\ (work["replay"].step # "none" => main = "replay")
  BY <1>1 DEF ServiceInvariant, Working, UpdateAtWork, ReplayAtWork
<1>6. \A a \in Actors, e \in ESNs : Progress(a, e)'
  <2> SUFFICES ASSUME NEW e \in ESNs PROVE Progress("replay", e)'
    BY <1>3 DEF Progress, Actors
  <2>1. Progress("replay", e)
    BY DEF Routed, Actors
  <2>2. CASE e = esn
    <3>1. work["replay"].step = "none" \/ e \in raced'
      BY <1>1, <1>5, <2>2
    <3>2. QED
      BY <1>3, <3>1 DEF Progress
  <2>3. CASE e # esn
    BY <1>1, <1>2, <1>3, <1>4, <2>1, <2>3 DEF Progress
  <2>4. QED
    BY <2>2, <2>3
<1>7. ASSUME NEW e \in ESNs PROVE AtRest(e)'
  <2>1. CASE e = esn
    BY <1>3, <2>1 DEF AtRest, Idle, Actors
  <2>2. CASE e # esn
    <3>1. Idle(e)' => Idle(e)
      BY <1>3, <1>5 DEF Idle, Actors
    <3>2. Readable(e)' => Readable(e)
      BY <1>4, <2>2 DEF Readable
    <3>3. AtRest(e)
      BY DEF Routed
    <3>4. e \notin raced' => e \notin raced
      BY <1>1, <2>2
    <3>5. configs'[e] = configs[e] /\ MappedTo(e)' = MappedTo(e)
      BY <1>2, <1>4, <2>2
    <3>6. QED
      BY <1>1, <3>1, <3>2, <3>3, <3>4, <3>5 DEF AtRest, RoutedFor
  <2>3. QED
    BY <2>1, <2>2
<1>8. QED
  BY <1>6, <1>7 DEF Routed

\* The callback finds a vendor or not, and calls it or not; an entry that cannot
\* be read leaves a camera that is not readable.
LEMMA UpdateRouted ==
    ASSUME ServiceInvariant, Routed, Callback \/ Call \/ Panic \/ EndUpdate
    PROVE  Routed'
<1>1. /\ UNCHANGED <<configs, main, snapshot, vendor, maps, raced>>
      /\ work'["replay"] = work["replay"]
  BY DEF Callback, Call, Panic, EndUpdate, Goto, managerVars, mainVars, historyVars,
         ServiceInvariant, TypeOK, Actors
<1>2. \A e \in ESNs : MappedTo(e)' = MappedTo(e)
  BY <1>1, SameMappings
<1>3. CASE vendor = 0
  BY <1>1, <1>3 DEF Routed, Progress, AtRest
<1>4. CASE vendor # 0
  <2>1. /\ work'["update"].esn = work["update"].esn
        /\ \/ work'["update"] = work["update"]
           \/ /\ Callback \/ Call
              /\ work["update"].step # "none"
              /\ work'["update"].step \in {"call", "diff", "drop", "none"}
              /\ work'["update"].step = "none" =>
                    ~Readable(work["update"].esn)
    <3>1. CASE Callback
      BY <1>4, <3>1 DEF Callback, ServiceInvariant, TypeOK, Actors, Work
    <3>2. CASE Call
      <4>1. /\ work["update"].step = "call"
            /\ work'["update"].step = Handling(work["update"].ips)
            /\ work'["update"].esn = work["update"].esn
        BY <3>2 DEF Call, Goto, ServiceInvariant, TypeOK, Actors, Work
      <4>2. work["update"].ips = configs[work["update"].esn]
        BY <4>1 DEF ServiceInvariant, Working, UpdateAtWork, Doing
      <4>3. QED
        BY <3>2, <4>1, <4>2 DEF Handling, Readable
    <3>3. CASE Panic
      BY <1>4, <3>3 DEF Panic, ServiceInvariant, Inv, MainFollows
    <3>4. CASE EndUpdate
      BY <3>4 DEF EndUpdate
    <3>5. QED
      BY <3>1, <3>2, <3>3, <3>4
  <2>2. ASSUME NEW a \in Actors, NEW e \in ESNs PROVE Progress(a, e)'
    <3>1. Progress(a, e)
      BY DEF Routed
    <3>2. CASE work'[a] = work[a]
      BY <1>1, <1>2, <3>1, <3>2 DEF Progress
    <3>3. CASE work'[a] # work[a]
      <4>1. work'[a].step \in {"call", "diff", "drop", "none"}
        BY <1>1, <2>1, <3>3 DEF Actors
      <4>2. QED
        BY <4>1 DEF Progress
    <3>4. QED
      BY <3>2, <3>3
  <2>3. ASSUME NEW e \in ESNs PROVE AtRest(e)'
    <3>1. AtRest(e)
      BY DEF Routed
    <3>2. Readable(e)' = Readable(e)
      BY <1>1 DEF Readable
    <3>3. Idle(e)' /\ Readable(e) => Idle(e)
      BY <1>1, <2>1 DEF Idle, Actors
    <3>4. QED
      BY <1>1, <1>2, <3>1, <3>2, <3>3 DEF AtRest, RoutedFor
  <2>4. QED
    BY <2>2, <2>3 DEF Routed
<1>5. QED
  BY <1>3, <1>4

\* What is done to the table for one camera.
LEMMA HandleRouted ==
    ASSUME ServiceInvariant, WithinOffers, Routed, NEW a \in Actors, Handle(a)
    PROVE  Routed'
<1>1. UNCHANGED <<configs, main, snapshot, vendor, raced>>
  BY DEF Handle, Diff, Remove, Add, Drop, managerVars, mainVars, historyVars
<1>2. CASE vendor = 0
  BY <1>1, <1>2 DEF Routed, Progress, AtRest
<1>3. CASE vendor # 0
  <2>0. PICK esn \in ESNs : work[a].esn = esn /\ TypeOK
    BY DEF ServiceInvariant, TypeOK, Work
  <2>1. /\ \A b \in Actors \ {a} : work'[b] = work[b]
        /\ work'[a].esn = esn /\ work[a].step # "none"
        /\ \A e \in ESNs \ {esn} : MappedTo(e)' = MappedTo(e)
    BY <2>0, HandleWork, HandleEffect
  <2>2. work[a].on = vendor
    BY <1>3, HandleWork, AtWorkOn DEF ServiceInvariant
  <2>3. esn \notin raced => Doing(a)
    BY <2>0, <2>1 DEF ServiceInvariant, Working, UpdateAtWork, ReplayAtWork, Actors
  <2>4. \A b \in Actors \ {a} : work[b].step # "none" /\ work[b].esn = esn => esn \in raced
    BY <2>0, <2>1 DEF ServiceInvariant, Working, UpdateAtWork, ReplayAtWork, Actors
  <2>5. esn \notin raced => main \in {"wait", "read", "stop", "snapshot", "replay"}
    BY <2>0, <2>1, HandleWork, AtWorkOn DEF ServiceInvariant, TypeOK, MainSteps
  <2>6. main = "snapshot" => esn \notin raced
    BY <2>0, <2>1 DEF ServiceInvariant, Working, UpdateAtWork, ReplayAtWork, Actors
  <2>7. Progress(a, esn)
    BY <2>0 DEF Routed
  <2>8. Progress(a, esn)' /\ (esn \notin raced /\ work'[a].step = "none" => Fits(esn)')
    <3>1. CASE esn \in raced
      BY <1>1, <3>1 DEF Progress
    <3>2. CASE esn \notin raced
      <4>1. CASE Diff(a)
        <5>1. /\ work[a].step = "diff" /\ maps' = maps
              /\ work'[a].gone = FirstMapped(esn) \ work[a].ips
              /\ work'[a].step = IF FirstMapped(esn) \ work[a].ips # {} THEN "remove" ELSE "add"
              /\ work'[a].ips = work[a].ips
          <6> DEFINE seen == FirstMapped(work[a].esn) \ work[a].ips
          <6>1. /\ work' = [work EXCEPT ![a].gone = seen,
                                        ![a].step = IF seen # {} THEN "remove" ELSE "add"]
                /\ work[a].step = "diff" /\ maps' = maps
            BY <2>2, <4>1 DEF Diff
          <6>2. work[a] \in Work
            BY <2>0 DEF TypeOK
          <6>3. seen = FirstMapped(esn) \ work[a].ips
            BY <2>0
          <6> HIDE DEF seen
          <6>4. work' = [work EXCEPT ![a] = [work[a] EXCEPT !.gone = seen,
                            !.step = IF seen # {} THEN "remove" ELSE "add"]]
            BY <2>0, <6>1 DEF TypeOK
          <6>5. work'[a] = [work[a] EXCEPT !.gone = seen,
                                           !.step = IF seen # {} THEN "remove" ELSE "add"]
            BY <2>0, <6>4 DEF TypeOK
          <6>6. /\ work'[a].gone = seen /\ work'[a].ips = work[a].ips
                /\ work'[a].step = IF seen # {} THEN "remove" ELSE "add"
            BY <6>2, <6>5 DEF Work
          <6>7. QED
            BY <6>1, <6>3, <6>6
        <5>2. /\ work[a].ips = configs[esn]
              /\ MappedTo(esn) \ Shared(esn) \subseteq FirstMapped(esn)
          BY <2>0, <2>3, <3>2, <5>1, FirstOrShared DEF Doing
        <5>3. MappedTo(esn)' = MappedTo(esn)
          BY <2>0, <5>1, SameMappings
        <5>4. QED
          BY <1>1, <5>1, <5>2, <5>3 DEF Progress, Shared
      <4>2. CASE Remove(a)
        <5>1. work[a].step = "remove" /\ work'[a].step = "add" /\ work'[a].ips = work[a].ips
          BY <2>0, <4>2 DEF Remove, Goto, TypeOK, Work
        <5>2. /\ work[a].ips = configs[esn]
              /\ MappedTo(esn) \ configs[esn] \subseteq work[a].gone \cup Shared(esn)
          BY <1>3, <2>0, <2>3, <2>7, <3>2, <5>1 DEF Doing, Progress
        <5>3. MappedTo(esn)' = MappedTo(esn) \ work[a].gone
          BY <2>0, <2>2, <4>2, RemoveEffect
        <5>4. QED
          BY <1>1, <5>1, <5>2, <5>3 DEF Progress, Shared
      <4>3. CASE Add(a)
        <5>1. PICK ip \in work[a].ips :
                 /\ Change(a, [maps EXCEPT ![ip] = AddTo(@, work[a].esn)])
                 /\ work' = [work EXCEPT ![a].ips = @ \ {ip},
                                         ![a].step = IF work[a].ips = {ip} THEN "none" ELSE "add"]
          BY <4>3 DEF Add
        <5>2. /\ work[a].step = "add" /\ work'[a].ips = work[a].ips \ {ip}
              /\ work'[a].step = IF work[a].ips = {ip} THEN "none" ELSE "add"
          BY <2>0, <4>3, <5>1 DEF Add, TypeOK, Work
        <5>3. MappedTo(esn)' = MappedTo(esn) \cup {ip}
          BY <2>0, <2>2, <5>1, AddEffect
        <5>4. /\ ip \in configs[esn] /\ MappedTo(esn) \subseteq configs[esn] \cup Shared(esn)
              /\ configs[esn] \subseteq MappedTo(esn) \cup work[a].ips
          BY <1>3, <2>0, <2>3, <2>7, <3>2, <5>2 DEF Doing, Progress
        <5>5. /\ configs[esn] \subseteq MappedTo(esn)' \cup work'[a].ips
              /\ MappedTo(esn)' \subseteq configs[esn] \cup Shared(esn)
          BY <5>2, <5>3, <5>4
        <5>6. work'[a].step = "none" => work'[a].ips = {}
          BY <5>2
        <5>7. work'[a].step = "none" => Fits(esn)'
          BY <1>1, <5>4, <5>5, <5>6 DEF Fits, RoutedFor, Shared
        <5>8. QED
          BY <1>1, <5>2, <5>5, <5>7 DEF Progress, Shared
      <4>4. CASE Drop(a)
        <5>1. work[a].step = "drop" /\ work'[a].step = "none"
          BY <2>0, <4>4 DEF Drop, Goto, TypeOK, Work
        <5>2. configs[esn] = {}
          BY <2>0, <2>3, <3>2, <5>1 DEF Doing
        <5>3. MappedTo(esn)' = {}
          BY <2>0, <2>2, <4>4, DropEffect
        <5>4. QED
          BY <1>1, <5>1, <5>2, <5>3 DEF Progress, Fits, RoutedFor
      <4>5. QED
        BY <4>1, <4>2, <4>3, <4>4 DEF Handle
    <3>3. QED
      BY <3>1, <3>2
  <2>9. ASSUME NEW b \in Actors, NEW e \in ESNs PROVE Progress(b, e)'
    <3>1. Progress(b, e)
      BY DEF Routed
    <3>2. CASE e = esn /\ b = a
      BY <2>8, <3>2
    <3>3. CASE e = esn /\ b # a
      <4>1. work'[b] = work[b]
        BY <2>1, <3>3
      <4>2. work[b].step = "none" \/ work[b].esn # e \/ e \in raced
        BY <2>4, <3>3
      <4>3. QED
        BY <1>1, <4>1, <4>2 DEF Progress
    <3>4. CASE e # esn
      <4>1. b = a => work'[b].esn # e
        BY <2>1, <3>4
      <4>2. b # a => work'[b] = work[b]
        BY <2>1
      <4>3. MappedTo(e)' = MappedTo(e)
        BY <2>1, <3>4
      <4>4. QED
        BY <1>1, <3>1, <4>1, <4>2, <4>3 DEF Progress
    <3>5. QED
      BY <3>2, <3>3, <3>4
  <2>10. ASSUME NEW e \in ESNs PROVE AtRest(e)'
    <3>1. CASE e = esn
      <4>1. Idle(e)' => work'[a].step = "none"
        BY <2>0, <2>1, <3>1 DEF Idle
      <4>2. Idle(e)' /\ e \notin raced => Fits(e)'
        BY <2>8, <3>1, <4>1
      <4>3. QED
        BY <1>1, <2>6, <3>1, <4>2 DEF AtRest, Fits
    <3>2. CASE e # esn
      <4>1. Idle(e)' => Idle(e)
        BY <2>0, <2>1, <3>2 DEF Idle
      <4>2. Readable(e)' = Readable(e) /\ MappedTo(e)' = MappedTo(e)
        BY <1>1, <2>1, <3>2 DEF Readable
      <4>3. AtRest(e)
        BY DEF Routed
      <4>4. QED
        BY <1>1, <4>1, <4>2, <4>3 DEF AtRest, RoutedFor
    <3>3. QED
      BY <3>1, <3>2
  <2>11. QED
    BY <2>9, <2>10 DEF Routed
<1>4. QED
  BY <1>2, <1>3

\* Main's steps: a new table is empty, a snapshot says all there is to do, and
\* when nothing of it is left it has been done.
LEMMA MainRouted ==
    ASSUME ServiceInvariant, Routed, MainStep
    PROVE  Routed'
<1>0. configs' = configs
  BY DEF MainStep, ReceiveChange, ReadActiveVendor, CreateVendor, TakeSnapshot, ReplayOne,
         EndReplay, StopVendor, managerVars
<1>1. CASE ReceiveChange \/ ReadActiveVendor
  <2>1. /\ main \in {"wait", "read"}
        /\ main' \in {"wait", "read", "stop"} \/ vendor = 0
        /\ UNCHANGED <<work, snapshot, vendor, maps, raced>>
    BY <1>1 DEF ReceiveChange, ReadActiveVendor, historyVars
  <2>2. CASE vendor = 0
    BY <2>1, <2>2 DEF Routed, Progress, AtRest
  <2>3. CASE vendor # 0
    <3>1. \A e \in ESNs : MappedTo(e)' = MappedTo(e)
      BY <2>1, SameMappings
    <3>2. \A a \in Actors, e \in ESNs : Progress(a, e)'
      BY <1>0, <2>1, <3>1 DEF Routed, Progress
    <3>3. \A e \in ESNs : AtRest(e)'
      BY <1>0, <2>1, <2>3, <3>1 DEF Routed, AtRest, Idle, Readable, RoutedFor
    <3>4. QED
      BY <3>2, <3>3 DEF Routed
  <2>4. QED
    BY <2>2, <2>3
<1>2. CASE CreateVendor
  <2>1. /\ main = "create" /\ main' = "snapshot" /\ maps' = Empty
        /\ UNCHANGED <<work, raced>>
    BY <1>2 DEF CreateVendor, historyVars
  <2>2. \A a \in Actors : work[a].step \in {"none", "callback"}
    BY <2>1 DEF ServiceInvariant, Working, ReplayAtWork, UpdateAtWork, Actors
  <2>3. \A e \in ESNs : MappedTo(e)' = {}
    BY <2>1 DEF MappedTo, Empty, Range
  <2>4. QED
    BY <2>1, <2>2, <2>3 DEF Routed, Progress, AtRest
<1>3. CASE TakeSnapshot
  <2>1. /\ main = "snapshot" /\ ~locked /\ main' = "replay" /\ snapshot' = configs
        /\ UNCHANGED <<work, vendor, maps>>
    BY <1>3 DEF TakeSnapshot
  <2>2. \A a \in Actors : work[a].step = "none"
    BY <2>1 DEF ServiceInvariant, Working, ReplayAtWork, UpdateAtWork, Actors
  <2>3. \A e \in ESNs : MappedTo(e)' = MappedTo(e)
    BY <2>1, SameMappings
  <2>4. \A a \in Actors, e \in ESNs : Progress(a, e)'
    BY <2>1, <2>2 DEF Progress
  <2>5. ASSUME NEW e \in ESNs PROVE AtRest(e)'
    <3>1. AtRest(e) /\ Idle(e)
      BY <2>2 DEF Routed, Idle
    <3>2. configs[e] = {} => Readable(e)
      BY DEF Readable
    <3>3. QED
      BY <1>0, <2>1, <2>3, <3>1, <3>2 DEF AtRest, RoutedFor
  <2>6. QED
    BY <2>4, <2>5 DEF Routed
<1>4. CASE ReplayOne
  <2>1. /\ main = "replay" /\ work["replay"].step = "none"
        /\ UNCHANGED <<main, vendor, maps, raced>>
    BY <1>4 DEF ReplayOne, historyVars
  <2>2. PICK esn \in ESNs :
           /\ snapshot[esn] # {}
           /\ work' = [work EXCEPT !["replay"] = [step |-> Handling(snapshot[esn]), esn |-> esn,
                          ips |-> snapshot[esn], gone |-> {}, on |-> vendor]]
           /\ snapshot' = [snapshot EXCEPT ![esn] = {}]
    BY <1>4 DEF ReplayOne, Assign
  <2>3. /\ work'["update"] = work["update"]
        /\ work'["replay"].step = Handling(snapshot[esn]) /\ work'["replay"].esn = esn
    BY <2>2 DEF ServiceInvariant, TypeOK, Actors
  <2>4. \A e \in ESNs : MappedTo(e)' = MappedTo(e)
    BY <2>1, SameMappings
  <2>5. Handling(snapshot[esn]) \in {"diff", "none"}
    BY <2>2 DEF Handling
  <2>6. ASSUME NEW a \in Actors, NEW e \in ESNs PROVE Progress(a, e)'
    <3>1. CASE a = "replay"
      BY <2>3, <2>5, <3>1 DEF Progress
    <3>2. CASE a = "update"
      <4>1. Progress("update", e)
        BY <3>2 DEF Routed
      <4>2. QED
        BY <1>0, <2>1, <2>3, <2>4, <3>2, <4>1 DEF Progress
    <3>3. QED
      BY <3>1, <3>2 DEF Actors
  <2>7. ASSUME NEW e \in ESNs PROVE AtRest(e)'
    <3>1. CASE e = esn
      <4>1. esn \notin raced => snapshot[esn] = configs[esn]
        BY <2>1, <2>2 DEF ServiceInvariant, Working, SnapshotCurrent
      <4>2. Idle(esn)' => Handling(snapshot[esn]) = "none"
        BY <2>3 DEF Idle, Actors
      <4>3. Handling(snapshot[esn]) = "none" /\ esn \notin raced => ~Readable(esn)
        BY <2>2, <4>1 DEF Handling, Readable
      <4>4. Readable(esn)' = Readable(esn)
        BY <1>0 DEF Readable
      <4>5. QED
        BY <2>1, <3>1, <4>2, <4>3, <4>4 DEF AtRest
    <3>2. CASE e # esn
      <4>1. snapshot'[e] = snapshot[e]
        BY <2>2, <3>2 DEF ServiceInvariant, TypeOK
      <4>2. Idle(e)' => Idle(e)
        BY <2>1, <2>3 DEF Idle, Actors
      <4>3. Readable(e)' = Readable(e) /\ AtRest(e)
        BY <1>0 DEF Readable, Routed
      <4>4. QED
        BY <1>0, <2>1, <2>4, <4>1, <4>2, <4>3 DEF AtRest, RoutedFor
    <3>3. QED
      BY <3>1, <3>2
  <2>8. QED
    BY <2>6, <2>7 DEF Routed
<1>5. CASE EndReplay
  <2>1. /\ main = "replay" /\ main' = "wait" /\ \A e \in ESNs : snapshot[e] = {}
        /\ UNCHANGED <<work, vendor, maps, raced>>
    BY <1>5 DEF EndReplay, historyVars
  <2>2. \A e \in ESNs : MappedTo(e)' = MappedTo(e)
    BY <2>1, SameMappings
  <2>3. \A a \in Actors, e \in ESNs : Progress(a, e)'
    BY <1>0, <2>1, <2>2 DEF Routed, Progress
  <2>4. \A e \in ESNs : AtRest(e)'
    BY <1>0, <2>1, <2>2 DEF Routed, AtRest, Idle, Readable, RoutedFor
  <2>5. QED
    BY <2>3, <2>4 DEF Routed
<1>6. CASE StopVendor
  BY <1>6 DEF StopVendor, Routed, Progress, AtRest
<1>7. QED
  BY <1>1, <1>2, <1>3, <1>4, <1>5, <1>6 DEF MainStep

\* A step of somebody else changes nothing of it.
LEMMA StutterRouted ==
    ASSUME Routed, UNCHANGED vars
    PROVE  Routed'
<1>1. \A e \in ESNs : MappedTo(e)' = MappedTo(e)
  BY SameMappings DEF vars
<1>2. UNCHANGED <<configs, work, main, snapshot, vendor, raced>>
  BY DEF vars
<1>3. \A a \in Actors, e \in ESNs : Progress(a, e)'
  BY <1>1, <1>2 DEF Routed, Progress
<1>4. \A e \in ESNs : AtRest(e)'
  BY <1>1, <1>2 DEF Routed, AtRest, Idle, Readable, RoutedFor
<1>5. QED
  BY <1>3, <1>4 DEF Routed

\* All that routing rests on.
RoutedInvariant == ServiceInvariant /\ WithinOffers /\ Routed

\* It holds at the start.
LEMMA InitRouted == Init => RoutedInvariant
  BY InitInvariant, InitOffers, NoVendorRouted DEF Init, RoutedInvariant

\* A configuration that arrives keeps it.
LEMMA BeginUpdateKeepsRoutes ==
    ASSUME RoutedInvariant, NEW esn \in ESNs, NEW ips \in Offers[esn], BeginUpdate(esn, ips)
    PROVE  RoutedInvariant'
<1>1. ips \in SUBSET IPs /\ ips \in SUBSET Offered(esn)
  BY OffersAssumption DEF Offered
<1>2. QED
  BY <1>1, BeginUpdateInvariant, BeginUpdateOffers, BeginUpdateRouted
     DEF RoutedInvariant, ServiceInvariant

\* So do all the other steps of the service.
LEMMA ServiceKeepsRoutes ==
    ASSUME RoutedInvariant,
           \/ Callback \/ Call \/ Panic \/ EndUpdate
           \/ \E a \in Actors : Handle(a)
           \/ MainStep
    PROVE  RoutedInvariant'
<1>1. ServiceInvariant'
  BY ServiceInvariantStep DEF RoutedInvariant
<1>2. WithinOffers'
  BY HandleOffers, OtherStepsOffers DEF RoutedInvariant, ServiceInvariant
<1>3. Routed'
  BY UpdateRouted, HandleRouted, MainRouted DEF RoutedInvariant
<1>4. QED
  BY <1>1, <1>2, <1>3 DEF RoutedInvariant

\* So does a step of somebody else.
LEMMA StutterKeepsRoutes == ASSUME RoutedInvariant, UNCHANGED vars PROVE RoutedInvariant'
  BY StutterInvariant, OtherStepsOffers, StutterRouted DEF RoutedInvariant, ServiceInvariant

\* It implies what the run checks.
LEMMA RoutesAreConfigured == RoutedInvariant => RoutedAsConfigured
<1> SUFFICES ASSUME RoutedInvariant, Settled, vendor # 0, NEW esn \in ESNs \ raced, Readable(esn)
             PROVE  RoutedFor(esn, configs[esn])
  BY DEF RoutedAsConfigured
<1>1. Idle(esn) /\ AtRest(esn) /\ main = "wait"
  BY DEF Settled, Idle, RoutedInvariant, Routed
<1>2. QED
  BY <1>1 DEF AtRest

\* Once all is quiet every camera with a readable configuration is mapped to
\* its registers and to no other that is its own, but for those whose
\* configuration was last posted during a replay: for any number of cameras,
\* registers and updates, whichever registers the cameras share.
THEOREM ServiceRoutesAsConfigured == Spec => []RoutedAsConfigured
<1>1. RoutedInvariant /\ [Next]_vars => RoutedInvariant'
  BY BeginUpdateKeepsRoutes, ServiceKeepsRoutes, StutterKeepsRoutes DEF Next
<1>2. QED
  BY InitRouted, <1>1, RoutesAreConfigured, PTL DEF Spec

-----------------------------------------------------------------------------
(* From the settings to the table *)

\* There is always a number that no post bears: the posts are too few.
LEMMA UnusedNumber ==
    ASSUME IsFiniteSet(posts)
    PROVE  Unused \in Nat
<1> DEFINE c == Cardinality(posts)
           used == {p \in posts : p.n \in 1 .. c + 1}
<1>1. c \in Nat
  BY FS_CardinalityType
<1>2. IsFiniteSet(used) /\ Cardinality(used) <= c
  BY FS_Subset
<1>3. \E n \in 1 .. c + 1 : \A p \in posts : p.n # n
  <2> SUFFICES ASSUME \A n \in 1 .. c + 1 : \E p \in posts : p.n = n PROVE FALSE
    OBVIOUS
  <2> DEFINE number == [p \in used |-> p.n]
  <2>1. number \in Surjection(used, 1 .. c + 1)
    <3>1. number \in [used -> 1 .. c + 1]
      OBVIOUS
    <3>2. \A n \in 1 .. c + 1 : \E p \in used : number[p] = n
      OBVIOUS
    <3>3. QED
      BY <3>1, <3>2 DEF Surjection
  <2>2. Cardinality(1 .. c + 1) <= Cardinality(used)
    BY <1>2, <2>1, FS_Surjection
  <2>3. Cardinality(1 .. c + 1) = c + 1
    BY <1>1, FS_Interval
  <2>4. Cardinality(used) \in Nat
    BY <1>2, FS_CardinalityType
  <2>5. QED
    BY <1>1, <1>2, <2>2, <2>3, <2>4
<1>4. Unused \in 1 .. c + 1
  BY <1>3 DEF Unused
<1>5. QED
  BY <1>1, <1>4

\* The types of the scripts' part; the posts in flight are finitely many.
PathTypes == PathTypeOK /\ IsFiniteSet(posts)

\* What is wanted and what is posted is on offer.
PostsOffered ==
    /\ \A esn \in ESNs : wanted[esn] \in Offers[esn] \cup {Absent}
    /\ \A p \in posts : p.ips \in Offers[p.esn]

\* What the settings of a camera are worth: its script has yet to run, or the
\* one post of it bears them, or they are configured; else they went astray.
PathRule(esn) ==
    esn \notin astray /\ wanted[esn] # Absent =>
        \/ esn \in due
        \/ \E p \in posts : /\ p.esn = esn /\ p.ips = wanted[esn]
                            /\ \A q \in posts : q.esn = esn => q = p
        \/ ~InFlight(esn) /\ configs[esn] = wanted[esn]

\* What every camera's script, posts and configuration have to do with each
\* other.
PathProgress == PathTypes /\ PostsOffered /\ \A esn \in ESNs : PathRule(esn)

\* Whatever a script does by itself.
ScriptStep(esn) ==
    \/ SettingsChange(esn) \/ CameraOnChange(esn) \/ Start(esn) \/ Stop(esn)
    \/ SyncSettings(esn) \/ SyncFails(esn)

\* The types of what the scripts change.
LEMMA ScriptTypes ==
    ASSUME PathTypes, PostsOffered, NEW esn \in ESNs, ScriptStep(esn)
    PROVE  PathTypes' /\ PostsOffered'
<1>0. /\ configs' = configs /\ TypeOK'
  <2>1. UNCHANGED vars
    BY DEF ScriptStep, SettingsChange, CameraOnChange, Start, Stop, SyncSettings, SyncFails
  <2>2. QED
    BY <2>1 DEF PathTypes, PathTypeOK, TypeOK, vars
<1>1. /\ changes' \in 0 .. MaxChanges /\ faults' \in 0 .. MaxFaults
      /\ due' \subseteq ESNs /\ astray' \subseteq ESNs
  <2>1. \/ changes' = changes
        \/ changes < MaxChanges /\ changes' = changes + 1
    BY DEF ScriptStep, SettingsChange, CameraOnChange, Start, Stop, SyncSettings, SyncFails, OneChange
  <2>2. \/ faults' = faults
        \/ faults < MaxFaults /\ faults' = faults + 1
    BY DEF ScriptStep, SettingsChange, CameraOnChange, Start, Stop, SyncSettings, SyncFails, Fault
  <2>3. due' \subseteq due \cup {esn} /\ astray' \subseteq astray \cup {esn}
    BY DEF ScriptStep, SettingsChange, CameraOnChange, Start, Stop, SyncSettings, SyncFails, Post
  <2>4. QED
    BY <2>1, <2>2, <2>3, PathAssumption DEF PathTypes, PathTypeOK
<1>2. hooks' \in [ESNs -> SUBSET Hooks]
  <2>1. \/ hooks' = hooks
        \/ hooks' = [hooks EXCEPT ![esn] = Hooks]
        \/ hooks' = [hooks EXCEPT ![esn] = @ \ {"scripts"}]
    BY DEF ScriptStep, SettingsChange, CameraOnChange, Start, Stop, SyncSettings, SyncFails
  <2>2. QED
    BY <2>1 DEF PathTypes, PathTypeOK
<1>3. /\ wanted' \in [ESNs -> (SUBSET IPs) \cup {Absent}]
      /\ \A e \in ESNs : wanted'[e] \in Offers[e] \cup {Absent}
  <2>1. wanted' = wanted \/ \E ips \in Offers[esn] \cup {Absent} : wanted' = [wanted EXCEPT ![esn] = ips]
    BY DEF ScriptStep, SettingsChange, CameraOnChange, Start, Stop, SyncSettings, SyncFails
  <2>2. Offers[esn] \cup {Absent} \subseteq (SUBSET IPs) \cup {Absent}
    BY OffersAssumption
  <2>3. QED
    BY <2>1, <2>2 DEF PathTypes, PathTypeOK, PostsOffered
<1>4. /\ posts' \subseteq [esn : ESNs, ips : SUBSET IPs, n : Nat] /\ IsFiniteSet(posts')
      /\ \A p \in posts' : p.ips \in Offers[p.esn]
  <2>1. CASE posts' = posts
    BY <2>1 DEF PathTypes, PathTypeOK, PostsOffered
  <2>2. CASE posts' # posts
    <3>1. SyncSettings(esn) /\ wanted[esn] # Absent
      BY <2>2 DEF ScriptStep, SettingsChange, CameraOnChange, Start, Stop, SyncSettings, SyncFails
    <3> DEFINE new == [esn |-> esn, ips |-> wanted[esn], n |-> Unused]
    <3>2. posts' = posts \cup {new}
      BY <3>1 DEF SyncSettings, Post
    <3>3. wanted[esn] \in Offers[esn] /\ wanted[esn] \in SUBSET IPs
      BY <3>1 DEF PathTypes, PathTypeOK, PostsOffered
    <3>4. Unused \in Nat
      BY UnusedNumber DEF PathTypes
    <3>5. new \in [esn : ESNs, ips : SUBSET IPs, n : Nat] /\ new.ips \in Offers[new.esn]
      BY <3>3, <3>4
    <3>6. IsFiniteSet(posts')
      BY <3>2, FS_AddElement DEF PathTypes
    <3> HIDE DEF new
    <3>7. QED
      BY <3>2, <3>5, <3>6 DEF PathTypes, PathTypeOK, PostsOffered
  <2>3. QED
    BY <2>1, <2>2
<1>5. QED
  BY <1>0, <1>1, <1>2, <1>3, <1>4 DEF PathTypes, PathTypeOK, PostsOffered

\* What the scripts do leaves no camera's settings neither due, nor posted, nor
\* configured, nor astray.
LEMMA ScriptRule ==
    ASSUME PathTypes, NEW esn \in ESNs, ScriptStep(esn), NEW e \in ESNs, PathRule(e)
    PROVE  PathRule(e)'
<1>0. configs' = configs
  BY DEF ScriptStep, SettingsChange, CameraOnChange, Start, Stop, SyncSettings, SyncFails, vars
<1>1. CASE e # esn
  <2>1. wanted'[e] = wanted[e]
    BY <1>1 DEF ScriptStep, SettingsChange, CameraOnChange, Start, Stop, SyncSettings, SyncFails,
                PathTypes, PathTypeOK
  <2>2. (e \in due' <=> e \in due) /\ (e \in astray' <=> e \in astray)
    BY <1>1 DEF ScriptStep, SettingsChange, CameraOnChange, Start, Stop, SyncSettings, SyncFails, Post
  <2>3. \A p : p.esn = e => (p \in posts' <=> p \in posts)
    <3>1. \/ posts' = posts
          \/ posts' = posts \cup {[esn |-> esn, ips |-> wanted[esn], n |-> Unused]}
      BY DEF ScriptStep, SettingsChange, CameraOnChange, Start, Stop, SyncSettings, SyncFails, Post
    <3>2. QED
      BY <1>1, <3>1
  <2>4. InFlight(e)' = InFlight(e)
    BY <2>3 DEF InFlight
  <2>5. QED
    BY <1>0, <2>1, <2>2, <2>3, <2>4 DEF PathRule
<1>2. CASE e = esn
  <2>1. CASE SettingsChange(esn)
    BY <1>2, <2>1 DEF SettingsChange, PathRule
  <2>2. CASE CameraOnChange(esn) \/ Start(esn)
    BY <1>2, <2>2 DEF CameraOnChange, Start, PathRule
  <2>3. CASE Stop(esn)
    <3>1. e \in due => e \in astray'
      BY <1>2, <2>3 DEF Stop
    <3>2. e \notin astray' => e \notin astray
      BY <2>3 DEF Stop
    <3>3. UNCHANGED <<wanted, posts>>
      BY <2>3 DEF Stop
    <3>4. QED
      BY <1>0, <3>1, <3>2, <3>3 DEF PathRule, InFlight
  <2>4. CASE SyncFails(esn)
    BY <1>2, <2>4 DEF SyncFails, PathRule
  <2>5. CASE SyncSettings(esn)
    <3>1. CASE wanted[esn] = Absent
      BY <1>2, <2>5, <3>1 DEF SyncSettings, PathRule
    <3>2. CASE wanted[esn] # Absent /\ InFlight(esn)
      <4>1. e \in astray'
        BY <1>2, <2>5, <3>2 DEF SyncSettings, Post
      <4>2. QED
        BY <4>1 DEF PathRule
    <3>3. CASE wanted[esn] # Absent /\ ~InFlight(esn)
      <4> DEFINE new == [esn |-> esn, ips |-> wanted[esn], n |-> Unused]
      <4>1. posts' = posts \cup {new} /\ wanted' = wanted
        BY <2>5, <3>3 DEF SyncSettings, Post
      <4>2. new.esn = e /\ new.ips = wanted[e]
        BY <1>2
      <4> HIDE DEF new
      <4>3. \A q \in posts' : q.esn = e => q = new
        BY <1>2, <3>3, <4>1 DEF InFlight
      <4>4. \E p \in posts' : /\ p.esn = e /\ p.ips = wanted'[e]
                              /\ \A q \in posts' : q.esn = e => q = p
        BY <4>1, <4>2, <4>3
      <4>5. QED
        BY <4>4 DEF PathRule
    <3>4. QED
      BY <3>1, <3>2, <3>3
  <2>6. QED
    BY <2>1, <2>2, <2>3, <2>4, <2>5 DEF ScriptStep
<1>3. QED
  BY <1>1, <1>2

\* A lost post leaves its camera astray until the script posts again.
LEMMA LosePostProgress ==
    ASSUME PathProgress, NEW p \in posts, LosePost(p)
    PROVE  PathProgress'
<1>1. /\ faults < MaxFaults /\ faults' = faults + 1
      /\ posts' = posts \ {p} /\ astray' = astray \cup {p.esn}
      /\ UNCHANGED <<wanted, hooks, due, changes>> /\ UNCHANGED vars
  BY DEF LosePost, Fault
<1>2. TypeOK' /\ configs' = configs
  BY <1>1 DEF PathProgress, PathTypes, PathTypeOK, TypeOK, vars
<1>3. PathTypes' /\ PostsOffered'
  <2>1. IsFiniteSet(posts')
    BY <1>1, FS_RemoveElement DEF PathProgress, PathTypes
  <2>2. p.esn \in ESNs /\ faults' \in 0 .. MaxFaults
    BY <1>1, PathAssumption DEF PathProgress, PathTypes, PathTypeOK
  <2>3. QED
    BY <1>1, <1>2, <2>1, <2>2 DEF PathProgress, PathTypes, PathTypeOK, PostsOffered
<1>4. ASSUME NEW e \in ESNs PROVE PathRule(e)'
  <2>1. CASE e = p.esn
    BY <1>1, <2>1 DEF PathRule
  <2>2. CASE e # p.esn
    <3>1. \A q : q.esn = e => (q \in posts' <=> q \in posts)
      BY <1>1, <2>2
    <3>2. InFlight(e)' = InFlight(e)
      BY <3>1 DEF InFlight
    <3>3. PathRule(e)
      BY DEF PathProgress
    <3>4. QED
      BY <1>1, <1>2, <3>1, <3>2, <3>3 DEF PathRule
  <2>3. QED
    BY <2>1, <2>2
<1>5. QED
  BY <1>3, <1>4 DEF PathProgress

\* A post that arrives becomes the camera's configuration.
LEMMA DeliverProgress ==
    ASSUME PathProgress, NEW p \in posts, Deliver(p)
    PROVE  PathProgress'
<1>1. /\ BeginUpdate(p.esn, p.ips) /\ posts' = posts \ {p}
      /\ UNCHANGED <<wanted, hooks, due, astray, changes, faults>>
  BY DEF Deliver
<1>2. p.esn \in ESNs /\ p.ips \in SUBSET IPs
  BY DEF PathProgress, PathTypes, PathTypeOK
<1>3. TypeOK'
  BY <1>1, <1>2, BeginUpdateTypes DEF PathProgress, PathTypes, PathTypeOK
<1>4. PathTypes' /\ PostsOffered'
  <2>1. IsFiniteSet(posts')
    BY <1>1, FS_RemoveElement DEF PathProgress, PathTypes
  <2>2. QED
    BY <1>1, <1>3, <2>1 DEF PathProgress, PathTypes, PathTypeOK, PostsOffered
<1>5. configs' = [configs EXCEPT ![p.esn] = p.ips]
  BY <1>1 DEF BeginUpdate
<1>6. ASSUME NEW e \in ESNs PROVE PathRule(e)'
  <2>0. PathRule(e) /\ configs \in [ESNs -> SUBSET IPs]
    BY DEF PathProgress, PathTypes, PathTypeOK, TypeOK
  <2>1. CASE e = p.esn
    <3>1. configs'[e] = p.ips
      BY <1>5, <2>0, <2>1
    <3>2. InFlight(e)
      BY <2>1 DEF InFlight
    <3>3. (\E r \in posts : /\ r.esn = e /\ r.ips = wanted[e]
                            /\ \A q \in posts : q.esn = e => q = r)
            => ~InFlight(e)' /\ p.ips = wanted[e]
      BY <1>1, <2>1 DEF InFlight
    <3>4. QED
      BY <1>1, <2>0, <3>1, <3>2, <3>3 DEF PathRule
  <2>2. CASE e # p.esn
    <3>1. \A q : q.esn = e => (q \in posts' <=> q \in posts)
      BY <1>1, <2>2
    <3>2. InFlight(e)' = InFlight(e)
      BY <3>1 DEF InFlight
    <3>3. configs'[e] = configs[e]
      BY <1>5, <2>0, <2>2
    <3>4. QED
      BY <1>1, <2>0, <3>1, <3>2, <3>3 DEF PathRule
  <2>3. QED
    BY <2>1, <2>2
<1>7. QED
  BY <1>4, <1>6 DEF PathProgress

\* Whatever the service does by itself.
ServiceStep ==
    \/ Callback \/ Call \/ Panic \/ EndUpdate
    \/ \E a \in Actors : Handle(a)
    \/ MainStep

\* The service leaves the settings, the posts and the configurations alone.
LEMMA ServiceProgress ==
    ASSUME PathProgress, (ServiceStep \/ UNCHANGED vars) /\ UNCHANGED pathVars
    PROVE  PathProgress'
<1>1. TypeOK' /\ configs' = configs
  <2>1. CASE ServiceStep
    <3>1. TypeOK'
      BY <2>1, ServiceTypes DEF ServiceStep, PathProgress, PathTypes, PathTypeOK
    <3>2. configs' = configs
      BY <2>1 DEF ServiceStep, Callback, Call, Panic, EndUpdate, Handle, Diff, Remove, Add, Drop,
                  MainStep, ReceiveChange, ReadActiveVendor, CreateVendor, TakeSnapshot, ReplayOne,
                  EndReplay, StopVendor, managerVars
    <3>3. QED
      BY <3>1, <3>2
  <2>2. CASE UNCHANGED vars
    BY <2>2 DEF vars, TypeOK, PathProgress, PathTypes, PathTypeOK
  <2>3. QED
    BY <2>1, <2>2
<1>2. UNCHANGED <<wanted, hooks, due, posts, astray, changes, faults>>
  BY DEF pathVars
<1>3. PathTypes' /\ PostsOffered'
  BY <1>1, <1>2 DEF PathProgress, PathTypes, PathTypeOK, PostsOffered
<1>4. \A e \in ESNs : PathRule(e)'
  BY <1>1, <1>2 DEF PathProgress, PathRule, InFlight
<1>5. QED
  BY <1>3, <1>4 DEF PathProgress

\* A restart leaves every camera's settings astray.
LEMMA RestartProgress == ASSUME PathProgress, Restart PROVE PathProgress'
<1>1. Init' /\ faults < MaxFaults /\ faults' = faults + 1 /\ posts' = {} /\ astray' = ESNs
      /\ UNCHANGED <<wanted, hooks, due, changes>>
  BY DEF Restart, Init, Fault
<1>2. TypeOK'
  BY <1>1, InitTypes, PTL
<1>3. faults' \in 0 .. MaxFaults
  BY <1>1, PathAssumption DEF PathProgress, PathTypes, PathTypeOK
<1>4. PathTypes' /\ PostsOffered'
  BY <1>1, <1>2, <1>3, FS_EmptySet DEF PathProgress, PathTypes, PathTypeOK, PostsOffered
<1>5. \A e \in ESNs : PathRule(e)'
  BY <1>1 DEF PathRule
<1>6. QED
  BY <1>4, <1>5 DEF PathProgress

\* No script has run and nothing is in flight at the start.
LEMMA InitProgress == PathInit => PathProgress
<1> SUFFICES ASSUME PathInit PROVE PathProgress
  OBVIOUS
<1>1. TypeOK
  BY InitTypes DEF PathInit
<1>2. PathTypes
  BY <1>1, FS_EmptySet, PathAssumption DEF PathInit, PathTypes, PathTypeOK
<1>3. PostsOffered /\ \A e \in ESNs : PathRule(e)
  BY DEF PathInit, PostsOffered, PathRule
<1>4. QED
  BY <1>2, <1>3 DEF PathProgress

\* Every step of the scripts, the posts and the service keeps it.
LEMMA PathProgressStep == PathProgress /\ [PathNext]_allVars => PathProgress'
<1> SUFFICES ASSUME PathProgress, [PathNext]_allVars PROVE PathProgress'
  OBVIOUS
<1>1. ASSUME NEW esn \in ESNs, ScriptStep(esn) PROVE PathProgress'
  BY <1>1, ScriptTypes, ScriptRule DEF PathProgress
<1>2. ASSUME NEW p \in posts, LosePost(p) \/ Deliver(p) PROVE PathProgress'
  BY <1>2, LosePostProgress, DeliverProgress
<1>3. CASE Service \/ UNCHANGED allVars
  BY <1>3, ServiceProgress DEF Service, ServiceStep, allVars
<1>4. CASE Restart
  BY <1>4, RestartProgress
<1>5. QED
  BY <1>1, <1>2, <1>3, <1>4 DEF PathNext, ScriptStep

\* It holds at all times.
LEMMA PathProgresses == PathSpec => []PathProgress
  BY InitProgress, PathProgressStep, PTL DEF PathSpec

\* Every variable of the whole path has its type; a post always finds a number
\* that tells it from the others.
THEOREM PathTypesOK == PathSpec => []PathTypeOK
  BY PathProgresses, PTL DEF PathProgress, PathTypes

\* The service within the whole: a post that is delivered is an update, a
\* restart begins anew.
LEMMA PathInvariantStep ==
    PathProgress /\ ServiceInvariant /\ [PathNext]_allVars => ServiceInvariant'
<1> SUFFICES ASSUME PathProgress, ServiceInvariant, [PathNext]_allVars PROVE ServiceInvariant'
  OBVIOUS
<1>1. ASSUME NEW esn \in ESNs, ScriptStep(esn) PROVE UNCHANGED vars
  BY <1>1 DEF ScriptStep, SettingsChange, CameraOnChange, Start, Stop, SyncSettings, SyncFails
<1>2. ASSUME NEW p \in posts, Deliver(p) PROVE ServiceInvariant'
  BY <1>2, BeginUpdateInvariant DEF Deliver, PathProgress, PathTypes, PathTypeOK
<1>3. CASE Service
  BY <1>3, ServiceInvariantStep DEF Service
<1>4. CASE Restart
  <2>1. Init'
    BY <1>4 DEF Restart, Init
  <2>2. QED
    BY <2>1, InitInvariant, PTL
<1>5. QED
  BY <1>1, <1>2, <1>3, <1>4, StutterInvariant DEF PathNext, ScriptStep, LosePost, allVars

\* The service's own invariant holds with the scripts posting to it.
LEMMA PathInvariance == PathSpec => []ServiceInvariant
<1>1. PathInit => ServiceInvariant
  BY InitInvariant DEF PathInit
<1>2. QED
  BY <1>1, PathInvariantStep, PathProgresses, PTL DEF PathSpec

\* The same with the scripts of any number of cameras, posts that are lost or
\* overtake each other, and restarts of the container.
THEOREM PathFollowsSettings == PathSpec => []VendorFollowsSettings
  BY PathInvariance, FollowsWhenSettled, PTL DEF ServiceInvariant

\* The same with the scripts, lost and reordered posts, and restarts: the only
\* step that clears another camera's mappings is the stop of the vendor or of
\* the container.
THEOREM PathLeavesOthers == PathSpec => OthersUntouched
<1>1. PathProgress /\ ServiceInvariant /\ [PathNext]_allVars =>
        [vendor' = vendor =>
            \A esn \in ESNs : MappedTo(esn)' # MappedTo(esn) =>
                \E a \in Actors : work[a].step # "none" /\ work[a].esn = esn]_vars
  <2> SUFFICES ASSUME ServiceInvariant, PathNext PROVE Untouched \/ UNCHANGED vars
    BY DEF Untouched, allVars
  <2>1. ASSUME NEW esn \in ESNs, ScriptStep(esn) PROVE UNCHANGED vars
    BY <2>1 DEF ScriptStep, SettingsChange, CameraOnChange, Start, Stop, SyncSettings, SyncFails
  <2>2. ASSUME NEW p \in posts, Deliver(p) PROVE Untouched
    BY <2>2, SameTableUntouched DEF Deliver, BeginUpdate
  <2>3. CASE Service
    BY <2>3, ServiceUntouched DEF Service
  <2>4. CASE Restart
    <3>1. vendor' = vendor => maps' = maps
      BY <2>4 DEF Restart, ServiceInvariant, Working, TableOfVendor
    <3>2. QED
      BY <3>1, SameTableUntouched DEF Untouched
  <2>5. QED
    BY <2>1, <2>2, <2>3, <2>4 DEF PathNext, ScriptStep, LosePost
<1>2. QED
  BY <1>1, PathInvariance, PathProgresses, PTL DEF PathSpec, OthersUntouched

\* Routing, with the scripts posting: one step.
LEMMA PathRoutesStep ==
    PathProgress /\ RoutedInvariant /\ [PathNext]_allVars => RoutedInvariant'
<1> SUFFICES ASSUME PathProgress, RoutedInvariant, [PathNext]_allVars PROVE RoutedInvariant'
  OBVIOUS
<1>1. ASSUME NEW esn \in ESNs, ScriptStep(esn) PROVE UNCHANGED vars
  BY <1>1 DEF ScriptStep, SettingsChange, CameraOnChange, Start, Stop, SyncSettings, SyncFails
<1>2. ASSUME NEW p \in posts, Deliver(p) PROVE RoutedInvariant'
  <2>1. p.esn \in ESNs /\ p.ips \in Offers[p.esn]
    BY DEF PathProgress, PathTypes, PathTypeOK, PostsOffered
  <2>2. QED
    BY <1>2, <2>1, BeginUpdateKeepsRoutes DEF Deliver
<1>3. CASE Service
  BY <1>3, ServiceKeepsRoutes DEF Service
<1>4. CASE Restart
  <2>1. Init'
    BY <1>4 DEF Restart, Init
  <2>2. QED
    BY <2>1, InitRouted, PTL
<1>5. QED
  BY <1>1, <1>2, <1>3, <1>4, StutterKeepsRoutes DEF PathNext, ScriptStep, LosePost, allVars

\* The same, at all times.
LEMMA PathRoutes == PathSpec => []RoutedInvariant
<1>1. PathInit => RoutedInvariant
  BY InitRouted DEF PathInit
<1>2. QED
  BY <1>1, PathRoutesStep, PathProgresses, PTL DEF PathSpec

\* The same with the scripts of any number of cameras, lost and reordered posts
\* and restarts of the container.
THEOREM PathRoutesAsConfigured == PathSpec => []RoutedAsConfigured
  BY PathRoutes, RoutesAreConfigured, PTL

\* Where no address is offered to two cameras, every camera is in the end
\* mapped to exactly its registers: that they share some is the only reason
\* for a mapping that is left over.
THEOREM PathRoutesExactly ==
    ASSUME Apart
    PROVE  PathSpec => []RoutedExactly
<1>1. RoutedInvariant => RoutedExactly
  <2> SUFFICES ASSUME RoutedInvariant, Settled, vendor # 0, NEW esn \in ESNs \ raced, Readable(esn)
               PROVE  MappedTo(esn) = configs[esn]
    BY DEF RoutedExactly
  <2>1. RoutedFor(esn, configs[esn])
    BY RoutesAreConfigured DEF RoutedAsConfigured
  <2>2. MappedTo(esn) \subseteq Offered(esn)
    BY DEF RoutedInvariant, WithinOffers
  <2>3. QED
    BY <2>1, <2>2 DEF RoutedFor, Apart
<1>2. QED
  BY <1>1, PathRoutes, PTL

\* End to end: a camera's settings that were noticed, delivered and not
\* overtaken are in the end what it is mapped to, but for what it may share,
\* for any number of cameras, registers, posts and faults.
THEOREM PathRoutesAsSettings == PathSpec => []RoutedAsSettings
<1>1. PathProgress /\ RoutedInvariant => RoutedAsSettings
  <2> SUFFICES ASSUME PathProgress, RoutedInvariant, Delivered, NEW esn \in ESNs \ (astray \cup raced),
                      wanted[esn] # Absent, wanted[esn] \cap Unreadable = {}
               PROVE  RoutedFor(esn, wanted[esn])
    BY DEF RoutedAsSettings
  <2>1. configs[esn] = wanted[esn]
    BY DEF PathProgress, PathRule, Delivered
  <2>2. Settled /\ ~unsignalled
    BY DEF Delivered
  <2>3. CASE vendor # 0
    BY <2>1, <2>2, <2>3, RoutesAreConfigured DEF RoutedAsConfigured, Readable
  <2>4. CASE vendor = 0
    <3>1. Configured = {}
      BY <2>2, <2>4, FollowsWhenSettled DEF RoutedInvariant, ServiceInvariant,
         VendorFollowsSettings, Agreed
    <3>2. configs[esn] = {}
      BY <3>1 DEF Configured
    <3>3. MappedTo(esn) = {}
      BY <2>4, NothingMapped DEF RoutedInvariant, ServiceInvariant, Working, TableOfVendor
    <3>4. QED
      BY <2>1, <3>2, <3>3 DEF RoutedFor
  <2>5. QED
    BY <2>3, <2>4
<1>2. QED
  BY <1>1, PathRoutes, PathProgresses, PTL
=============================================================================
