----------------------------- MODULE Simulator -----------------------------
(***************************************************************************)
(* The simulator of a vendor in simulation mode                            *)
(* (internal/vendors/seveneleven/simulator.go) and its restart whenever a  *)
(* camera is configured (updateSimulator in seveneleven.go).               *)
(*                                                                         *)
(* Two goroutines configure cameras, as in Configuration: "update" and     *)
(* "replay", which is main's and stops the vendor in the end.  Both read   *)
(* and write v.simulator without a lock, and the goroutine that is started *)
(* for a simulator reads v.simulator again.  A simulator has a poster for  *)
(* each of its addresses, once for each time it was started.               *)
(***************************************************************************)
EXTENDS Integers, Sequences

CONSTANTS
    IPs,            \* register addresses
    MaxUpdates      \* bound: configurations handled

Actors == {"update", "replay"}
Simulators == 1 .. MaxUpdates

VARIABLES
    pc,             \* where each actor is in updateSimulator
    ips,            \* allMappings, as the actor read them
    mapped,         \* the addresses mapped to some camera
    simulator,      \* v.simulator, 0 for nil
    trafficIPs,     \* the addresses of each simulator
    stopped,        \* the simulators that were stopped
    starts,         \* how often each simulator was started
    launched,       \* goroutines that have yet to call Start
    over,           \* the vendor was stopped
    crashed,        \* a goroutine panicked and took the process down
    updates

vars == <<pc, ips, mapped, simulator, trafficIPs, stopped, starts, launched,
          over, crashed, updates>>

simVars == <<simulator, trafficIPs, stopped, starts, launched>>

Init ==
    /\ pc = [a \in Actors |-> "idle"]
    /\ ips = [a \in Actors |-> {}]
    /\ mapped = {}
    /\ simulator = 0
    /\ trafficIPs = <<>>
    /\ stopped = {}
    /\ starts = [s \in Simulators |-> 0]
    /\ launched = 0
    /\ over = FALSE
    /\ crashed = FALSE
    /\ updates = 0

Goto(a, step) == pc' = [pc EXCEPT ![a] = step]

\* What a panic does: the server recovers its own, any other ends the process.
Panic(a) ==
    /\ Goto(a, "idle")
    /\ crashed' = (a = "replay")

-----------------------------------------------------------------------------
(* HandleESNConfiguration and updateSimulator *)

Configure(a) ==
    /\ pc[a] = "idle" /\ ~over /\ updates < MaxUpdates
    /\ updates' = updates + 1
    /\ mapped' \in SUBSET IPs
    /\ Goto(a, "read")
    /\ UNCHANGED <<ips, simVars, over, crashed>>

ReadMappings(a) ==
    /\ pc[a] = "read"
    /\ ips' = [ips EXCEPT ![a] = mapped]
    /\ Goto(a, IF mapped = {} THEN "idle" ELSE "look")
    /\ UNCHANGED <<mapped, simVars, over, crashed, updates>>

LookForSimulator(a) ==
    /\ pc[a] = "look"
    /\ Goto(a, IF simulator = 0 THEN "new" ELSE "stop")
    /\ UNCHANGED <<ips, mapped, simVars, over, crashed, updates>>

StopSimulator(a) ==
    /\ pc[a] = "stop"
    /\ IF simulator = 0
       THEN Panic(a) /\ UNCHANGED stopped
       ELSE /\ stopped' = stopped \cup {simulator}
            /\ Goto(a, "forget")
            /\ UNCHANGED crashed
    /\ UNCHANGED <<ips, mapped, simulator, trafficIPs, starts, launched, over, updates>>

ForgetSimulator(a) ==
    /\ pc[a] = "forget"
    /\ simulator' = 0
    /\ Goto(a, "new")
    /\ UNCHANGED <<ips, mapped, trafficIPs, stopped, starts, launched, over, crashed, updates>>

NewSimulator(a) ==
    /\ pc[a] = "new"
    /\ trafficIPs' = Append(trafficIPs, ips[a])
    /\ simulator' = Len(trafficIPs')
    /\ launched' = launched + 1
    /\ Goto(a, "idle")
    /\ UNCHANGED <<ips, mapped, stopped, starts, over, crashed, updates>>

\* The goroutine starts the simulator that is there when it runs.
Launch ==
    /\ launched > 0
    /\ launched' = launched - 1
    /\ IF simulator = 0
       THEN crashed' = TRUE /\ UNCHANGED starts
       ELSE /\ starts' = IF simulator \in stopped THEN starts
                         ELSE [starts EXCEPT ![simulator] = @ + 1]
            /\ UNCHANGED crashed
    /\ UNCHANGED <<pc, ips, mapped, simulator, trafficIPs, stopped, over, updates>>

\* Vendor.Stop, once no camera has a configuration.
StopVendor ==
    /\ pc["replay"] = "idle" /\ ~over /\ mapped = {}
    /\ over' = TRUE
    /\ stopped' = IF simulator = 0 THEN stopped ELSE stopped \cup {simulator}
    /\ UNCHANGED <<pc, ips, mapped, simulator, trafficIPs, starts, launched, crashed, updates>>

Update(a) ==
    \/ Configure(a) \/ ReadMappings(a) \/ LookForSimulator(a)
    \/ StopSimulator(a) \/ ForgetSimulator(a) \/ NewSimulator(a)

Next ==
    /\ ~crashed
    /\ \/ \E a \in Actors : Update(a)
       \/ Launch \/ StopVendor

Spec == Init /\ [][Next]_vars

-----------------------------------------------------------------------------
(* Properties *)

TypeOK ==
    /\ pc \in [Actors -> {"idle", "read", "look", "stop", "forget", "new"}]
    /\ ips \in [Actors -> SUBSET IPs]
    /\ mapped \subseteq IPs
    /\ trafficIPs \in Seq(SUBSET IPs)
    /\ simulator \in 0 .. Len(trafficIPs)
    /\ stopped \subseteq 1 .. Len(trafficIPs)
    /\ starts \in [Simulators -> Nat]
    /\ launched \in Nat
    /\ over \in BOOLEAN /\ crashed \in BOOLEAN
    /\ updates \in 0 .. MaxUpdates

Running == {s \in 1 .. Len(trafficIPs) : starts[s] > 0 /\ s \notin stopped}

Quiet == launched = 0 /\ ~over /\ \A a \in Actors : pc[a] = "idle"

\* "updateSimulator starts or restarts simulator with all current IP mappings":
\* when all is quiet and something is mapped, one simulator runs, it was
\* started once, and its addresses are those that are mapped.
SimulatesMappings ==
    Quiet /\ mapped # {} =>
        \E s \in Running : Running = {s} /\ starts[s] = 1 /\ trafficIPs[s] = mapped
=============================================================================
