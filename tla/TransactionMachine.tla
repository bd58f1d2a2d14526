------------------------- MODULE TransactionMachine -------------------------
(***************************************************************************)
(* The transaction machine of one register: the IPState that ProcessEvent  *)
(* (internal/vendors/seveneleven/state_machine.go) keeps for one register  *)
(* IP, and the results it offers to the NS91 (aggregate) and NS92          *)
(* (individual event) queues.                                              *)
(*                                                                         *)
(* ProcessEvent holds ipState.mutex from before the two cleanups to its    *)
(* return, so the handling of one event is one action, cleanups included.  *)
(* Registers share only the IP-to-ESN table, whose entry for this register *)
(* is the variable esns; it changes between events.                        *)
(*                                                                         *)
(* A register message is a JSON object with one key: its kind.  Only       *)
(* metaData carries a transaction sequence number, and it may lack one     *)
(* ("MetaNoSeq"); with one it has the store and terminal numbers too.      *)
(* CMD has no value but StartTransaction and EndTransaction.  IsComplete,  *)
(* NS91Sent and EndCMD are written only on the record that the same        *)
(* handler then deletes, so they are not state here.                       *)
(***************************************************************************)
EXTENDS Integers, Sequences, FiniteSets, Functions, Filtering

CONSTANTS
    Seqs,             \* transaction sequence numbers
    NoSeq,            \* the empty sequence number
    NoTx,             \* "not in the ActiveTransactions map"
    ESNs,             \* cameras a register can be mapped to
    DefaultESN,       \* the camera of an unmapped register
    Alphabet,         \* the kinds of message the register sends
    CCEOTTimeout,     \* 10 seconds in the code
    GeneralTimeout,   \* 60 seconds in the code
    UnknownTimeout,   \* 60 seconds in the code
    UnknownWindow,    \* 30 seconds in the code
    MaxTime,          \* bound: the clock stops here
    MaxHeld           \* bound: messages held at once

Kinds == {"Start", "End", "Meta", "MetaNoSeq", "Header", "Cart", "CartEOT",
          "Payment", "Summary", "Footer", "Other"}

ASSUME NamesAssumption ==
    /\ NoSeq \notin Seqs
    /\ DefaultESN \notin ESNs
    /\ Alphabet \subseteq Kinds

ASSUME TimeAssumption ==
    /\ CCEOTTimeout \in Nat \ {0}
    /\ GeneralTimeout \in Nat \ {0}
    /\ UnknownTimeout \in Nat \ {0}
    /\ UnknownWindow \in Nat \ {0}
    /\ MaxTime \in Nat
    /\ MaxHeld \in Nat

NoTime == -1
UInt16 == 65536

Demarcators == {"Start", "End"}
MetaKinds == {"Meta", "MetaNoSeq"}
CartKinds == {"Cart", "CartEOT"}

\* A message the machine keeps, stamped with its arrival.
Item == [kind : Kinds \cup {"StartTriad"}, at : Nat]

Transaction ==
    [cmd : BOOLEAN,                       \* CMD, linked from the pending start
     meta : {"none", "seq", "noseq"},     \* MetaData
     header : BOOLEAN,                    \* TransactionHeader
     triad : BOOLEAN,                     \* HasStartTriad, IndividualNS92Allowed
     other : Seq(Item),                   \* OtherEvents
     pending : Seq(Item),                 \* PendingEventsForAggregation
     cceot : Nat \cup {NoTime},           \* CCEOTTimestamp
     last : Nat,                          \* LastActivity
     counter : 0 .. UInt16 - 1,           \* SeqCounter
     streamed : SUBSET Item]              \* history: the items sent as NS92

ASSUME NoTxAssumption == NoTx \notin Transaction

Group == [key : Nat, events : Seq(Item), last : Nat]

VARIABLES
    now,            \* the clock
    active,         \* ActiveTransactions, NoTx for an absent key
    groups,         \* UnknownEventGroups
    pendingStart,   \* PendingStartTransaction # nil
    lastArrival,    \* IPState.LastActivity
    esns,           \* ipToESNs for this register
    ns91,           \* the aggregates offered by the last step
    ns92            \* the individual events offered by the last step, in order

vars == <<now, active, groups, pendingStart, lastArrival, esns, ns91, ns92>>

Active == {s \in Seqs : active[s] # NoTx}

GroupItems(g) == Range(g.events)
HeldItems == (UNION {Range(active[s].other) : s \in Active})
                \cup (UNION {GroupItems(g) : g \in groups})

-----------------------------------------------------------------------------
(* Routing and the results *)

\* The cameras that get a result: the mapped ones, whose ESNs are taken to be
\* valid, else the default, which stands for InvalidESN as well.
Targets == IF esns = <<>> THEN <<DefaultESN>> ELSE esns

Meaningful(items) ==
    \E i \in DOMAIN items : items[i].kind \in CartKinds \cup {"Payment", "Footer"}

\* The smart status: a good outcome stands only with content or after CCEOT.
FinalStatus(t, status) ==
    IF status = "GOOD" /\ t.cceot = NoTime /\ ~Meaningful(t.other)
    THEN "ABANDONED" ELSE status

\* Mutant: the lines are counted, the start triad and the end are not.
LinesOnly(t) == Len(t.other) % UInt16

\* The aggregate's number leaves room for the start triad and the end.
AggregateNumber(t) == (Len(t.other) + 4) % UInt16

\* An aggregate has one metaData and one header, the transaction's own; those
\* among its events are left out.
LeftOut == MetaKinds \cup {"Header"}

Carried(events) == Filtered(events, {e \in Range(events) : e.kind \notin LeftOut})

Aggregate(s, t, status, esn) ==
    [tx |-> s, esn |-> esn, status |-> FinalStatus(t, status),
     n |-> AggregateNumber(t), events |-> Carried(t.other)]

\* sendToNS91: one aggregate for every camera of the register.
SendToNS91(s, t, status) ==
    {Aggregate(s, t, status, esn) : esn \in Range(Targets)}

NewTransaction(cmd) ==
    [cmd |-> cmd, meta |-> "none", header |-> FALSE, triad |-> FALSE,
     other |-> <<>>, pending |-> <<>>, cceot |-> NoTime, last |-> now,
     counter |-> 1, streamed |-> {}]

\* flushUnknownEventGroup: a fake transaction with no sequence number.
FlushGroup(g) ==
    SendToNS91(NoSeq, [NewTransaction(FALSE) EXCEPT !.other = g.events], "UNKNOWN")

\* sendToNS92 for each of events in turn: every event to every camera, each
\* send taking the next number of the transaction's counter.
SendToNS92(s, t, events) ==
    LET k == Len(Targets)
    IN  [i \in 1 .. Len(events) * k |->
            [tx |-> s, esn |-> Targets[((i - 1) % k) + 1],
             n |-> (t.counter + i - 1) % UInt16,
             event |-> events[((i - 1) \div k) + 1]]]

-----------------------------------------------------------------------------
(* The cleanups every event begins with *)

CCEOTExpired(t) == t.cceot # NoTime /\ now - t.cceot > CCEOTTimeout
IdleExpired(t) == now - t.last > GeneralTimeout

Expired == {s \in Active : CCEOTExpired(active[s]) \/ IdleExpired(active[s])}
\* Mutant: idle transactions are reported but stay in the map.
LiveWithIdle == Active \ {s \in Active : CCEOTExpired(active[s])}

Live == Active \ Expired
\* Mutant: unknown groups have no timeout.
NeverStale == {}

StaleGroups == {g \in groups : now - g.last > UnknownTimeout}

LiveGroups == groups \ StaleGroups

\* Mutant: the general timeout is looked at first.
IdleStatusFirst(t) == IF IdleExpired(t) THEN "ABANDONED" ELSE "GOOD"

TimeoutStatus(t) == IF CCEOTExpired(t) THEN "GOOD" ELSE "ABANDONED"

CleanupReports ==
    (UNION {SendToNS91(s, active[s], TimeoutStatus(active[s])) : s \in Expired})
        \cup (UNION {FlushGroup(g) : g \in StaleGroups})

Abandon(S) == UNION {SendToNS91(s, active[s], "ABANDONED") : s \in S}

\* The most recently active transaction; two never have the same LastActivity.
IsLatest(s) == s \in Live /\ \A r \in Live : active[r].last <= active[s].last

-----------------------------------------------------------------------------
(* Handling an event that belongs to a transaction *)

Skipped == Demarcators \cup MetaKinds \cup {"Header", "Payment", "Summary", "Footer"}

\* Mutant: stamped with the arrival before.
StampedLate(kind) == [kind |-> kind, at |-> lastArrival]

Stamped(kind) == [kind |-> kind, at |-> now]

\* The transaction with the event recorded in it; any event resets the CCEOT
\* timer and a further metaData or header replaces the one before.
Recorded(t, kind) ==
    [t EXCEPT !.last = now,
              !.cceot = IF kind = "CartEOT" THEN now ELSE NoTime,
              !.meta = CASE kind = "Meta" -> "seq"
                         [] kind = "MetaNoSeq" -> "noseq"
                         [] OTHER -> @,
              !.header = @ \/ kind = "Header",
              !.other = IF kind \in MetaKinds \cup {"Header"} THEN @
                        ELSE Append(@, Stamped(kind))]

CompletesTriad(t) == t.cmd /\ t.meta # "none" /\ t.header /\ ~t.triad

\* Mutant: the lines that waited are not released.
OutgoingWithoutWaiting(t, kind) ==
    (IF CompletesTriad(t) THEN <<Stamped("StartTriad")>> ELSE <<>>)
    \o (IF (t.triad \/ CompletesTriad(t)) /\ kind \notin Skipped
        THEN <<Stamped(kind)>> ELSE <<>>)

\* Mutant: with the triad seen, every event releases all lines.
OutgoingRepeats(t, kind) ==
    IF CompletesTriad(t) THEN <<Stamped("StartTriad")>> \o t.other
    ELSE IF t.triad THEN t.other ELSE <<>>

\* What goes out individually: on completion the combined start triad and all
\* that waited for it; then the event itself, unless its kind is skipped.
Outgoing(t, kind) ==
    (IF CompletesTriad(t) THEN <<Stamped("StartTriad")>> \o t.pending ELSE <<>>)
    \o (IF (t.triad \/ CompletesTriad(t)) /\ kind \notin Skipped
        THEN <<Stamped(kind)>> ELSE <<>>)

\* Mutant: the list is released and not cleared.
WaitingKept(t, kind) ==
    IF t.triad \/ CompletesTriad(t) \/ kind \in MetaKinds \cup {"Header"} THEN t.pending
    ELSE Append(t.pending, Stamped(kind))

Waiting(t, kind) ==
    IF CompletesTriad(t) THEN <<>>
    ELSE IF t.triad \/ kind \in MetaKinds \cup {"Header"} THEN t.pending
    ELSE Append(t.pending, Stamped(kind))

Settled(t, kind) ==
    [t EXCEPT !.triad = @ \/ CompletesTriad(t),
              !.pending = Waiting(t, kind),
              !.counter = (@ + Len(Outgoing(t, kind)) * Len(Targets)) % UInt16,
              !.streamed = @ \cup Range(Outgoing(t, kind))]

\* Mutant: the pending start is linked and not cleared.
HandleKeepingStart(s, kind) ==
    LET old == IF s \in Live THEN active[s] ELSE NewTransaction(pendingStart)
        t == Recorded(old, kind)
    IN  /\ active' = [r \in Seqs |-> IF r = s THEN Settled(t, kind)
                                     ELSE IF r \in Live THEN active[r] ELSE NoTx]
        /\ groups' = LiveGroups
        /\ ns91' = CleanupReports
        /\ ns92' = SendToNS92(s, t, Outgoing(t, kind))
        /\ UNCHANGED pendingStart

HandleTransactionEvent(s, kind) ==
    LET old == IF s \in Live THEN active[s] ELSE NewTransaction(pendingStart)
        t == Recorded(old, kind)
    IN  /\ active' = [r \in Seqs |-> IF r = s THEN Settled(t, kind)
                                     ELSE IF r \in Live THEN active[r] ELSE NoTx]
        /\ groups' = LiveGroups
        /\ pendingStart' = (pendingStart /\ s \in Live)
        /\ ns91' = CleanupReports
        /\ ns92' = SendToNS92(s, t, Outgoing(t, kind))

-----------------------------------------------------------------------------
(* Events outside a transaction *)

WindowKey == now \div UnknownWindow

\* The group of the current window, new when there is none.
Extended(kind) ==
    LET same == {g \in LiveGroups : g.key = WindowKey}
        before == IF same = {} THEN <<>> ELSE (CHOOSE g \in same : TRUE).events
    IN  [key |-> WindowKey, events |-> Append(before, Stamped(kind)), last |-> now]

GroupComplete(g) ==
    /\ \E i \in DOMAIN g.events : g.events[i].kind \in MetaKinds
    /\ \E i \in DOMAIN g.events : g.events[i].kind \in CartKinds

\* Mutant: the window's group is copied, not extended.
HandleUnknownCopying(kind) ==
    LET g == Extended(kind)
    IN  /\ active' = [r \in Seqs |-> IF r \in Live THEN active[r] ELSE NoTx]
        /\ groups' = IF GroupComplete(g) THEN LiveGroups ELSE LiveGroups \cup {g}
        /\ ns91' = CleanupReports \cup (IF GroupComplete(g) THEN FlushGroup(g) ELSE {})
        /\ ns92' = <<>>
        /\ UNCHANGED pendingStart

HandleUnknownEvent(kind) ==
    LET g == Extended(kind)
        others == {h \in LiveGroups : h.key # WindowKey}
    IN  /\ active' = [r \in Seqs |-> IF r \in Live THEN active[r] ELSE NoTx]
        /\ groups' = IF GroupComplete(g) THEN others ELSE others \cup {g}
        /\ ns91' = CleanupReports \cup (IF GroupComplete(g) THEN FlushGroup(g) ELSE {})
        /\ ns92' = <<>>
        /\ UNCHANGED pendingStart

-----------------------------------------------------------------------------
(* The demarcators *)

HandleStartTransaction ==
    /\ active' = [r \in Seqs |-> NoTx]
    /\ groups' = LiveGroups
    /\ pendingStart' = TRUE
    /\ ns91' = CleanupReports \cup Abandon(Live)
    /\ ns92' = <<>>

\* With no active transaction the end flushes every unknown group.
EndOutsideTransaction ==
    /\ Live = {}
    /\ active' = [r \in Seqs |-> NoTx]
    /\ groups' = {}
    /\ pendingStart' = FALSE
    /\ ns91' = CleanupReports \cup (UNION {FlushGroup(g) : g \in LiveGroups})
    /\ ns92' = <<>>

\* Mutant: an end command always ends well.
EndAlwaysWell(s) ==
    /\ IsLatest(s)
    /\ active' = [r \in Seqs |-> NoTx]
    /\ groups' = LiveGroups
    /\ pendingStart' = FALSE
    /\ ns91' = CleanupReports \cup Abandon(Live \ {s}) \cup SendToNS91(s, active[s], "GOOD")
    /\ ns92' = <<>>

\* Mutant: the end of a transaction clears the unknown groups too.
EndClearsGroups(s) ==
    /\ IsLatest(s)
    /\ active' = [r \in Seqs |-> NoTx]
    /\ groups' = {}
    /\ pendingStart' = FALSE
    /\ ns91' = CleanupReports
                 \cup Abandon(Live \ {s})
                 \cup SendToNS91(s, active[s],
                        IF active[s].triad THEN "GOOD" ELSE "ABANDONED")
    /\ ns92' = <<>>

\* The latest transaction ends, well if its triad was seen; all others are
\* abandoned and the unknown groups stay.
EndOfTransaction(s) ==
    /\ IsLatest(s)
    /\ active' = [r \in Seqs |-> NoTx]
    /\ groups' = LiveGroups
    /\ pendingStart' = FALSE
    /\ ns91' = CleanupReports
                 \cup Abandon(Live \ {s})
                 \cup SendToNS91(s, active[s],
                        IF active[s].triad THEN "GOOD" ELSE "ABANDONED")
    /\ ns92' = <<>>

HandleEndTransaction == EndOutsideTransaction \/ \E s \in Seqs : EndOfTransaction(s)

-----------------------------------------------------------------------------
(* ProcessEvent.  The clock has nanosecond resolution and the handler holds *)
(* ipState.mutex, so no two events are handled at the same instant.         *)

Arrival(kind) ==
    /\ kind \in Alphabet
    /\ now > lastArrival
    /\ kind \notin Demarcators => Cardinality(HeldItems) < MaxHeld
    /\ lastArrival' = now
    /\ UNCHANGED <<now, esns>>

StartEvent == Arrival("Start") /\ HandleStartTransaction

EndEvent == Arrival("End") /\ HandleEndTransaction

NumberedEvent == \E s \in Seqs : Arrival("Meta") /\ HandleTransactionEvent(s, "Meta")

LinkedEvent ==
    \E kind \in Alphabet \ (Demarcators \cup {"Meta"}), s \in Seqs :
        Arrival(kind) /\ IsLatest(s) /\ HandleTransactionEvent(s, kind)

UnlinkedEvent ==
    \E kind \in Alphabet \ (Demarcators \cup {"Meta"}) :
        Arrival(kind) /\ Live = {} /\ HandleUnknownEvent(kind)

ProcessEvent == StartEvent \/ EndEvent \/ NumberedEvent \/ LinkedEvent \/ UnlinkedEvent

AddIPESNMapping ==
    \E esn \in ESNs :
        /\ esn \notin Range(esns)
        /\ esns' = Append(esns, esn)
        /\ ns91' = {} /\ ns92' = <<>>
        /\ UNCHANGED <<now, active, groups, pendingStart, lastArrival>>

RemoveESNMappings ==
    \E i \in DOMAIN esns :
        /\ esns' = SubSeq(esns, 1, i - 1) \o SubSeq(esns, i + 1, Len(esns))
        /\ ns91' = {} /\ ns92' = <<>>
        /\ UNCHANGED <<now, active, groups, pendingStart, lastArrival>>

\* Time passes with no event: nothing else in the machine has a timer.
Tick ==
    /\ now < MaxTime
    /\ now' = now + 1
    /\ ns91' = {} /\ ns92' = <<>>
    /\ UNCHANGED <<active, groups, pendingStart, lastArrival, esns>>

Init ==
    /\ now = 0
    /\ active = [s \in Seqs |-> NoTx]
    /\ groups = {}
    /\ pendingStart = FALSE
    /\ lastArrival = NoTime
    /\ esns = <<>>
    /\ ns91 = {}
    /\ ns92 = <<>>

Next == ProcessEvent \/ AddIPESNMapping \/ RemoveESNMappings \/ Tick

Spec == Init /\ [][Next]_vars

\* Time does not stop; no message is ever owed by the register.
FairSpec == Spec /\ WF_vars(Tick)
-----------------------------------------------------------------------------
(* Properties *)

TypeOK ==
    /\ now \in Nat
    /\ active \in [Seqs -> Transaction \cup {NoTx}]
    /\ groups \subseteq Group
    /\ pendingStart \in BOOLEAN
    /\ lastArrival \in Nat \cup {NoTime}
    /\ esns \in Seq(ESNs)

\* handleTransactionEvent gives the pending StartTransaction to the first
\* transaction it creates: a start command never marks two transactions, and
\* none is left pending beside an open transaction.  A register session has
\* therefore at most one transaction that streams its lines.
StartMarksOne ==
    /\ pendingStart => Active = {}
    /\ \A r, s \in Active : active[r].cmd /\ active[s].cmd => r = s

\* Lines wait in PendingEventsForAggregation exactly until the start triad is
\* complete: before, every line of the transaction waits and none is streamed;
\* after, none is left behind in the list.
TriadRule(t) ==
    /\ t.triad <=> (t.cmd /\ t.meta # "none" /\ t.header)
    /\ t.triad => t.pending = <<>>
    /\ ~t.triad => t.pending = t.other /\ t.streamed = {}

WaitsForTriad == \A s \in Active : TriadRule(active[s])

\* Every line of a started transaction that individual events are made of has
\* been offered to the NS92 queue, whether it came before the triad or after.
EveryLineStreamed ==
    \A s \in Active : active[s].triad =>
        \A i \in DOMAIN active[s].other :
            active[s].other[i].kind \notin Skipped
                => active[s].other[i] \in active[s].streamed

\* No line is offered twice to the same camera: neither again after the triad
\* released the waiting lines, nor twice in one step.
StreamedOnce ==
    [][/\ \A i \in DOMAIN ns92' :
            ns92'[i].tx \in Live
                => ns92'[i].event \notin active[ns92'[i].tx].streamed
       /\ \A i, j \in DOMAIN ns92' :
            ns92'[i].event = ns92'[j].event /\ ns92'[i].esn = ns92'[j].esn
                => i = j]_vars

OfferedTo(esn) == UNION {Range(a.events) : a \in {b \in ns91 : b.esn = esn}}

\* Conservation: a message the machine holds stays held until the very step
\* that offers it in an aggregate, to every camera of the register; what is
\* offered is not held any more, so none is reported twice, and none is lost but
\* the metaData and headers of a group, which an aggregate leaves out.
NoMessageLost ==
    [][\A esn \in Range(Targets') :
        /\ \A item \in HeldItems :
              item.kind \notin LeftOut => item \in HeldItems' \cup OfferedTo(esn)'
        /\ OfferedTo(esn)' \cap HeldItems' = {}
        /\ \A item \in (OfferedTo(esn)' \cup HeldItems') \ HeldItems : item.at = now]_vars

\* A message is held in one place only.
HeldOnce ==
    /\ \A r, s \in Active : r # s =>
            Range(active[r].other) \cap Range(active[s].other) = {}
    /\ \A s \in Active, g \in groups :
            Range(active[s].other) \cap GroupItems(g) = {}
    /\ \A g, h \in groups : g # h => GroupItems(g) \cap GroupItems(h) = {}

\* With one camera the aggregate's number (len(OtherEvents)+4) is above every
\* number its transaction's individual events used (SeqCounter - 1 and below).
AggregateNumberedLast ==
    \A s \in Active : AggregateNumber(active[s]) > active[s].counter - 1

\* A transaction that ended its cart and was then silent for longer than the
\* CCEOT timeout is reported good by whatever event comes next, also when that
\* event is the StartTransaction that abandons open transactions.
QuietEndIsGood ==
    [][lastArrival' # lastArrival =>
        \A s \in Active : CCEOTExpired(active[s]) =>
            \A esn \in Range(Targets) :
                \E a \in ns91' : /\ a.tx = s /\ a.esn = esn
                                 /\ a.status = "GOOD" /\ a.events = active[s].other]_vars

\* An event never joins a transaction, nor a window, that had already timed
\* out: what was held there leaves in an aggregate before the event is routed.
LateEventStartsAfresh ==
    [][lastArrival' # lastArrival =>
        /\ \A s \in Expired : Range(active[s].other) \cap HeldItems' = {}
        /\ \A g \in StaleGroups : GroupItems(g) \cap HeldItems' = {}]_vars

\* The unknown windows do not pile up: after any event at most as many are kept
\* as can start within the unknown timeout.
WindowsBounded ==
    Cardinality(groups) <= ((UnknownTimeout + UnknownWindow - 1) \div UnknownWindow) + 1

\* "If no other events within 10 seconds -> send NS91 as good transaction": a
\* register that falls silent after the end of its cart is reported.
QuietEndIsReported ==
    \A s \in Seqs : (s \in Active /\ CCEOTExpired(active[s])) ~> s \notin Active

-----------------------------------------------------------------------------
(* The ledger this machine keeps *)

\* The transactions a set of aggregates reports, the cameras forgotten.
ReportsIn(A) == {[tx |-> a.tx, status |-> a.status] : a \in {b \in A : b.tx # NoSeq}}

Started == {s \in Active : active[s].cmd}
Ended == {s \in Active : active[s].cceot # NoTime}

Ledger == INSTANCE TransactionLedger WITH
    open <- Active, armed <- pendingStart, started <- Started,
    ended <- Ended, reported <- ReportsIn(ns91)

\* The machine implements the ledger: every opened transaction is reported in
\* the step that closes it and in no other, with an outcome the ledger allows.
KeepsLedger == Ledger!Spec
=============================================================================
