------------------------------ MODULE ANNTStore ------------------------------
(***************************************************************************)
(* From the state machine's result queues to the bridge: the vendor's      *)
(* processStateResults (internal/vendors/seveneleven/seveneleven.go), the  *)
(* store of pending ANNTs (internal/core/annt_store.go) and the requests   *)
(* of the events endpoint (internal/api/handlers.go).                      *)
(*                                                                         *)
(* The store is a Badger database.  Its Update runs a transaction on a     *)
(* snapshot: the commit fails if a key it read was written by a commit     *)
(* since.  A transaction is therefore two steps here, the read and the     *)
(* commit.  DropPrefix is no transaction: a commit under way while it      *)
(* blocks writes fails, one that comes after it does not.                  *)
(*                                                                         *)
(* A key is the camera and the creation time; at numbers the creations.    *)
(* Reads that delete nothing (list and monitoring) change no state.        *)
(***************************************************************************)
EXTENDS Integers, Sequences, FiniteSets, Functions

CONSTANTS
    Registers,      \* registers, each with the goroutine that handles its events
    ESNs,           \* cameras
    Calls,          \* the bridge's concurrent requests
    QueueCap,       \* 50000 in the code
    MaxSize,        \* maxSize: results the database may hold (2 GB in main)
    MaxResults,     \* bound: results created
    MaxIncidents    \* bound: drains, one at a time, and restarts of the container

ASSUME StoreAssumption ==
    /\ QueueCap \in Nat \ {0}
    /\ MaxSize \in Nat /\ MaxResults \in Nat
    /\ MaxIncidents \in Nat

Namespaces == {91, 92}

Item == [at : 1 .. MaxResults, ns : Namespaces, esn : ESNs, register : Registers]

VARIABLES
    made,           \* results created so far
    hand,           \* what each register's goroutine has created and not yet sent
    queue,          \* ns91Queue and ns92Queue
    store,          \* the pending items
    call,           \* the item each request has read
    drain,          \* the drain request: what it has listed and not yet dropped
    maintenance,    \* the maintenance worker
    full,           \* db.Size(), which Badger refreshes once a minute, was at 80%
    fetched,        \* history: the items answered to the bridge, in order
    given,          \* history: the items drains have answered
    drains,
    restarts

vars == <<made, hand, queue, store, call, drain, maintenance, full,
          fetched, given, drains, restarts>>

bounds == <<drains, restarts>>

\* A request that has read nothing has items = {}.
NoCall == [items |-> {}, stale |-> FALSE]
NoDrain == [open |-> FALSE, items |-> {}]
Asleep == [step |-> "sleep", keys |-> {}]
EmptyQueues == [ns \in Namespaces |-> <<>>]

Init ==
    /\ made = 0
    /\ hand = [r \in Registers |-> {}]
    /\ queue = EmptyQueues
    /\ store = {}
    /\ call = [c \in Calls |-> NoCall]
    /\ drain = NoDrain
    /\ maintenance = Asleep
    /\ full = FALSE
    /\ fetched = <<>>
    /\ given = {}
    /\ drains = 0
    /\ restarts = 0

-----------------------------------------------------------------------------
(* The results *)

\* sendToNS91WithESN and sendToNS92WithESN: CreatedAt is taken, and only then
\* is the result sent; a full queue loses it.
Create(r, ns, esn) ==
    /\ made < MaxResults /\ hand[r] = {}
    /\ made' = made + 1
    /\ hand' = [hand EXCEPT ![r] = {[at |-> made', ns |-> ns, esn |-> esn, register |-> r]}]
    /\ UNCHANGED <<queue, store, call, drain, maintenance, full, fetched, given, bounds>>

\* Mutant: the send does not ask for room.
SendAnyway(r) ==
    /\ \E i \in hand[r] : queue' = [queue EXCEPT ![i.ns] = Append(@, i)]
    /\ hand' = [hand EXCEPT ![r] = {}]
    /\ UNCHANGED <<made, store, call, drain, maintenance, full, fetched, given, bounds>>

Send(r) ==
    /\ \E i \in hand[r] :
        queue' = IF Len(queue[i.ns]) < QueueCap THEN [queue EXCEPT ![i.ns] = Append(@, i)]
                 ELSE queue
    /\ hand' = [hand EXCEPT ![r] = {}]
    /\ UNCHANGED <<made, store, call, drain, maintenance, full, fetched, given, bounds>>

\* processStateResults takes from either queue; a result that cannot be
\* converted or stored is logged and lost.
ProcessResult(ns) ==
    /\ queue[ns] # <<>>
    /\ queue' = [queue EXCEPT ![ns] = Tail(@)]
    /\ store' \in {store, store \cup {Head(queue[ns])}}
    /\ UNCHANGED <<made, hand, call, drain, maintenance, full, fetched, given, bounds>>

-----------------------------------------------------------------------------
(* GetANNTStructuresForCamera(cameraid, 1) *)

Pending(esn) == {i \in store : i.esn = esn}

\* Mutant: the iterator runs backwards.
Newest(S) == {i \in S : \A j \in S : i.at >= j.at}

Oldest(S) == {i \in S : \A j \in S : i.at <= j.at}

\* Nothing pending is answered 204 and changes nothing.
Read(c) ==
    /\ call[c] = NoCall
    /\ \E esn \in ESNs :
        /\ Pending(esn) # {}
        /\ call' = [call EXCEPT ![c].items = Oldest(Pending(esn))]
    /\ UNCHANGED <<made, hand, queue, store, drain, maintenance, full, fetched, given, bounds>>

\* Mutant: the keys a request has read are not remembered.
OutdateNone(S, calls) == calls

\* A commit that deletes S: requests that have read one of them cannot commit.
Outdate(S, calls) ==
    [c \in Calls |-> [calls[c] EXCEPT !.stale = @ \/ calls[c].items \cap S # {}]]

\* Mutant: what was read is deleted without asking who else deleted it.
CommitBlind(c) ==
    /\ call[c].items # {}
    /\ store' = store \ call[c].items
    /\ call' = [Outdate(call[c].items, call) EXCEPT ![c] = NoCall]
    /\ \E i \in call[c].items : fetched' = Append(fetched, i)
    /\ UNCHANGED <<made, hand, queue, drain, maintenance, full, given, bounds>>

Commit(c) ==
    /\ call[c].items # {} /\ ~call[c].stale
    /\ store' = store \ call[c].items
    /\ call' = [Outdate(call[c].items, call) EXCEPT ![c] = NoCall]
    /\ \E i \in call[c].items : fetched' = Append(fetched, i)
    /\ UNCHANGED <<made, hand, queue, drain, maintenance, full, given, bounds>>

\* db.Update fails, for a conflict or while writes are blocked: the request is
\* answered 500.
Refuse(c) ==
    /\ call[c].items # {}
    /\ call' = [call EXCEPT ![c] = NoCall]
    /\ UNCHANGED <<made, hand, queue, store, drain, maintenance, full, fetched, given, bounds>>

-----------------------------------------------------------------------------
(* DrainAllANNTs: a read of everything, then DropPrefix, then the answer.   *)
(* What is dropped may be more than what was read.                          *)

\* A read that fails changes nothing.
DrainView ==
    /\ ~drain.open /\ drains + restarts < MaxIncidents
    /\ drains' = drains + 1
    /\ drain' = [open |-> TRUE, items |-> store]
    /\ UNCHANGED <<made, hand, queue, store, call, maintenance, full, fetched, given, restarts>>

\* Mutant: the items are listed and not dropped.
DropNothing ==
    /\ drain.open
    /\ given' = given \cup drain.items
    /\ drain' = NoDrain
    /\ UNCHANGED <<made, hand, queue, store, call, maintenance, full, fetched, bounds>>

DropPrefix ==
    /\ drain.open
    /\ store' = {}
    /\ given' = given \cup drain.items
    /\ drain' = NoDrain
    /\ UNCHANGED <<made, hand, queue, call, maintenance, full, fetched, bounds>>

\* DropPrefix fails part-way: nothing is answered.
DropFails ==
    /\ drain.open
    /\ store' \in SUBSET store
    /\ drain' = NoDrain
    /\ UNCHANGED <<made, hand, queue, call, maintenance, full, fetched, given, bounds>>

-----------------------------------------------------------------------------
(* The maintenance worker: by age, then by size, each a scan and a commit.  *)
(* A transaction that grows too big, or does not commit, deletes a part of  *)
(* the keys, or none.                                                       *)

Delete(next) ==
    /\ \E done \in SUBSET maintenance.keys :
        /\ store' = store \ done
        /\ call' = Outdate(done, call)
    /\ maintenance' = next
    /\ UNCHANGED <<made, hand, queue, drain, full, fetched, given, bounds>>

\* What is older than itemTTL was created up to some moment.
AgeScan ==
    /\ maintenance = Asleep
    /\ \E expired \in 0 .. made :
        maintenance' = [step |-> "age", keys |-> {i \in store : i.at <= expired}]
    /\ UNCHANGED <<made, hand, queue, store, call, drain, full, fetched, given, bounds>>

AgeDelete ==
    /\ maintenance.step = "age"
    /\ Delete([step |-> "aged", keys |-> {}])

\* The size that is compared with the target does not change while the keys are
\* gathered: the target is never reached, and all keys are.
SizeScan ==
    /\ maintenance.step = "aged"
    /\ maintenance' = [step |-> "size", keys |-> IF full THEN store ELSE {}]
    /\ UNCHANGED <<made, hand, queue, store, call, drain, full, fetched, given, bounds>>

SizeDelete ==
    /\ maintenance.step = "size"
    /\ Delete(Asleep)

Maintenance == AgeScan \/ AgeDelete \/ SizeScan \/ SizeDelete

-----------------------------------------------------------------------------
(* The environment *)

Measure ==
    /\ full' = (Cardinality(store) * 100 >= MaxSize * 80)
    /\ full' # full
    /\ UNCHANGED <<made, hand, queue, store, call, drain, maintenance, fetched, given, bounds>>

\* The container stops and starts: the queues and the requests are gone.
Restart ==
    /\ drains + restarts < MaxIncidents
    /\ restarts' = restarts + 1
    /\ hand' = [r \in Registers |-> {}]
    /\ queue' = EmptyQueues
    /\ call' = [c \in Calls |-> NoCall]
    /\ drain' = NoDrain
    /\ maintenance' = Asleep
    /\ UNCHANGED <<made, store, full, fetched, given, drains>>

Next ==
    \/ \E r \in Registers :
        Send(r) \/ \E ns \in Namespaces, esn \in ESNs : Create(r, ns, esn)
    \/ \E ns \in Namespaces : ProcessResult(ns)
    \/ \E c \in Calls : Read(c) \/ Commit(c) \/ Refuse(c)
    \/ DrainView \/ DropPrefix \/ DropFails
    \/ Maintenance
    \/ Measure \/ Restart

Spec == Init /\ [][Next]_vars

-----------------------------------------------------------------------------
(* The mailbox it implements *)

\* On the way to the store.
Upstream == (UNION {hand[r] : r \in Registers})
              \cup (UNION {Range(queue[ns]) : ns \in Namespaces})

\* What requests have read and can still commit: a drain does not take it from
\* them.
InHand == UNION {call[c].items : c \in {c \in Calls : ~call[c].stale}}

Created == {i \in Item : i.at <= made}

\* An item is put in when it is created.
Mail == INSTANCE Mailbox WITH
    Items <- Item, used <- Created, box <- Upstream \cup store,
    held <- InHand, listed <- drain.items

-----------------------------------------------------------------------------
(* Properties *)

TypeOK ==
    /\ made \in 0 .. MaxResults
    /\ hand \in [Registers -> SUBSET Item]
    /\ queue \in [Namespaces -> Seq(Item)]
    /\ \A ns \in Namespaces : Len(queue[ns]) <= QueueCap
    /\ store \subseteq Item
    /\ call \in [Calls -> [items : SUBSET Item, stale : BOOLEAN]]
    /\ drain \in [open : BOOLEAN, items : SUBSET Item]
    /\ maintenance \in [step : {"sleep", "age", "aged", "size"}, keys : SUBSET Item]
    /\ full \in BOOLEAN
    /\ fetched \in Seq(Item) /\ given \subseteq Item
    /\ drains \in Nat /\ restarts \in Nat
    /\ drains + restarts <= MaxIncidents

\* What one register causes reaches its camera in the order it was created,
\* queue by queue and whatever overlaps but a drain: an aggregate never arrives
\* before an older aggregate of its register, nor a line before an older line.
FetchedInOrder ==
    drains = 0 => \A i, j \in DOMAIN fetched :
        i < j /\ fetched[i].register = fetched[j].register
              /\ fetched[i].esn = fetched[j].esn /\ fetched[i].ns = fetched[j].ns
            => fetched[i].at < fetched[j].at

\* A request that is refused for a conflict has lost nothing: what it had read
\* was answered to another request or had been deleted by the maintenance.  One
\* that has no conflict still has its item in the store, if nobody drains it.
ConflictMeansGone ==
    \A c \in Calls : \A i \in call[c].items :
        /\ call[c].stale => i \notin store
        /\ drains = 0 /\ i \notin store => call[c].stale

\* "fetched by bridge = delivered": from its creation on, an item is answered to
\* the bridge once at most, through conflicts, maintenance, drains and restarts.
\* What a drain has answered is out of the store: only a request that had read
\* it before the drop answers it a second time, as the code lets it.
KeepsMailbox == Mail!Spec
=============================================================================
