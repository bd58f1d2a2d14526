# A verification of bridge-pointofsale

bridge-pointofsale takes the events that 7-Eleven point-of-sale registers post,
gathers them into transactions, and hands the results to the bridge as ANNTs:
one NS91 *aggregate* per transaction and NS92 *individual events* for its lines.
A bridge runs one script per camera, which posts the camera's configuration
(the registers it covers) and polls for the camera's results.

This directory holds TLA+ models of that path, the TLC configurations that check
them on small instances, and proofs for every value of the constants. Every definition is translated
from the Go and Lua sources; `PROJECT.json` gives the lines of each.

## The system

| component | state | operations | interacts with |
|---|---|---|---|
| bridge script (`internal/bridge/point_of_sale.lua`) | `Running`, `Subscriptions`, `E.Active`, `E.Curl`, timers | `start`, `stop`, settings callbacks, the polling chain | posts configurations, polls `/events` |
| HTTP API (`internal/api`) | - | `/pos_config`, `/events` (destructive read, drain, list), metrics | calls the settings manager and the store |
| settings manager (`internal/settings/manager.go`) | `esnConfigs`, `activeVendor`, a change channel of one element | `UpdateSettings`, `GetActiveVendor`, `GetAllESNConfigurations` | calls back into the vendor while it holds its lock; wakes main |
| main (`cmd/bridge-pointofsale/main.go`) | `active` | creates the vendor and replays all configurations to it, stops it | reads the manager, sets `active` without a lock |
| vendor (`vendors/seveneleven/seveneleven.go`) | the two result queues, the simulator | `HandleESNConfiguration`, `processStateResults` | changes the IP-to-ESN table, stores results |
| ingestor (`ingestor.go`) | a map from address to handler | requests, `cleanupLoop`, `Stop` | one goroutine per address feeds the state machine |
| state machine (`state_machine.go`) | per address: open transactions, unknown windows, a pending start; the IP-to-ESN table | `ProcessEvent` | offers results to the queues without waiting |
| ANNT store (`internal/core/annt_store.go`) | a Badger database | store, read-and-delete, drain, cleanup by age and size | the vendor writes, the API reads |
| simulator (`simulator.go`) | goroutines that post recorded events | start, stop, restart | only when `MODE` is simulation |
| rate limiter (`rate_limiter.go`) | a sliding window, a circuit breaker | `CanServe`, `RecordSuccess`, `RecordFailure` | nothing calls it |
| audit and application logs, vendor registry, vendor manager, test programs | | | no protocol state; see "What is not modelled" |

What is hard in it:

- **Time that only passes when somebody looks.** The two transaction timeouts and
  the one of unknown windows are evaluated at the start of `ProcessEvent`, so the
  outcome of a transaction depends on which event comes next, and when.
- **Order.** Lines come before or after the *start triad* (start command,
  metaData, header); a start or end command closes several transactions at once.
- **Two writers of one table.** The settings callback and main's replay both
  configure cameras, each in several critical sections.
- **Handlers that come and go.** Requests race to make a handler, a cleanup loop
  and a stop take handlers away, and a handler's own goroutine leaves by itself.
- **Fetched is delivered.** A read deletes what it returns; reads overlap reads,
  drains, cleanups and restarts, and the answer may come too late or to nobody.
- **Posted once.** A camera's configuration is posted when its settings change and
  never again; posts are lost or overtake each other, and the service forgets what
  it knew when its container restarts.
- **A chain of callbacks.** The script lives on timers that start requests and
  requests that start timers; a break in the chain would silence the camera.

Correctness, component by component: every open transaction is reported once, in
the step that closes it, with a justified status, and no message is lost or held
twice (state machine); a camera ends up mapped to exactly the registers it names,
and a vendor runs exactly if it is needed (configuration); one goroutine at most
reads for an address and messages are processed once and in order (ingestor);
results are answered once and in order (store), and sent on unless a fault befell
them (store and script together); polling neither dies nor multiplies (script); a
limited caller is held to the rate and is let in again (rate limiter).
The complete list of hazards, each at its line, is in `PROJECT.json`.

## The modules

    TransactionLedger   <- refines -  TransactionMachine
    Mailbox             <- refines -  ANNTStore
    Mailbox, BridgePoller   combined in   Delivery
    Configuration           extended by   SettingsPath
    Filtering               used by       TransactionMachine, Configuration
    RegisterHandlers, RateLimiter, Simulator   on their own

`XProofs` holds the theorems about `X` and their proofs, `MCX` the instances of
`X` for TLC.

### TransactionMachine, TransactionLedger

`TransactionMachine` is the `IPState` of one register and everything
`ProcessEvent` does to it. `ProcessEvent` holds `ipState.mutex` throughout, so an
event is one action, both cleanups included: `StartEvent`, `EndEvent`,
`NumberedEvent` (metaData with a sequence number), `LinkedEvent` (without one,
joins the latest transaction) and `UnlinkedEvent` (no transaction is open).
`Live` and `LiveGroups` are what the cleanups leave, `CleanupReports` what they
send; each handler works on these.

| code | model |
|---|---|
| `ActiveTransactions` | `active`, a function from `Seqs` with `NoTx` for absent keys |
| `UnknownEventGroups` | `groups`, each with its window key |
| `PendingStartTransaction` | `pendingStart` |
| `IPState.LastActivity` | `lastArrival` |
| `ipToESNs[ip]` | `esns` |
| sends to `ns91Queue`, `ns92Queue` | `ns91`, `ns92`: what the last step offered |

A message is an `Item`: its kind and its arrival, which makes it unique. The
counters are 16 bits wide. `Carried` models that an aggregate leaves out the
metaData and headers among its events, by the loop of `Filtering`: each element of
a list is looked at in turn and appended to a new list if it stays. The removal of
a camera from a register's list (`Without`, in `Configuration`) is the same loop.
`Targets` takes the ESNs in the table to be valid: the filter by `isValidESN` is left
out, and the default camera stands for the fallback to `InvalidESN` as well
(`state_machine.go:257-276`).

Simplifications: no two events of a register are handled in the same nanosecond,
and the wall clock does not step back; metaData with a sequence number has the
store and terminal numbers too; CMD has no values but the two demarcators; a
change of the table falls before or after the handling of an event (in the code
it can fall between two sends of one handler); a processor is always set, as the
vendor sets one before it starts. Whether a queue is full is left to `ANNTStore`.

`TransactionLedger` is the abstract specification: transactions open, are marked
by a start command, and are reported in the step that closes them, with outcomes
it allows. It knows no events, lines, triads or cameras. `TransactionMachine`
instantiates it (`open <- Active`, `started <-` those with `CMD`, `ended <-`
those with a CCEOT timestamp, `reported <-` the aggregates with the cameras
forgotten) and `KeepsLedger` is the refinement.

### Configuration, SettingsPath

`Configuration` is the settings manager, main's vendor goroutine and the vendor's
IP-to-ESN table, with two actors that change the table: `"update"` (inside
`UpdateSettings`, which holds the manager's lock from `BeginUpdate` to
`EndUpdate`) and `"replay"` (main). `Callback` and `Call` are main's closure: it
reads the variable `active` twice without a lock, and `Panic` is a read that finds
half of the value main is assigning, or a second read that finds nil; the HTTP
server recovers it, so that the configuration is stored but not signalled
(`unsignalled`). `Diff`, `Remove`,
`Add` and `Drop` are one step per critical section of the table's mutex. `vendor`
is main's `active`; an actor remembers in `on` the vendor it read, and changes
made through a vendor that is no longer active are out of sight. `token` is the
change channel. `Offers` says which configurations a camera may be given, and
`Unreadable` which registers have an entry that cannot be decoded: the vendor
then ignores the whole configuration, which the manager has stored. An address's
cameras are a list without repetitions, in the order they were added, because
`FirstMapped` (`GetIPESNMappings`) shows only the first: `Diff` therefore does not see
an address of which the camera is a later one, and `RoutedFor` says what is left to
say of cameras that share registers (`Shared`): each has all registers its
configuration names, and beyond them none that is its own. `RoutedExactly` is what the
code is meant to do, and does for cameras that share none.

`SettingsPath` puts the scripts of all cameras and the network in front of it.

| code | model |
|---|---|
| the camera's settings on the bridge | `wanted`, `Absent` without a `point_of_sale` entry |
| `Subscriptions` of each script | `hooks` |
| a `sync_settings` that has yet to run | `due` |
| requests to `/pos_config` on their way | `posts` |

`SyncSettings` posts what the settings say, `SyncFails` is a retrieval that fails,
`LosePost` a post that never arrives, `Deliver` the handler's call of
`UpdateSettings`, and `Restart` a container that comes back empty. `astray` is
history: the cameras whose last settings met one of these, were not noticed, or
went out beside an earlier post.

### RegisterHandlers

One address: `Load`, `LoadOrStore`, `Enqueue` for each request, `Begin`,
`Receive`, `Exit` for each handler's `Process` goroutine, `SweepCheck`,
`SweepClose`, `SweepDelete` for the cleanup loop and `StopBegin`, `StopClose`,
`StopDown` for `Ingestor.Stop`. `Close` of a closed channel sets `crashed`, after
which nothing happens. `wg.Wait` waits only for a goroutine that has done its
`wg.Add` (`Waited`), as `Process` calls `Add` itself. Time is `LongSilence`: more
than fifteen minutes without a message, possible when nothing else can run.
`accepted` and `served` are history: the messages queued and those processed, in
order.

### Mailbox, ANNTStore

`ANNTStore` is the result queues, `processStateResults`, the store and the
requests to the events endpoint. A result is created (its key is its creation
time) and then sent (`Create`, `Send`), in the goroutine of its register. Badger
is external: its `Update` is a read and a commit that fails if a key it read was
written since (`Read`, `Commit`, `Outdate`), or for any other reason, as while writes
are blocked (`Refuse`); `Size` is refreshed now and then (`Measure`). A cleanup by age
may take whatever was created up to some moment (`AgeScan`), so no clock is needed for
`itemTTL`. A restart loses the queues and keeps the store. Only one vendor generation
is modelled: `processStateResults` of a stopped vendor goes on beside its successor's
until its backlog is stored, and what both store may come in another order than
`FetchedInOrder` says.

A drain is `DrainView`, which lists everything stored, and `DropPrefix`, which clears
the store and answers what was listed (`given`), or `DropFails`, which clears a part
and answers nothing. `DropPrefix` conflicts with nothing: a request that has read an
item before it can commit after it and answers the item although the drain has
answered it too; and an item a request answers between the list and the drop is in the
drain's answer as well. These are the only two ways in which an item is given out twice. One drain is under way at a
time: it is a request of a tester.

`Mailbox` is what the store promises: a result is put in once and answered to the
bridge once at most, or discarded; a drain answers what it has listed and takes it
out, and from then on only a request that had read it before answers it
(`GivenIsGone`). `ANNTStore` instantiates it, and `KeepsMailbox` is the refinement:

| `Mailbox` | `ANNTStore` |
|---|---|
| `used`, what was put in | every item with a creation time up to `made`: an item is put in when it is created |
| `box`, what is pending | in a goroutine's hand, in a queue, or stored |
| `held`, what requests have read and may still answer | the items of calls that are not stale |
| `fetched` | the bridge's answers, in order |
| `listed`, `given` | the list of the drain under way, and what drains have answered |

A commit is a fetch; cleanups, lost results and restarts discard; a drain's
`DropPrefix` is the mailbox's `Clear`, which has to take all that was listed and is
still there. A request's item stays held over a drop, as the code lets it.

### BridgePoller, Delivery

`BridgePoller` is the script for one camera. The runtime is external: one callback
at a time, a timer goes off, a request ends in its callback, or may be collected
with its callback once `E.Curl` no longer refers to it (`Collect`).

A request that cannot be made or started is none, and the timer is set again
(`GetEventsFails`, the failed `pcall` of `get_events`).

`Delivery` composes it with the service that answers it, the service's store being
a `Mailbox`: `Ask` is `get_events` with the request the service gets, `AskFails` one
that could not be started, `Serve` the
handler's read, which goes on when the bridge has given up, `Refuse` a read that
fails, `Answer` the callback with the answer in time, `Fail` a callback with an
error or with an item that cannot be sent, `Forget` the collection of a request.
`Arrive` and `Discard` are the mailbox's other operations and `Restart` is the
container's. A read is one step, so nothing is held, and a drain here is one that no
read overlaps: what an overlapping one does is `ANNTStore`'s. `answer` is what is on its way back, `fetched` and `sent` are history.

### RateLimiter

`CanServe` is `Ask` (the circuit), `CleanupRead`, `CleanupStore` and `Check` (the
rate, with `adjustRate`): the limiter's mutex is held throughout, but `cleanup`
reads and writes the window without the window's own mutex, so `RecordInWindow`
of another caller can fall in between. `RecordInWindow` itself is one step: that
`cleanup`'s write can also fall inside the append of `Add` (`rate_limiter.go:127-131`,
`:144-146`), which would bring back entries just removed, is left out. `RecordSuccess` is the health monitor's
part of a success, `RecordFailure` all of a failure. Times are ages, equal beyond
what the code compares them with. What the load calculation comes to is left open
(`Adjusted`). The callers are external, as no code of the service calls the
limiter; they check, then record what came of it.

### Simulator

The goroutine that handles an update and main's both call `updateSimulator`, one
step per read or write of `v.simulator` (`LookForSimulator`, `StopSimulator`,
`ForgetSimulator`, `NewSimulator`); `Launch` is the goroutine that starts the
simulator, `StopVendor` the vendor's stop. `starts` counts how often each
simulator was started: each start adds a poster per address.

## What is checked

| run | module | result |
|---|---|---|
| MCSession | TransactionMachine | passes: `TypeOK`, `StartMarksOne`, `WaitsForTriad`, `EveryLineStreamed`, `AggregateNumberedLast`, `StreamedOnce`, `QuietEndIsGood`, and the refinement `KeepsLedger` |
| MCUnknown | TransactionMachine | passes: `HeldOnce`, `WindowsBounded`, `NoMessageLost`, `LateEventStartsAfresh` |
| MCPath | SettingsPath | passes: `PathTypeOK`, `VendorFollowsSettings`, `RoutedAsConfigured`, `RoutedAsSettings`, `OthersUntouched`, `VendorSettles` |
| MCHandlers | RegisterHandlers | passes: `TypeOK`, `OneReader`, `NoReaderLeftBehind`, `AnsweredOnce`, `ServedInOrder`, `PanicNeedsStop`, `HandlersReclaimed` |
| MCStore | ANNTStore | passes: `TypeOK`, `FetchedInOrder`, `ConflictMeansGone`, and the refinement `KeepsMailbox` |
| MCDelivery | Delivery | passes: `DeliveryTypeOK`, `PollingAlive`, `ChainPerActivation`, `LossNeedsCause`, `SentInOrder`, `PollingStops`, `AllFetched` |
| MCLimiter | RateLimiter | passes: `TypeOK`, `Overshoot`, `CircuitMatchesCount`, `ServesUnlessStuck` |
| MCQuiet | TransactionMachine | violates `QuietEndIsReported`: a register that falls silent after its cart's end is never reported, against the header of `state_machine.go` |
| MCShared | Configuration | violates `RoutedExactly` when two cameras share a register: what a later camera gives up stays mapped to it, as only the first camera of an address is looked at |
| MCReplay | Configuration | violates `ReplayIsCurrent`: a snapshot replaces a configuration posted meanwhile |
| MCHandlersIdle | RegisterHandlers | violates `AnsweredIsServed`: a message is queued at a handler whose goroutine has left, answered 200, and lost |
| MCSimulator | Simulator | violates `SimulatesMappings`: two quick restarts start the later simulator twice |

Each property of a passing run has a mutant: a definition changed the way a
plausible bug would change it, under which TLC finds the property violated. The
mutants stand in the modules, before the definitions they replace.

What the passing runs say, read together, along the path of a message. A register
whose requests race is read by one goroutine, and what is accepted is processed at
most once and in order; only a message left with a handler that was told to stop, or
that went idle, is overtaken or lost (MCHandlers, MCHandlersIdle). The state machine holds every message in one place until it is
reported, sends each line once and only after the triad, and reports each
transaction in the step that closes it, with an outcome the ledger allows
(MCSession, MCUnknown). What is stored is fetched at most once and in order, and a
drain that overlaps a read duplicates no more than that read's item (MCStore); what is fetched is sent on once, unless a fault or a second activation
of polling befell it, and a script that stays active empties the store
(MCDelivery). And which camera gets all this is what the settings say, unless a
named accident befell them, which the next settings make good (MCPath).

Bounds and why they are enough:

- MCSession has two sequence numbers, one camera, seven kinds of message, a CCEOT
  timeout of 1 and a general timeout of 3, and a clock to 7: room for a whole
  session, the other transaction, and either timeout within one behaviour. At
  most one event falls on a tick, as in the code. `MaxHeld` bounds the lines held
  at once to 3, enough for lines before and after the triad in one transaction
  with another open.
- MCUnknown has two cameras, so that every aggregate has two receivers, windows of
  2 with a timeout of 4, so that three windows can be open at once, a clock to 6
  and at most 4 messages held. MCQuiet needs less: a clock to 5.
- MCPath lets one camera move between a register of its own, one that the other
  camera keeps, and none; the other has at times an entry that cannot be read. Either
  camera can be the first of the shared register, and give it up while the other has
  it. Four updates between two restarts allow a vendor to be made, stopped and made
  again with an update during each; five changes of settings and one fault, a script
  that is started, stopped and lost sight of. MCShared and MCReplay have four updates,
  on shared registers and on separate ones.
- MCHandlers has three requests and queues of two: a winner, a loser and one that
  comes after a sweep, or one that finds the queue full.
- MCStore has two registers, two overlapping requests, three results, queues of one
  (so that results are dropped) and one drain or restart; a database of three, so
  that the cleanup by size starts. Two requests can hold one item while a drain lists
  and drops it. Requests and registers are symmetric.
- MCDelivery has three requests in flight, five changes, three items and two
  faults: two activations with chains of both about, an item for each, and a
  late answer beside a restart.
- MCLimiter has two callers, a window of 2, limits from 1 to 3, a threshold of 2
  and three failures, so that a circuit can open, close and open again.
- MCSimulator has two addresses and three updates.

`CHECK_DEADLOCK FALSE` everywhere: a register, a bridge or a client may fall
silent for ever, and the bounds stop the models.

Fairness. `TransactionMachine` assumes only that time goes on, and no fairness of
events: the register owes none. `Configuration` and `SettingsPath` assume weak
fairness of the service's goroutines, with the manager's lock handed on (Go's
mutexes do not starve), that a callback the bridge owes is called, and that a post
that is not lost arrives; nobody owes settings. `RegisterHandlers` assumes that
started goroutines and requests run, that the cleanup's ticker ticks and that time
goes on; nobody owes a request or a stop. `Delivery` assumes that the service
answers what it is asked, that timers go off, and that a request ends in its
callback, at the latest by its timeout (what fails does so a bounded number of
times), or, if nothing refers to it, is collected. `RateLimiter` assumes that
callers ask again and record, and that time passes. `ANNTStore` and `Simulator`
have no liveness properties.

## What is proved

Eight modules hold 48 theorems, each for every value of the constants that
meets the assumptions; TLC evaluates the assumptions in the runs.

| module | theorem | says |
|---|---|---|
| TransactionMachineProofs | `TypeCorrect`, `SessionCorrect` | `[]TypeOK`, `[](StartMarksOne /\ WaitsForTriad)` |
| | `LinesWaitForTriad` | `[]WaitsForTriad` |
| | `LinesStreamed` | `[]EveryLineStreamed` |
| | `NoLineTwice` | `StreamedOnce` |
| | `HeldInOnePlace`, `NothingJoinsLate` | `[]HeldOnce`, `LateEventStartsAfresh` |
| | `WindowsDoNotPileUp` | `[]WindowsBounded` |
| | `MessagesConserved` | `NoMessageLost` |
| | `QuietEndsReportedGood` | `QuietEndIsGood` |
| | `LastWithOneCamera` | `AggregateNumberedLast` wherever the numbers fit a `uint16`, as long as the register has one camera at most |
| | `AggregateIsLast` | `[]AggregateNumberedLast` for one camera and `MaxHeld + 4 < UInt16` |
| | `MachineKeepsLedger` | `KeepsLedger`: the machine implements the ledger |
| FilteringProofs | `FilteredHolds`, `FilteredInjective`, `FilteredAll` | what the loop of `Filtering` leaves: a sequence of the elements that stay, without repetitions if the list had none, and the list itself if all stay |
| RegisterHandlersProofs | `TypeCorrect`, `NoReaderIsLeftBehind`, `OneReads`, `PanicTakesStop` | `[]TypeOK`, `[]NoReaderLeftBehind`, `[]OneReader`, `[]PanicNeedsStop` |
| | `InAcceptedOrder`, `AnsweredIsOnce` | `[]ServedInOrder`, `[]AnsweredOnce` |
| ANNTStoreProofs | `TypeCorrect`, `ConflictLosesNothing`, `AnswersInOrder` | `[]TypeOK`, `[]ConflictMeansGone`, `[]FetchedInOrder` |
| | `StoreImplementsMailbox` | `KeepsMailbox` |
| MailboxProofs | `NothingTwice`, `DrainedIsGone` | `[]FetchedOnce` and `GivenIsGone`, for the mailbox and so for whatever implements it |
| DeliveryProofs | `TypeCorrect`, `PollingSurvives`, `ChainsCounted` | `[]DeliveryTypeOK`, `[]PollingAlive`, `[]ChainPerActivation` |
| | `FetchedIsDelivered`, `SentOnceInOrder` | `[]LossNeedsCause`, `[]SentInOrder` |
| | `DeliveryRunsScript`, `DeliveryUsesMailbox` | the composition implements each of its parts |
| RateLimiterProofs | `TypeCorrect`, `OvershootBounded`, `CircuitFollowsFailures` | `[]TypeOK`, `[]Overshoot`, `[]CircuitMatchesCount` |
| SettingsPathProofs | `ServiceTypeOK`, `PathTypesOK` | `[]TypeOK` of `Configuration`, `[]PathTypeOK` |
| | `ServiceFollowsSettings`, `PathFollowsSettings` | `[]VendorFollowsSettings`, of `Configuration` alone and within `SettingsPath` |
| | `ServiceLeavesOthers`, `PathLeavesOthers` | `OthersUntouched`, of each |
| | `ServiceRoutesAsConfigured`, `PathRoutesAsConfigured` | `[]RoutedAsConfigured`, of each, whatever registers cameras share |
| | `PathRoutesExactly` | `[]RoutedExactly`, for cameras that share no register |
| | `PathRoutesAsSettings` | `[]RoutedAsSettings`, whatever registers cameras share |

Assumptions: the special names differ from the ordinary ones, times and bounds
are natural numbers, and the sets of requests and callers are finite
(`NamesAssumption`, `TimeAssumption`, `NoTxAssumption`, `HandlersAssumption`,
`StoreAssumption`, `PollerAssumption`, `DeliveryAssumption`, `LimiterAssumption`,
`CameraAssumption`, `OffersAssumption`, `UnreadableAssumption`, `BoundAssumption`,
`PathAssumption`). The limiter's also says that it starts at no less than its minimal
rate, and `CameraAssumption` that there is a camera.

Three theorems have hypotheses of their own, because without them what they say is
false. `PathRoutesExactly` has `Apart`: no two cameras are offered one register.
MCShared is the counterexample without it: two cameras that move a shared register
between them can leave it mapped to one that gave it up.
`AggregateIsLast` has one camera, since all cameras of a register share the counter
of the individual events (`state_machine.go:881`) and with several it passes the
aggregate's number; and fewer lines than a `uint16` counts, which the code does not
bound. `LastWithOneCamera` says the same of a behaviour rather than of the constants:
it needs the table to name one camera at most, and makes no use of `MaxHeld`.

The arguments:

- **Sessions.** `SessionInv` is `TypeOK`, `StartMarksOne` and `WaitsForTriad`.
  `StartMarksOne` needs its first part to be inductive: a start command is pending
  only when nothing is open, so the transaction that takes it is the first, and no
  other can have one. `WaitsForTriad` is a property of each record (`TriadRule`):
  recording a message and settling it keeps it, a new transaction has it, and each
  action does this to one record or removes records. `EveryLineStreamed` goes the
  same way with `StreamRule`. The refinement has one step per action: the cleanups
  are the ledger's timed-out transactions, events are `Join`, a start is
  `Interrupt`, an end is `Finish` or `Outside`, and the end of a transaction is
  good only if its triad was complete, hence, by `WaitsForTriad`, only if the start
  command was given to it.
- **Messages.** A message arrives later than everything that is held
  (`HeldBefore`), so it is a new one, and what an action moves it takes from one
  place (`HeldInv`); that nothing late joins what has timed out follows from when
  each record was touched last. `StreamedOnce` needs in addition that the lines of
  a transaction are distinct, that what it has streamed arrived before, and how the
  sends of one step are laid out: row by message, column by camera.
- **Conservation.** The cleanups part what is held into what timed out and what is
  kept (`CleanupParts`); each handler moves a part more (`LiveItems` for a demarcator,
  the completed group for an unknown event) into aggregates, and each of these carries,
  to each camera, the items of its part that are not left out (`AggregateCarries`, by
  `FilteredHolds`). `Conserved` is the common last step: what goes was held, is held no
  more, and is what is offered. An unknown event needs `WindowRule` in addition: the
  group of a window is its only one, or extending one would forget the other.
- **Quiet ends.** A transaction's events hold none of the kinds an aggregate leaves out
  (`NothingToLeaveOut`, inductive by itself), so its aggregate carries all of them
  (`FilteredAll`), and a CCEOT timestamp keeps the good status.
- **Numbers.** Before the triad the counter is 1; after it, with one camera, it is at
  most the number of lines plus two, as every event that is sent is a line or the start
  triad (`NumberRule`, which takes `TriadRule`: what is released is what waited, and
  that is all lines). `HeldBounded` turns the bound on what is held into one on lines,
  which are distinct.
- **Filtering.** A recursive function over the list's positions exists and is unique up
  to each position, by induction; the induction is over numbers, from the
  well-foundedness of `<` (`NumberInduction`).
- **Windows.** Each open window was touched within the timeout, and its key is that
  time divided by the window's length (`WindowRule`); the keys are distinct, so
  there are no more windows than numbers in an interval.
- **Handlers.** A handler that was made is in the map, with the cleanup loop or
  closed, and without a stop the stored one is open unless the cleanup loop has just
  closed it (`ClosedByOwner`): a second close takes the stop. All handlers but the
  stored one are closed (`OneOpen`), and each message is in one place and behind
  those accepted before it (`PlaceRule`, `FirstInFirstOut`).
- **Store.** An item is created once, is on one way (hand, queue, store, fetched or
  gone), and one that a request has read and that is not stale is still stored,
  unless a drain took it (`ReadOnce`, `DrainCounted`); items of a register and
  namespace stay in the order of their keys on that way (`Ordered`).
- **Mailbox.** What was fetched is neither pending nor held, what a drain has given is
  neither pending nor listed, and all of it was put in before (`Inv` of
  `MailboxProofs`), so nothing new is.
- **Delivery.** `Books` accounts for every fetched item, `OneChain` says that while
  polling was started once there is one request at most, whose answer comes after
  all that was sent, and `NoStray` that, without a fault, the service answers nobody
  who has gone.
- **Limiter.** Each caller on its way holds a place, so that recorded and pending
  requests together pass the rate by no more than the other callers; the store
  that follows a cleanup's read never lengthens the window (`StoreShortens`).
- **Configuration.** `activeVendor` covers the configurations at any time and is
  exact when an update has ended as it should (`ManagerKnows`); unless main has yet
  to be told, where main is agrees with it (`MainFollows`). The scripts change only
  what is posted.
- **Routing.** What an actor is to remove, to add and has to drop is tied to the
  configuration it works on (`UpdateAtWork`, `ReplayAtWork`, `SnapshotCurrent`). For
  each actor and camera `Progress` says what the table holds at each step of the work,
  for a camera nobody works for `AtRest` says that it is what the configuration names;
  that one camera's work leaves another's mappings is `OthersUntouched`: a removal
  leaves the other cameras of an address in its list (`FilteredHolds`), which stays
  without repetitions (`FilteredInjective`). An address that nobody shares has one
  camera in its list, hence a first one, so that `Diff` sees it; `Apart` makes all
  addresses such.
  The path adds `PathRule`: unless it is `astray`, a camera's last settings are due, in
  its only post, or configured.

Only model-checked:

- liveness: `VendorSettles`, `HandlersReclaimed`, `PollingStops`, `AllFetched`,
  `ServesUnlessStuck`. Fairness, and with it ENABLED, is beyond the prover. Every other
  property of a passing run is a theorem.
- what the violation runs refute (`QuietEndIsReported`, `AnsweredIsServed`,
  `ReplayIsCurrent`, and `RoutedExactly` of cameras that share a register).
- `Simulator`, whose property does not hold.

No module uses RECURSIVE operators; the one recursive definition, in `Filtering`, is
a function.

## What the modelling showed beside the runs

These follow from the code and the models as they stand and are stated here, not
as runs.

The register's messages:

- Individual events never carry the deterministic UUID of their transaction: the
  metaData is put under `_pos`, where the functions that make it do not look
  (`state_machine.go:945`, `:968`, `:989`).
- A payment, summary or footer that came before the triad is sent individually
  when it completes, one that comes after is not (`state_machine.go:534`, `:549`).
- An unknown window's metaData and headers are in no aggregate
  (`state_machine.go:786`); `NoMessageLost` makes that exception.
- A full result queue drops a result without a word (`state_machine.go:852`), so
  that registers never wait.
- `RegisterHandler.Stop` panics if the cleanup loop and `Ingestor.Stop` both stop
  one handler (`ingestor.go:186`, `:101`, `:264`); `PanicNeedsStop` shows that it
  takes both.
- A request in flight can start a handler after `Ingestor.Stop` has gone through
  the map (`ingestor.go:100-104`): nothing of that vendor will stop it but the
  cleanup loop, which is never ended either.

The results:

- A drain clears what is stored between its read and its `DropPrefix` without
  returning it (`annt_store.go:208`, `:241`). An item that a request answers between
  the two, or had read before the drop, is answered twice, to the bridge and by the
  drain; `GivenIsGone` shows that no other item is.
- The cleanup by size gathers every key there is: the size it compares with its
  target does not change while it looks (`annt_store.go:346`).
- A second polling chain, started when settings go and come back within a poll,
  can lose an item to the collector and send two in the wrong order
  (`point_of_sale.lua:196`); `LossNeedsCause` and `SentInOrder` make that exception.

The settings:

- Settings from which `point_of_sale` was removed are not posted
  (`point_of_sale.lua:153-158`): the registers stay mapped to the camera. Only an
  entry without registers removes them; `RoutedAsSettings` says nothing of absent
  entries.
- A post's `EENCurl` object is a local and may be collected before it is done, and
  posts are not repeated (`point_of_sale.lua:166`); after a restart of the
  container the service has no configuration until some camera's settings change.
- A callback that runs into main's assignment of `active` panics; the configuration
  is stored and the change is not signalled (`main.go:43`).
- An entry that cannot be decoded leaves the camera's earlier mapping in place
  (`seveneleven.go:157`).
- A stopped script keeps the camera-on hook and can be made active again by it
  (`point_of_sale.lua:272-280`).

The rate limiter and the simulator:

- A window that is full of old entries only is never cleaned: nobody is served
  again (`rate_limiter.go:137`). `ServesUnlessStuck` shows that nothing else stops
  a caller that keeps asking.
- A half-open circuit admits everybody; failures accumulate across successes while
  the circuit is closed; a cleanup can overwrite a success recorded meanwhile.
- The goroutine that starts a simulator may find `v.simulator` nil
  (`seveneleven.go:474`), which ends the process, and a simulator started as the
  vendor stops goes on. An empty mapping leaves the old simulator running.
  `esnToRegisterFile` is read without its mutex (`seveneleven.go:450`).

## What is not modelled

- The processor: a stateless conversion of a result to the ANNT layout. Kind,
  number, status and camera, which the properties are about, are in
  `TransactionMachine`.
- The audit log, the application log and the data directory: file I/O with almost
  no state. The vendor registry: a map filled at start-up. `vendor_manager.go`:
  unused by the program. Metrics, health and monitoring, the list of pending
  results: they only read. The test programs and scripts.
- Of the simulator, the choice of a recording and the lines it posts; of a request,
  its HTTP checks and the log of incoming data; of main, the shutdown by a signal,
  after which nothing is left but a restart. A vendor's creation cannot fail in
  this code, so it does not in the model.
- The limiter's load calculation and its statistics.
- Torn slice headers: `esnToRegisterFile` and other values read without a lock,
  except `active`, are read whole.

## Plan

The path was modelled in the order of its importance: the state machine, the
configuration, the ingestor and the store, the script; then the compositions
(`Delivery`, `SettingsPath`), the abstract mailbox, the rate limiter and the
simulator; each with its proofs once TLC agreed. What is left out is listed above
with its reason. If the code changes, this is where to begin: a limiter that is
called needs its callers modelled, and a cleanup of idle handlers in `Process`, or
a timer for the two transaction timeouts, turns MCHandlersIdle and MCQuiet into
passing runs.

## Running it

    tlc -config MCSession.cfg MCTransactionMachine
    tlapm TransactionMachineProofs.tla

Each configuration runs in less than five minutes with two workers. The longest proofs
are those of the machine, the handlers and the store.
