-------------------------- MODULE RegisterHandlers --------------------------
(***************************************************************************)
(* The handlers of one register address                                    *)
(* (internal/vendors/seveneleven/ingestor.go): HTTP requests find or make  *)
(* the address's handler and put their message in its queue, the handler's *)
(* own goroutine (Process) takes them out, the cleanup loop stops handlers *)
(* that look idle and removes them, and Ingestor.Stop stops them all.      *)
(*                                                                         *)
(* Time is the 15-minute silence that makes a handler idle (LongSilence).  *)
(* lastActivity is "recent" only after an Enqueue: a new handler has the   *)
(* zero time and counts as idle.                                           *)
(***************************************************************************)
EXTENDS Integers, Sequences, FiniteSets, Functions

CONSTANTS
    Requests,       \* the requests, each with one message
    QueueCap        \* 100 in the code

ASSUME HandlersAssumption ==
    /\ IsFiniteSet(Requests)
    /\ QueueCap \in Nat \ {0}

\* Handlers are numbered as they are made, at most one per request; 0 is none.
Handlers == 1 .. Cardinality(Requests)

VARIABLES
    pc,         \* where each request is
    target,     \* the handler it puts its message in
    made,       \* handlers made so far
    stored,     \* the handlers map's entry for the address
    queue,      \* the messages in each handler's channel
    closed,     \* stopChan is closed
    recent,     \* lastActivity is at most 15 minutes ago
    reader,     \* the handler's Process goroutine
    timer,      \* its idle timer has fired
    sweep,      \* the cleanup loop
    stop,       \* Ingestor.Stop
    accepted,   \* history: messages put in a queue, in order
    served,     \* messages given to the state machine, in order
    dropped,    \* messages that found the queue full
    crashed     \* close of a closed channel panics the process

vars == <<pc, target, made, stored, queue, closed, recent, reader, timer,
          sweep, stop, accepted, served, dropped, crashed>>

requestVars == <<pc, target, made>>
messageVars == <<accepted, served, dropped>>
handlerVars == <<queue, closed, recent, reader, timer>>

Idle == [step |-> "sleep", h |-> 0]

Init ==
    /\ pc = [r \in Requests |-> "new"]
    /\ target = [r \in Requests |-> 0]
    /\ made = 0
    /\ stored = 0
    /\ queue = [h \in Handlers |-> <<>>]
    /\ closed = [h \in Handlers |-> FALSE]
    /\ recent = [h \in Handlers |-> FALSE]
    /\ reader = [h \in Handlers |-> "none"]
    /\ timer = [h \in Handlers |-> FALSE]
    /\ sweep = Idle
    /\ stop = Idle
    /\ accepted = <<>>
    /\ served = <<>>
    /\ dropped = {}
    /\ crashed = FALSE

-----------------------------------------------------------------------------
(* rootHandler: getOrCreateHandler(ip).Enqueue(body) *)

Load(r) ==
    /\ ~crashed
    /\ pc[r] = "new" /\ stop.step # "down"
    /\ IF stored # 0
       THEN pc' = [pc EXCEPT ![r] = "enqueue"] /\ target' = [target EXCEPT ![r] = stored]
       ELSE pc' = [pc EXCEPT ![r] = "create"] /\ UNCHANGED target
    /\ UNCHANGED <<made, stored, handlerVars, sweep, stop, messageVars, crashed>>

\* Mutant: a Store in place of LoadOrStore, so that every maker wins.
LoadThenStore(r) ==
    /\ ~crashed
    /\ pc[r] = "create"
    /\ made' = made + 1
    /\ pc' = [pc EXCEPT ![r] = "enqueue"]
    /\ stored' = made'
    /\ target' = [target EXCEPT ![r] = made']
    /\ reader' = [reader EXCEPT ![made'] = "spawned"]
    /\ UNCHANGED <<closed, queue, recent, timer, sweep, stop, messageVars, crashed>>

\* Mutant: the loser starts over, and may make another handler.
LoserStartsOver(r) ==
    /\ ~crashed
    /\ pc[r] = "create"
    /\ made' = made + 1
    /\ pc' = [pc EXCEPT ![r] = IF stored = 0 THEN "enqueue" ELSE "new"]
    /\ target' = [target EXCEPT ![r] = made']
    /\ IF stored = 0
       THEN stored' = made' /\ reader' = [reader EXCEPT ![made'] = "spawned"]
       ELSE UNCHANGED <<stored, reader>>
    /\ UNCHANGED <<closed, queue, recent, timer, sweep, stop, messageVars, crashed>>

\* The request whose handler is stored starts its goroutine; a loser stops the
\* handler it made and uses the one that was there.
LoadOrStore(r) ==
    /\ ~crashed
    /\ pc[r] = "create"
    /\ made' = made + 1
    /\ pc' = [pc EXCEPT ![r] = "enqueue"]
    /\ IF stored = 0
       THEN /\ stored' = made'
            /\ target' = [target EXCEPT ![r] = made']
            /\ reader' = [reader EXCEPT ![made'] = "spawned"]
            /\ UNCHANGED closed
       ELSE /\ target' = [target EXCEPT ![r] = stored]
            /\ closed' = [closed EXCEPT ![made'] = TRUE]
            /\ UNCHANGED <<stored, reader>>
    /\ UNCHANGED <<queue, recent, timer, sweep, stop, messageVars, crashed>>

\* Mutant: a full queue loses its oldest message instead, and says nothing.
EnqueueOverOldest(r) ==
    LET h == target[r]
        kept == IF Len(queue[h]) < QueueCap THEN queue[h] ELSE Tail(queue[h])
    IN  /\ ~crashed
        /\ pc[r] = "enqueue"
        /\ pc' = [pc EXCEPT ![r] = "done"]
        /\ recent' = [recent EXCEPT ![h] = TRUE]
        /\ queue' = [queue EXCEPT ![h] = Append(kept, r)]
        /\ accepted' = Append(accepted, r)
        /\ UNCHANGED <<target, made, stored, closed, reader, timer, sweep, stop,
                       served, dropped, crashed>>

Enqueue(r) ==
    LET h == target[r]
    IN  /\ ~crashed
        /\ pc[r] = "enqueue"
        /\ pc' = [pc EXCEPT ![r] = "done"]
        /\ recent' = [recent EXCEPT ![h] = TRUE]
        /\ IF Len(queue[h]) < QueueCap
           THEN /\ queue' = [queue EXCEPT ![h] = Append(@, r)]
                /\ accepted' = Append(accepted, r)
                /\ UNCHANGED dropped
           ELSE dropped' = dropped \cup {r} /\ UNCHANGED <<queue, accepted>>
        /\ UNCHANGED <<target, made, stored, closed, reader, timer, sweep, stop,
                       served, crashed>>

Request(r) == Load(r) \/ LoadOrStore(r) \/ Enqueue(r)

-----------------------------------------------------------------------------
(* Process: wg.Add, then a select among queue, idle timer and stopChan *)

Begin(h) ==
    /\ ~crashed
    /\ reader[h] = "spawned"
    /\ reader' = [reader EXCEPT ![h] = "running"]
    /\ timer' = [timer EXCEPT ![h] = FALSE]
    /\ UNCHANGED <<requestVars, stored, queue, closed, recent, sweep, stop, messageVars, crashed>>

\* Mutant: the latest message first.
ReceiveLatest(h) ==
    /\ ~crashed
    /\ reader[h] = "running" /\ queue[h] # <<>>
    /\ served' = Append(served, queue[h][Len(queue[h])])
    /\ queue' = [queue EXCEPT ![h] = SubSeq(@, 1, Len(@) - 1)]
    /\ timer' = [timer EXCEPT ![h] = FALSE]
    /\ UNCHANGED <<requestVars, stored, closed, recent, reader, sweep, stop, accepted,
                   dropped, crashed>>

Receive(h) ==
    /\ ~crashed
    /\ reader[h] = "running" /\ queue[h] # <<>>
    /\ served' = Append(served, Head(queue[h]))
    /\ queue' = [queue EXCEPT ![h] = Tail(@)]
    /\ timer' = [timer EXCEPT ![h] = FALSE]
    /\ UNCHANGED <<requestVars, stored, closed, recent, reader, sweep, stop, accepted,
                   dropped, crashed>>

\* Neither exit takes the handler from the map or looks at its queue.
Exit(h) ==
    /\ ~crashed
    /\ reader[h] = "running" /\ (timer[h] \/ closed[h])
    /\ reader' = [reader EXCEPT ![h] = "gone"]
    /\ UNCHANGED <<requestVars, stored, queue, closed, recent, timer, sweep, stop,
                   messageVars, crashed>>

Process(h) == Begin(h) \/ Receive(h) \/ Exit(h)

-----------------------------------------------------------------------------
(* RegisterHandler.Stop: close(stopChan), then wait for a Process that has *)
(* done its wg.Add                                                         *)

Close(h) ==
    IF closed[h] THEN crashed' = TRUE /\ UNCHANGED closed
    ELSE closed' = [closed EXCEPT ![h] = TRUE] /\ UNCHANGED crashed

Waited(h) == reader[h] # "running"

(* The cleanup loop, which nothing ends *)

\* Mutant: a handler whose goroutine has gone is left alone.
SweepSkipsGone ==
    /\ ~crashed
    /\ sweep.step = "sleep" /\ stored # 0
    /\ ~recent[stored] /\ reader[stored] # "gone"
    /\ sweep' = [step |-> "close", h |-> stored]
    /\ UNCHANGED <<requestVars, stored, handlerVars, stop, messageVars, crashed>>

SweepCheck ==
    /\ ~crashed
    /\ sweep.step = "sleep" /\ stored # 0
    /\ ~recent[stored]
    /\ sweep' = [step |-> "close", h |-> stored]
    /\ UNCHANGED <<requestVars, stored, handlerVars, stop, messageVars, crashed>>

SweepClose ==
    /\ ~crashed
    /\ sweep.step = "close"
    /\ Close(sweep.h)
    /\ sweep' = [sweep EXCEPT !.step = "wait"]
    /\ UNCHANGED <<requestVars, stored, queue, recent, reader, timer, stop, messageVars>>

\* Mutant: the handler is stopped and stays in the map.
SweepKeeps ==
    /\ ~crashed
    /\ sweep.step = "wait" /\ Waited(sweep.h)
    /\ sweep' = Idle
    /\ UNCHANGED <<requestVars, stored, handlerVars, stop, messageVars, crashed>>

SweepDelete ==
    /\ ~crashed
    /\ sweep.step = "wait" /\ Waited(sweep.h)
    /\ stored' = 0
    /\ sweep' = Idle
    /\ UNCHANGED <<requestVars, handlerVars, stop, messageVars, crashed>>

Sweep == SweepCheck \/ SweepClose \/ SweepDelete

(* Ingestor.Stop: stop the handlers in the map, keep them there, shut down *)

\* Mutant: Stop empties the map and stops no handler.
StopForgets ==
    /\ ~crashed
    /\ stop.step = "sleep"
    /\ stop' = [step |-> "down", h |-> 0]
    /\ stored' = 0
    /\ UNCHANGED <<requestVars, handlerVars, sweep, messageVars, crashed>>

StopBegin ==
    /\ ~crashed
    /\ stop.step = "sleep"
    /\ stop' = [step |-> IF stored = 0 THEN "down" ELSE "close", h |-> stored]
    /\ UNCHANGED <<requestVars, stored, handlerVars, sweep, messageVars, crashed>>

StopClose ==
    /\ ~crashed
    /\ stop.step = "close"
    /\ Close(stop.h)
    /\ stop' = [stop EXCEPT !.step = "wait"]
    /\ UNCHANGED <<requestVars, stored, queue, recent, reader, timer, sweep, messageVars>>

StopDown ==
    /\ ~crashed
    /\ stop.step = "wait" /\ Waited(stop.h)
    /\ stop' = [stop EXCEPT !.step = "down"]
    /\ UNCHANGED <<requestVars, stored, handlerVars, sweep, messageVars, crashed>>

-----------------------------------------------------------------------------
(* More than 15 minutes without a message: everything that could run in     *)
(* that time has run.                                                       *)

Runnable(h) ==
    \/ reader[h] = "spawned"
    \/ reader[h] = "running" /\ (queue[h] # <<>> \/ closed[h] \/ timer[h])

LongSilence ==
    /\ ~crashed
    /\ \A r \in Requests : pc[r] \in {"new", "done"}
    /\ \A h \in Handlers : ~Runnable(h)
    /\ sweep.step = "sleep" /\ stop.step \in {"sleep", "down"}
    /\ \E h \in Handlers : recent[h]
    /\ recent' = [h \in Handlers |-> FALSE]
    /\ timer' = [h \in Handlers |-> reader[h] = "running"]
    /\ UNCHANGED <<requestVars, stored, queue, closed, reader, sweep, stop, messageVars, crashed>>

StopStep == StopBegin \/ StopClose \/ StopDown

Next ==
    \/ \E r \in Requests : Request(r)
    \/ \E h \in Handlers : Process(h)
    \/ Sweep \/ StopStep \/ LongSilence

Spec == Init /\ [][Next]_vars

\* Started goroutines run, the ticker ticks and time passes; the register owes
\* no request and nobody owes a stop.
FairSpec ==
    /\ Spec
    /\ \A r \in Requests : WF_vars(LoadOrStore(r)) /\ WF_vars(Enqueue(r))
    /\ \A h \in Handlers : WF_vars(Process(h))
    /\ WF_vars(Sweep) /\ WF_vars(StopClose \/ StopDown)
    /\ WF_vars(LongSilence)

-----------------------------------------------------------------------------
(* Properties *)

TypeOK ==
    /\ pc \in [Requests -> {"new", "create", "enqueue", "done"}]
    /\ target \in [Requests -> Handlers \cup {0}]
    /\ made \in 0 .. Cardinality(Requests)
    /\ stored \in 0 .. made
    /\ queue \in [Handlers -> Seq(Requests)]
    /\ closed \in [Handlers -> BOOLEAN]
    /\ recent \in [Handlers -> BOOLEAN]
    /\ reader \in [Handlers -> {"none", "spawned", "running", "gone"}]
    /\ timer \in [Handlers -> BOOLEAN]
    /\ sweep \in [step : {"sleep", "close", "wait"}, h : Handlers \cup {0}]
    /\ stop \in [step : {"sleep", "close", "wait", "down"}, h : Handlers \cup {0}]
    /\ accepted \in Seq(Requests) /\ served \in Seq(Requests)
    /\ dropped \subseteq Requests
    /\ crashed \in BOOLEAN

Reading(h) == reader[h] \in {"spawned", "running"} /\ ~closed[h]

\* However requests race to make the address's handler, and the cleanup loop to
\* take it away, one goroutine at most reads for the register and has not been
\* told to stop: two would give the state machine its events out of order.
OneReader == \A g, h \in Handlers : Reading(g) /\ Reading(h) => g = h

\* A goroutine that reads is its handler's, and that handler is in the map: no
\* reader is left behind that neither the cleanup loop nor Stop would find.
NoReaderLeftBehind == \A h \in Handlers : Reading(h) => stored = h

Overtaken(i, j) ==
    /\ i < j
    /\ \E k \in DOMAIN served : served[k] = accepted[j]
    /\ \A k \in DOMAIN served :
        served[k] = accepted[i] => \E l \in 1 .. k - 1 : served[l] = accepted[j]

\* The register's messages reach the state machine in the order they were
\* accepted, though they may go through several handlers: one that overtakes
\* another shows that one of the two was in the queue of a handler that was
\* told to stop.
ServedInOrder ==
    \A i, j \in DOMAIN accepted :
        Overtaken(i, j) => closed[target[accepted[i]]] \/ closed[target[accepted[j]]]

\* A message is in one queue, or served once, or dropped, from the moment its
\* request is answered.
AnsweredOnce ==
    \A r \in Requests :
        LET queued == {p \in Handlers \X (1 .. QueueCap) :
                            p[2] <= Len(queue[p[1]]) /\ queue[p[1]][p[2]] = r}
            done == {i \in DOMAIN served : served[i] = r}
        IN  Cardinality(queued) + Cardinality(done) + (IF r \in dropped THEN 1 ELSE 0)
              = (IF pc[r] = "done" THEN 1 ELSE 0)

\* A handler is not kept for ever: when the register falls silent the cleanup
\* loop takes its handler away, also one whose goroutine went before it, unless
\* Stop and the cleanup loop have closed its stop channel both.
HandlersReclaimed == <>[](stored = 0) \/ <>crashed

\* The cleanup loop and the requests never close a stop channel twice, whoever
\* made the handler: it takes Ingestor.Stop to panic.
PanicNeedsStop == crashed => stop.step # "sleep"

\* "Converts POS data to ANNTs and sends them": the 200 that
\* answers a request stands for a message that will be processed, unless it
\* found the queue full or the vendor is stopped.
AnsweredIsServed ==
    \A r \in Requests :
        (pc[r] = "done") ~> (r \in Range(served) \cup dropped \/ stop.step # "sleep")
=============================================================================
