----------------------- MODULE RegisterHandlersProofs -----------------------
(* Proofs about RegisterHandlers, for any finite set of requests and any     *)
(* queue size.                                                               *)
EXTENDS RegisterHandlers, FiniteSetTheorems, TLAPS

\* The requests that have found or made their handler.
Placed == {r \in Requests : pc[r] \in {"enqueue", "done"}}

\* Each handler was made by a request of its own, which then has one.
MadeByPlaced == made <= Cardinality(Placed)

\* The cleanup loop works on the handler in the map, and nobody else takes that
\* away meanwhile; before it deletes the handler it has told it to stop.
SweepHoldsStored ==
    /\ sweep.step # "sleep" => sweep.h = stored /\ stored # 0
    /\ sweep.step = "wait" => closed[stored]

\* A handler nobody has made has not been told to stop; the one in the map only
\* by the cleanup loop or by Stop.
ClosedByOwner ==
    /\ \A h \in Handlers : h > made => ~closed[h]
    /\ stop.step = "sleep" /\ stored # 0 /\ sweep.step # "wait" => ~closed[stored]
    /\ stop.step = "close" => stop.h <= made

Inv ==
    /\ TypeOK
    /\ MadeByPlaced
    /\ NoReaderLeftBehind
    /\ SweepHoldsStored
    /\ ClosedByOwner
    /\ PanicNeedsStop

-----------------------------------------------------------------------------
(* Counting *)

\* There are as many handler numbers as requests.
LEMMA RequestsCounted == Cardinality(Requests) \in Nat
BY HandlersAssumption, FS_CardinalityType

\* A request that has yet to find its handler leaves a number for a new one.
LEMMA RoomForOne ==
    ASSUME MadeByPlaced, made \in Nat, NEW r \in Requests, r \notin Placed
    PROVE  made + 1 \in Handlers
<1>1. IsFiniteSet(Placed) /\ IsFiniteSet(Requests)
  BY HandlersAssumption, FS_Subset DEF Placed
<1>2. Placed \subseteq Requests \ {r}
  BY DEF Placed
<1>3. IsFiniteSet(Requests \ {r})
      /\ Cardinality(Requests \ {r}) = Cardinality(Requests) - 1
  BY <1>1, FS_RemoveElement
<1>4. Cardinality(Placed) <= Cardinality(Requests \ {r})
  BY <1>2, <1>3, FS_Subset
<1>5. Cardinality(Placed) \in Nat
  BY <1>1, FS_CardinalityType
<1>6. QED
  BY <1>3, <1>4, <1>5, RequestsCounted DEF MadeByPlaced, Handlers

\* A request that finds its handler is one more; one that goes on is still there.
LEMMA PlacedGrows ==
    ASSUME TypeOK, MadeByPlaced, NEW r \in Requests, NEW step \in {"enqueue", "done"},
           pc' = [pc EXCEPT ![r] = step], made' = made
    PROVE  MadeByPlaced'
<1>1. IsFiniteSet(Placed)
  BY HandlersAssumption, FS_Subset DEF Placed
<1>2. Placed' = Placed \cup {r}
  BY DEF Placed, TypeOK
<1>3. IsFiniteSet(Placed \cup {r})
  BY <1>1, FS_AddElement
<1>4. Cardinality(Placed) <= Cardinality(Placed \cup {r})
  BY <1>3, FS_Subset
<1>5. Cardinality(Placed) \in Nat /\ Cardinality(Placed \cup {r}) \in Nat
  BY <1>1, <1>3, FS_CardinalityType
<1>6. made \in Nat
  BY RequestsCounted DEF TypeOK
<1>7. made <= Cardinality(Placed \cup {r})
  BY <1>4, <1>5, <1>6 DEF MadeByPlaced
<1>8. QED
  BY <1>2, <1>7 DEF MadeByPlaced

-----------------------------------------------------------------------------
(* The requests *)

LEMMA InitInv == Init => Inv
<1> SUFFICES ASSUME Init PROVE Inv
  OBVIOUS
<1>1. Placed = {}
  BY DEF Init, Placed
<1>2. MadeByPlaced
  BY <1>1, FS_EmptySet DEF MadeByPlaced, Init
<1>3. TypeOK
  <2>1. made \in 0 .. Cardinality(Requests) /\ stored \in 0 .. made
    BY RequestsCounted DEF Init
  <2>2. sweep \in [step : {"sleep", "close", "wait"}, h : Handlers \cup {0}]
        /\ stop \in [step : {"sleep", "close", "wait", "down"}, h : Handlers \cup {0}]
    BY DEF Init, Idle
  <2>3. queue \in [Handlers -> Seq(Requests)] /\ accepted \in Seq(Requests)
        /\ served \in Seq(Requests)
    BY DEF Init
  <2>4. QED
    BY <2>1, <2>2, <2>3 DEF Init, TypeOK
<1>4. QED
  BY <1>2, <1>3 DEF Init, Inv, NoReaderLeftBehind, Reading, SweepHoldsStored,
                    ClosedByOwner, PanicNeedsStop, Idle

\* A request that finds a handler takes it, one that does not will make one.
LEMMA LoadInv == ASSUME Inv, NEW r \in Requests, Load(r) PROVE Inv'
<1>1. TypeOK'
  <2>1. pc' \in [Requests -> {"new", "create", "enqueue", "done"}]
    BY DEF Inv, TypeOK, Load
  <2>2. stored \in Handlers \cup {0}
    BY RequestsCounted DEF Inv, TypeOK, Handlers
  <2>3. target' \in [Requests -> Handlers \cup {0}]
    BY <2>2 DEF Inv, TypeOK, Load
  <2>4. UNCHANGED <<made, stored, handlerVars, sweep, stop, messageVars, crashed>>
    BY DEF Load
  <2>5. QED
    BY <2>1, <2>3, <2>4 DEF Inv, TypeOK, handlerVars, messageVars
<1>2. MadeByPlaced'
  <2>1. CASE stored # 0
    BY <2>1, PlacedGrows DEF Inv, Load
  <2>2. CASE stored = 0
    <3>1. Placed' = Placed
      BY <2>2 DEF Load, Placed, Inv, TypeOK
    <3>2. QED
      BY <3>1 DEF Inv, Load, MadeByPlaced
  <2>3. QED
    BY <2>1, <2>2
<1>3. QED
  BY <1>1, <1>2 DEF Inv, Load, handlerVars, NoReaderLeftBehind, Reading,
                    SweepHoldsStored, ClosedByOwner, PanicNeedsStop

\* Of those that make a handler one is stored, and only that one is read; the
\* others are told to stop before anybody has seen them.
LEMMA LoadOrStoreInv == ASSUME Inv, NEW r \in Requests, LoadOrStore(r) PROVE Inv'
<1>1. made' \in Handlers /\ made' = made + 1 /\ made \in Nat
  <2>1. made \in Nat
    BY RequestsCounted DEF Inv, TypeOK
  <2>2. r \notin Placed
    BY DEF LoadOrStore, Placed
  <2>3. QED
    BY <2>1, <2>2, RoomForOne DEF Inv, LoadOrStore
<1>2. MadeByPlaced'
  <2>1. IsFiniteSet(Placed) /\ r \notin Placed
    BY HandlersAssumption, FS_Subset DEF Placed, LoadOrStore
  <2>2. Placed' = Placed \cup {r}
    BY DEF LoadOrStore, Placed, Inv, TypeOK
  <2>3. Cardinality(Placed') = Cardinality(Placed) + 1
    BY <2>1, <2>2, FS_AddElement
  <2>4. QED
    BY <1>1, <2>1, <2>3, FS_CardinalityType DEF Inv, MadeByPlaced
<1>3. TypeOK'
  <2>1. pc' \in [Requests -> {"new", "create", "enqueue", "done"}]
    BY DEF Inv, TypeOK, LoadOrStore
  <2>2. made' \in 0 .. Cardinality(Requests) /\ stored' \in 0 .. made'
    BY <1>1, RequestsCounted DEF Inv, TypeOK, LoadOrStore, Handlers
  <2>3. stored \in Handlers \cup {0}
    BY RequestsCounted DEF Inv, TypeOK, Handlers
  <2>4. target' \in [Requests -> Handlers \cup {0}]
    BY <1>1, <2>3 DEF Inv, TypeOK, LoadOrStore
  <2>5. closed' \in [Handlers -> BOOLEAN]
        /\ reader' \in [Handlers -> {"none", "spawned", "running", "gone"}]
    BY <1>1 DEF Inv, TypeOK, LoadOrStore
  <2>6. UNCHANGED <<queue, recent, timer, sweep, stop, messageVars, crashed>>
    BY DEF LoadOrStore
  <2>7. QED
    BY <2>1, <2>2, <2>4, <2>5, <2>6 DEF Inv, TypeOK, messageVars
<1>4. CASE stored = 0
  <2>1. stored' = made' /\ reader' = [reader EXCEPT ![made'] = "spawned"]
        /\ UNCHANGED <<closed, sweep, stop, crashed>>
    BY <1>4 DEF LoadOrStore
  <2>2. \A h \in Handlers : ~Reading(h)
    BY <1>4 DEF Inv, NoReaderLeftBehind, Handlers
  <2>3. NoReaderLeftBehind'
    BY <1>1, <2>1, <2>2 DEF NoReaderLeftBehind, Reading, Inv, TypeOK
  <2>4. sweep.step = "sleep"
    BY <1>4 DEF Inv, SweepHoldsStored
  <2>5. SweepHoldsStored'
    BY <2>1, <2>4 DEF SweepHoldsStored
  <2>6. ~closed[made']
    BY <1>1 DEF Inv, ClosedByOwner
  <2>7. ClosedByOwner'
    <3>1. \A h \in Handlers : h > made' => ~closed'[h]
      BY <1>1, <2>1 DEF Inv, ClosedByOwner, Handlers
    <3>2. stop'.step = "close" => stop'.h <= made'
      <4>1. stop.h \in Nat
        BY DEF Inv, TypeOK, Handlers
      <4>2. QED
        BY <1>1, <2>1, <4>1 DEF Inv, ClosedByOwner
    <3>3. QED
      BY <2>1, <2>6, <3>1, <3>2 DEF ClosedByOwner
  <2>8. QED
    BY <1>2, <1>3, <2>1, <2>3, <2>5, <2>7 DEF Inv, PanicNeedsStop
<1>5. CASE stored # 0
  <2>1. closed' = [closed EXCEPT ![made'] = TRUE]
        /\ UNCHANGED <<stored, reader, sweep, stop, crashed>>
    BY <1>5 DEF LoadOrStore
  <2>2. stored \in Nat /\ stored <= made /\ stored # made'
    BY <1>1 DEF Inv, TypeOK
  <2>3. closed'[stored] = closed[stored]
    BY <2>1, <2>2, <1>1, <1>5, RequestsCounted DEF Inv, TypeOK, Handlers
  <2>4. NoReaderLeftBehind'
    BY <2>1 DEF Inv, TypeOK, NoReaderLeftBehind, Reading
  <2>5. SweepHoldsStored'
    BY <2>1, <2>3 DEF Inv, SweepHoldsStored
  <2>6. ClosedByOwner'
    <3>1. \A h \in Handlers : h > made' => ~closed'[h]
      BY <1>1, <2>1 DEF Inv, TypeOK, ClosedByOwner, Handlers
    <3>2. stop'.step = "close" => stop'.h <= made'
      <4>1. stop.h \in Nat
        BY DEF Inv, TypeOK, Handlers
      <4>2. QED
        BY <1>1, <2>1, <4>1 DEF Inv, ClosedByOwner
    <3>3. QED
      BY <2>1, <2>3, <3>1, <3>2 DEF Inv, ClosedByOwner
  <2>7. QED
    BY <1>2, <1>3, <2>1, <2>4, <2>5, <2>6 DEF Inv, PanicNeedsStop
<1>6. QED
  BY <1>4, <1>5

LEMMA EnqueueInv == ASSUME Inv, NEW r \in Requests, Enqueue(r) PROVE Inv'
<1>1. MadeByPlaced'
  BY PlacedGrows DEF Inv, Enqueue
<1>2. pc' \in [Requests -> {"new", "create", "enqueue", "done"}]
  BY DEF Inv, TypeOK, Enqueue
<1>3. recent' \in [Handlers -> BOOLEAN]
  BY DEF Inv, TypeOK, Enqueue
<1>4. queue' \in [Handlers -> Seq(Requests)] /\ accepted' \in Seq(Requests)
      /\ dropped' \subseteq Requests
  <2>1. Append(accepted, r) \in Seq(Requests)
    BY DEF Inv, TypeOK
  <2>2. \A h \in Handlers : Append(queue[h], r) \in Seq(Requests)
    BY DEF Inv, TypeOK
  <2>3. [queue EXCEPT ![target[r]] = Append(@, r)] \in [Handlers -> Seq(Requests)]
    BY <2>2 DEF Inv, TypeOK
  <2>4. \/ /\ queue' = queue
           /\ accepted' = accepted /\ dropped' = dropped \cup {r}
        \/ /\ queue' = [queue EXCEPT ![target[r]] = Append(@, r)]
           /\ accepted' = Append(accepted, r) /\ dropped' = dropped
    BY DEF Enqueue
  <2>5. QED
    BY <2>1, <2>3, <2>4 DEF Inv, TypeOK
<1>5. UNCHANGED <<target, made, stored, closed, reader, timer, sweep, stop,
                  served, crashed>>
  BY DEF Enqueue
<1>6. TypeOK'
  BY <1>2, <1>3, <1>4, <1>5 DEF Inv, TypeOK
<1>7. QED
  BY <1>1, <1>5, <1>6 DEF Inv, NoReaderLeftBehind, Reading, SweepHoldsStored,
                          ClosedByOwner, PanicNeedsStop

-----------------------------------------------------------------------------
(* The handlers' goroutines and a long silence *)

\* Process does not move handlers, and reads no more than it read before.
LEMMA ProcessInv == ASSUME Inv, NEW h \in Handlers, Process(h) PROVE Inv'
<1>1. UNCHANGED <<pc, target, made, stored, closed, recent, sweep, stop, crashed>>
  BY DEF Process, Begin, Receive, Exit, requestVars
<1>2. reader' \in [Handlers -> {"none", "spawned", "running", "gone"}]
      /\ \A g \in Handlers : Reading(g)' => Reading(g)
  BY <1>1 DEF Inv, TypeOK, Process, Begin, Receive, Exit, Reading
<1>3. queue' \in [Handlers -> Seq(Requests)] /\ served' \in Seq(Requests)
      /\ timer' \in [Handlers -> BOOLEAN] /\ UNCHANGED <<accepted, dropped>>
  <2>1. CASE Begin(h) \/ Exit(h)
    BY <2>1 DEF Inv, TypeOK, Begin, Exit, messageVars
  <2>2. CASE Receive(h)
    <3>1. queue[h] \in Seq(Requests) /\ queue[h] # <<>>
      BY <2>2 DEF Receive, Inv, TypeOK
    <3>2. Head(queue[h]) \in Requests /\ Tail(queue[h]) \in Seq(Requests)
      BY <3>1
    <3>3. QED
      BY <2>2, <3>2 DEF Receive, Inv, TypeOK
  <2>3. QED
    BY <2>1, <2>2 DEF Process
<1>4. TypeOK'
  BY <1>1, <1>2, <1>3 DEF Inv, TypeOK
<1>5. MadeByPlaced'
  BY <1>1 DEF Inv, MadeByPlaced, Placed
<1>6. QED
  BY <1>1, <1>2, <1>4, <1>5 DEF Inv, NoReaderLeftBehind, SweepHoldsStored,
                                ClosedByOwner, PanicNeedsStop

LEMMA LongSilenceInv == ASSUME Inv, LongSilence PROVE Inv'
<1>1. TypeOK'
  BY DEF Inv, TypeOK, LongSilence, requestVars, messageVars
<1>2. MadeByPlaced'
  BY DEF Inv, LongSilence, requestVars, MadeByPlaced, Placed
<1>3. QED
  BY <1>1, <1>2 DEF Inv, LongSilence, requestVars, NoReaderLeftBehind, Reading,
                    SweepHoldsStored, ClosedByOwner, PanicNeedsStop

-----------------------------------------------------------------------------
(* The cleanup loop and Ingestor.Stop *)

\* The cleanup loop closes the handler in the map, once unless Stop did, and
\* takes it away when nothing reads for it.
LEMMA SweepInv == ASSUME Inv, Sweep PROVE Inv'
<1>1. UNCHANGED <<requestVars, queue, recent, reader, timer, stop, messageVars>>
  BY DEF Sweep, SweepCheck, SweepClose, SweepDelete, handlerVars
<1>2. MadeByPlaced'
  BY <1>1 DEF Inv, requestVars, MadeByPlaced, Placed
<1>3. stored \in Nat /\ stored <= made /\ (stored # 0 => stored \in Handlers)
  BY RequestsCounted DEF Inv, TypeOK, Handlers
<1>4. CASE SweepCheck
  <2>1. TypeOK'
    BY <1>3, <1>4 DEF Inv, TypeOK, SweepCheck, requestVars, handlerVars, messageVars
  <2>2. QED
    BY <1>2, <1>4, <2>1 DEF Inv, SweepCheck, requestVars, handlerVars, NoReaderLeftBehind,
         Reading, SweepHoldsStored, ClosedByOwner, PanicNeedsStop
<1>5. CASE SweepClose
  <2>1. sweep.h = stored /\ stored \in Handlers /\ sweep.step = "close"
    BY <1>3, <1>5 DEF SweepClose, Inv, SweepHoldsStored
  <2>2. sweep' = [step |-> "wait", h |-> stored] /\ stored' = stored
    BY <1>5, <2>1 DEF SweepClose, Inv, TypeOK
  <2>3. CASE closed[stored]
    <3>1. crashed' = TRUE /\ closed' = closed
      BY <1>5, <2>1, <2>3 DEF SweepClose, Close
    <3>2. stop.step # "sleep"
      BY <2>1, <2>3 DEF Inv, ClosedByOwner, Handlers
    <3>3. TypeOK'
      BY <1>1, <2>1, <2>2, <3>1 DEF Inv, TypeOK, requestVars, messageVars
    <3>4. QED
      BY <1>1, <1>2, <2>1, <2>2, <2>3, <3>1, <3>2, <3>3 DEF Inv, requestVars, NoReaderLeftBehind,
           Reading, SweepHoldsStored, ClosedByOwner, PanicNeedsStop, Handlers
  <2>4. CASE ~closed[stored]
    <3>1. closed' = [closed EXCEPT ![stored] = TRUE] /\ crashed' = crashed
      BY <1>5, <2>1, <2>4 DEF SweepClose, Close
    <3>2. TypeOK'
      BY <1>1, <2>1, <2>2, <3>1 DEF Inv, TypeOK, requestVars, messageVars
    <3>3. NoReaderLeftBehind'
      BY <1>1, <2>2, <3>1 DEF Inv, TypeOK, NoReaderLeftBehind, Reading
    <3>4. SweepHoldsStored' /\ PanicNeedsStop'
      BY <1>1, <2>1, <2>2, <3>1 DEF Inv, TypeOK, SweepHoldsStored, Handlers, PanicNeedsStop
    <3>5. ClosedByOwner'
      BY <1>1, <1>3, <2>2, <3>1 DEF Inv, TypeOK, requestVars, ClosedByOwner, Handlers
    <3>6. QED
      BY <1>2, <3>2, <3>3, <3>4, <3>5 DEF Inv
  <2>5. QED
    BY <2>3, <2>4
<1>6. CASE SweepDelete
  <2>1. stored' = 0 /\ sweep' = Idle /\ UNCHANGED <<closed, crashed>>
    BY <1>6 DEF SweepDelete, handlerVars
  <2>2. closed[stored]
    BY <1>6 DEF SweepDelete, Inv, SweepHoldsStored
  <2>3. \A h \in Handlers : ~Reading(h)
    BY <2>2 DEF Inv, NoReaderLeftBehind, Reading
  <2>4. TypeOK'
    BY <1>1, <1>3, <2>1, RequestsCounted DEF Inv, TypeOK, requestVars, messageVars, Idle
  <2>5. QED
    BY <1>1, <1>2, <2>1, <2>3, <2>4 DEF Inv, requestVars, NoReaderLeftBehind, Reading,
         SweepHoldsStored, ClosedByOwner, PanicNeedsStop, Idle
<1>7. QED
  BY <1>4, <1>5, <1>6 DEF Sweep

\* Stop closes what it found in the map and leaves it there.
LEMMA StopInv == ASSUME Inv, StopStep PROVE Inv'
<1>1. UNCHANGED <<requestVars, stored, queue, recent, reader, timer, sweep, messageVars>>
  BY DEF StopStep, StopBegin, StopClose, StopDown, handlerVars
<1>2. MadeByPlaced'
  BY <1>1 DEF Inv, requestVars, MadeByPlaced, Placed
<1>3. stored \in Nat /\ stored <= made /\ (stored # 0 => stored \in Handlers)
  BY RequestsCounted DEF Inv, TypeOK, Handlers
<1>4. /\ stop'.step # "sleep"
      /\ stop'.step = "close" => stop'.h = stored
      /\ stop' \in [step : {"sleep", "close", "wait", "down"}, h : Handlers \cup {0}]
  <2>1. CASE StopBegin
    BY <1>3, <2>1 DEF StopBegin
  <2>2. CASE StopClose \/ StopDown
    <3>1. stop \in [step : {"sleep", "close", "wait", "down"}, h : Handlers \cup {0}]
      BY DEF Inv, TypeOK
    <3>2. stop' = [stop EXCEPT !.step = "wait"] \/ stop' = [stop EXCEPT !.step = "down"]
      BY <2>2 DEF StopClose, StopDown
    <3>3. QED
      BY <3>1, <3>2
  <2>3. QED
    BY <2>1, <2>2 DEF StopStep
<1>5. /\ crashed' \in BOOLEAN /\ closed' \in [Handlers -> BOOLEAN]
      /\ \A h \in Handlers : closed[h] => closed'[h]
      /\ \A h \in Handlers : ~closed[h] /\ closed'[h] => h = stop.h /\ stop.step = "close"
  <2>1. CASE StopBegin \/ StopDown
    BY <2>1 DEF StopBegin, StopDown, handlerVars, Inv, TypeOK
  <2>2. CASE StopClose
    BY <2>2 DEF StopClose, Close, Inv, TypeOK
  <2>3. QED
    BY <2>1, <2>2 DEF StopStep
<1>6. TypeOK'
  BY <1>1, <1>4, <1>5 DEF Inv, TypeOK, requestVars, messageVars
<1>7. NoReaderLeftBehind'
  BY <1>1, <1>5 DEF Inv, NoReaderLeftBehind, Reading
<1>8. SweepHoldsStored'
  BY <1>1, <1>3, <1>5 DEF Inv, SweepHoldsStored
<1>9. ClosedByOwner'
  <2>1. stop.h \in Nat /\ made \in Nat
    BY RequestsCounted DEF Inv, TypeOK, Handlers
  <2>2. \A h \in Handlers : h > made => ~closed'[h]
    <3> SUFFICES ASSUME NEW h \in Handlers, h > made, closed'[h] PROVE FALSE
      OBVIOUS
    <3>1. ~closed[h]
      BY DEF Inv, ClosedByOwner
    <3>2. h = stop.h /\ stop.step = "close"
      BY <1>5, <3>1
    <3>3. stop.h <= made
      BY <3>2 DEF Inv, ClosedByOwner
    <3>4. QED
      BY <2>1, <3>2, <3>3
  <2>3. QED
    BY <1>1, <1>3, <1>4, <2>2 DEF ClosedByOwner, requestVars
<1>10. QED
  BY <1>2, <1>4, <1>6, <1>7, <1>8, <1>9 DEF Inv, PanicNeedsStop

-----------------------------------------------------------------------------
(* The theorems *)

LEMMA NextInv == Inv /\ [Next]_vars => Inv'
<1> SUFFICES ASSUME Inv, [Next]_vars PROVE Inv'
  OBVIOUS
<1>1. ASSUME NEW r \in Requests, Request(r) PROVE Inv'
  BY <1>1, LoadInv, LoadOrStoreInv, EnqueueInv DEF Request
<1>2. ASSUME NEW h \in Handlers, Process(h) PROVE Inv'
  BY <1>2, ProcessInv
<1>3. CASE UNCHANGED vars
  BY <1>3 DEF vars, Inv, TypeOK, MadeByPlaced, Placed, NoReaderLeftBehind, Reading,
              SweepHoldsStored, ClosedByOwner, PanicNeedsStop
<1>4. QED
  BY <1>1, <1>2, <1>3, SweepInv, StopInv, LongSilenceInv DEF Next

\* The variables keep their types: in particular there is a number for every
\* handler that is made, whoever loses the race to store it.
THEOREM TypeCorrect == Spec => []TypeOK
<1>1. Inv => TypeOK
  BY DEF Inv
<1>2. QED
  BY <1>1, InitInv, NextInv, PTL DEF Spec

\* Whoever reads for the register is in the map, however requests, the cleanup
\* loop and Stop interleave.
THEOREM NoReaderIsLeftBehind == Spec => []NoReaderLeftBehind
<1>1. Inv => NoReaderLeftBehind
  BY DEF Inv
<1>2. QED
  BY <1>1, InitInv, NextInv, PTL DEF Spec

\* One goroutine at most reads for the register: the map has one entry for it.
THEOREM OneReads == Spec => []OneReader
<1>1. Inv => OneReader
  BY DEF Inv, NoReaderLeftBehind, OneReader
<1>2. QED
  BY <1>1, InitInv, NextInv, PTL DEF Spec

\* A stop channel is closed twice only with the help of Ingestor.Stop.
THEOREM PanicTakesStop == Spec => []PanicNeedsStop
<1>1. Inv => PanicNeedsStop
  BY DEF Inv
<1>2. QED
  BY <1>1, InitInv, NextInv, PTL DEF Spec

-----------------------------------------------------------------------------
(* Where the messages are *)

InQueue(r, h, i) == i \in DOMAIN queue[h] /\ queue[h][i] = r
ServedAt(r, k) == k \in DOMAIN served /\ served[k] = r
AcceptedAt(r, i) == i \in DOMAIN accepted /\ accepted[i] = r

\* A message whose request was answered is in one place, once.
PlaceRule ==
    /\ \A h \in Handlers : Len(queue[h]) <= QueueCap
    /\ \A r \in Requests, h \in Handlers, i \in Nat :
            InQueue(r, h, i) => pc[r] = "done" /\ target[r] = h /\ r \notin dropped
    /\ \A r \in Requests, k \in Nat : ServedAt(r, k) => pc[r] = "done" /\ r \notin dropped
    /\ \A r \in Requests, h \in Handlers, i, k \in Nat : ~(InQueue(r, h, i) /\ ServedAt(r, k))
    /\ \A r \in Requests, h \in Handlers, i, j \in Nat :
            InQueue(r, h, i) /\ InQueue(r, h, j) => i = j
    /\ \A r \in Requests, k, l \in Nat : ServedAt(r, k) /\ ServedAt(r, l) => k = l
    /\ \A r \in dropped : pc[r] = "done"
    /\ \A r \in Requests : pc[r] = "done" =>
            \/ r \in dropped
            \/ \E h \in Handlers, i \in Nat : InQueue(r, h, i)
            \/ \E k \in Nat : ServedAt(r, k)

\* The messages of one handler are served in the order they were accepted.
FirstInFirstOut ==
    /\ \A r \in Requests, i \in Nat : AcceptedAt(r, i) => pc[r] = "done" /\ r \notin dropped
    /\ \A q, r \in Requests, i, j \in Nat :
            AcceptedAt(q, i) /\ AcceptedAt(r, j) /\ i < j /\ target[q] = target[r] =>
              /\ \A k \in Nat : ServedAt(r, k) => \E l \in Nat : l < k /\ ServedAt(q, l)
              /\ \A h \in Handlers, m \in Nat : InQueue(r, h, m) =>
                    \/ \E l \in Nat : ServedAt(q, l)
                    \/ \E l \in Nat : l < m /\ InQueue(q, h, l)

\* Of the handlers that were made all but the one in the map were told to stop,
\* and requests use handlers that were made.
OneOpen ==
    /\ \A h \in Handlers : h <= made /\ ~closed[h] => h = stored
    /\ \A r \in Requests : pc[r] \in {"enqueue", "done"} =>
            target[r] \in Handlers /\ target[r] <= made

MessageInv == Inv /\ PlaceRule /\ FirstInFirstOut /\ OneOpen

\* An appended message is at the end, all others stay where they are.
LEMMA AppendAt ==
    ASSUME NEW S, NEW q \in Seq(S), NEW e \in S, NEW x, NEW i \in Nat
    PROVE  (i \in DOMAIN Append(q, e) /\ Append(q, e)[i] = x)
             <=> (i \in DOMAIN q /\ q[i] = x) \/ (x = e /\ i = Len(q) + 1)
<1>1. /\ DOMAIN Append(q, e) = DOMAIN q \cup {Len(q) + 1}
      /\ \A j \in DOMAIN q : Append(q, e)[j] = q[j]
      /\ Append(q, e)[Len(q) + 1] = e
      /\ Len(q) + 1 \notin DOMAIN q
  OBVIOUS
<1>2. QED
  BY <1>1

\* A step that moves no message and answers no request keeps the two rules.
LEMMA MessagesStay ==
    ASSUME PlaceRule, FirstInFirstOut, UNCHANGED <<queue, messageVars>>,
           \A r \in Requests : pc'[r] = "done" <=> pc[r] = "done",
           \A r \in Requests : pc[r] = "done" => target'[r] = target[r],
           dropped \subseteq Requests
    PROVE  PlaceRule' /\ FirstInFirstOut'
<1>1. /\ \A r, h, i : InQueue(r, h, i)' <=> InQueue(r, h, i)
      /\ \A r, k : ServedAt(r, k)' <=> ServedAt(r, k)
      /\ \A r, i : AcceptedAt(r, i)' <=> AcceptedAt(r, i)
      /\ queue' = queue /\ dropped' = dropped
  BY DEF InQueue, ServedAt, AcceptedAt, messageVars
<1>2. PlaceRule'
  BY <1>1 DEF PlaceRule
<1>3. FirstInFirstOut'
  <2>1. \A r \in Requests, i \in Nat : AcceptedAt(r, i)' => pc'[r] = "done" /\ r \notin dropped'
    BY <1>1 DEF FirstInFirstOut
  <2>2. ASSUME NEW q \in Requests, NEW r \in Requests, NEW i \in Nat, NEW j \in Nat,
               AcceptedAt(q, i)', AcceptedAt(r, j)', i < j, target'[q] = target'[r]
        PROVE  /\ AcceptedAt(q, i) /\ AcceptedAt(r, j) /\ target[q] = target[r]
    BY <1>1, <2>2 DEF FirstInFirstOut
  <2>3. QED
    BY <1>1, <2>1, <2>2 DEF FirstInFirstOut
<1>4. QED
  BY <1>2, <1>3

\* A request puts its message at the end of its handler's queue, or drops it.
LEMMA EnqueueMessage ==
    ASSUME MessageInv, NEW r \in Requests, Enqueue(r)
    PROVE  PlaceRule' /\ FirstInFirstOut'
<1> DEFINE h == target[r]
           n == Len(queue[h]) + 1
<1>1. h \in Handlers /\ queue[h] \in Seq(Requests) /\ n \in Nat
      /\ pc[r] # "done" /\ QueueCap \in Nat /\ accepted \in Seq(Requests)
  BY HandlersAssumption DEF MessageInv, OneOpen, Enqueue, Inv, TypeOK
<1>2. /\ served' = served /\ target' = target
      /\ \A q \in Requests : pc'[q] = IF q = r THEN "done" ELSE pc[q]
  BY DEF Enqueue, MessageInv, Inv, TypeOK
<1>3. \A q, k : ServedAt(q, k)' <=> ServedAt(q, k)
  BY <1>2 DEF ServedAt
<1>4. /\ \A k \in Nat : ~ServedAt(r, k)
      /\ \A g \in Handlers, i \in Nat : ~InQueue(r, g, i)
      /\ \A i \in Nat : ~AcceptedAt(r, i)
      /\ r \notin dropped
  BY <1>1 DEF MessageInv, PlaceRule, FirstInFirstOut
<1>5. CASE Len(queue[h]) < QueueCap
  <2>1. /\ queue' = [queue EXCEPT ![h] = Append(@, r)]
        /\ accepted' = Append(accepted, r) /\ dropped' = dropped
    BY <1>5 DEF Enqueue
  <2>2. /\ \A g \in Handlers : queue'[g] = IF g = h THEN Append(queue[h], r) ELSE queue[g]
        /\ Len(Append(queue[h], r)) = n
    BY <1>1, <2>1 DEF MessageInv, Inv, TypeOK
  <2>3. \A q \in Requests, g \in Handlers, i \in Nat :
          InQueue(q, g, i)' <=> InQueue(q, g, i) \/ (q = r /\ g = h /\ i = n)
    <3>1. ASSUME NEW q \in Requests, NEW i \in Nat
          PROVE  (i \in DOMAIN Append(queue[h], r) /\ Append(queue[h], r)[i] = q)
                   <=> (i \in DOMAIN queue[h] /\ queue[h][i] = q) \/ (q = r /\ i = n)
      BY <1>1, AppendAt
    <3> HIDE DEF h, n
    <3>2. QED
      BY <1>1, <2>2, <3>1 DEF InQueue
  <2>4. \A q \in Requests, i \in Nat :
          AcceptedAt(q, i)' <=> AcceptedAt(q, i) \/ (q = r /\ i = Len(accepted) + 1)
    BY <1>1, <2>1 DEF AcceptedAt
  <2>5. PlaceRule'
    <3>1. \A g \in Handlers : Len(queue'[g]) <= QueueCap
      <4>1. n <= QueueCap
        <5>1. Len(queue[h]) \in Nat
          BY <1>1
        <5>2. QED
          BY <1>1, <1>5, <5>1
      <4>2. QED
        BY <4>1, <2>2 DEF MessageInv, PlaceRule
    <3>2. \A q \in Requests, g \in Handlers, i \in Nat :
            InQueue(q, g, i)' => pc'[q] = "done" /\ target'[q] = g /\ q \notin dropped'
      BY <1>2, <1>4, <2>1, <2>3 DEF MessageInv, PlaceRule
    <3>3. \A q \in Requests, g \in Handlers, i, k \in Nat :
            ~(InQueue(q, g, i)' /\ ServedAt(q, k)')
      BY <1>3, <1>4, <2>3 DEF MessageInv, PlaceRule
    <3>4. \A q \in Requests, g \in Handlers, i, j \in Nat :
            InQueue(q, g, i)' /\ InQueue(q, g, j)' => i = j
      BY <1>4, <2>3 DEF MessageInv, PlaceRule
    <3>5. \A q \in dropped' : pc'[q] = "done"
      BY <1>2, <2>1 DEF MessageInv, PlaceRule, Inv, TypeOK
    <3>6. ASSUME NEW q \in Requests, pc'[q] = "done"
          PROVE  \/ q \in dropped'
                 \/ \E g \in Handlers, i \in Nat : InQueue(q, g, i)'
                 \/ \E k \in Nat : ServedAt(q, k)'
      <4>1. CASE q = r
        BY <4>1, <1>1, <2>3
      <4>2. CASE q # r
        BY <4>2, <3>6, <1>2, <1>3, <2>1, <2>3 DEF MessageInv, PlaceRule
      <4>3. QED
        BY <4>1, <4>2
    <3>7. \A q \in Requests, k \in Nat : ServedAt(q, k)' => pc'[q] = "done" /\ q \notin dropped'
      BY <1>2, <1>3, <2>1 DEF MessageInv, PlaceRule
    <3>8. \A q \in Requests, k, l \in Nat : ServedAt(q, k)' /\ ServedAt(q, l)' => k = l
      BY <1>3 DEF MessageInv, PlaceRule
    <3>9. QED
      BY <3>1, <3>2, <3>3, <3>4, <3>5, <3>6, <3>7, <3>8 DEF PlaceRule
  <2>6. FirstInFirstOut'
    <3>1. \A q \in Requests, i \in Nat :
            AcceptedAt(q, i)' => pc'[q] = "done" /\ q \notin dropped'
      BY <1>2, <1>4, <2>1, <2>4 DEF MessageInv, FirstInFirstOut
    <3>2. ASSUME NEW p \in Requests, NEW q \in Requests, NEW i \in Nat, NEW j \in Nat,
                 AcceptedAt(p, i)', AcceptedAt(q, j)', i < j, target'[p] = target'[q]
          PROVE  /\ \A k \in Nat : ServedAt(q, k)' => \E l \in Nat : l < k /\ ServedAt(p, l)'
                 /\ \A g \in Handlers, m \in Nat : InQueue(q, g, m)' =>
                       \/ \E l \in Nat : ServedAt(p, l)'
                       \/ \E l \in Nat : l < m /\ InQueue(p, g, l)'
      <4>1. p # r /\ AcceptedAt(p, i)
        <5>1. i \in 1 .. Len(accepted)
          <6>1. j \in 1 .. Len(accepted) + 1 /\ Len(accepted) \in Nat
            BY <3>2, <1>1, <2>1 DEF AcceptedAt
          <6>2. i \in 1 .. Len(accepted) + 1
            BY <3>2, <1>1, <2>1 DEF AcceptedAt
          <6>3. QED
            BY <3>2, <6>1, <6>2
        <5>2. AcceptedAt(p, i)
          BY <3>2, <5>1, <2>4, <1>1
        <5>3. QED
          BY <5>2, <1>4
      <4>2. CASE q # r
        <5>1. AcceptedAt(q, j)
          BY <4>2, <3>2, <2>4
        <5>2. \A g \in Handlers, m \in Nat : InQueue(q, g, m)' <=> InQueue(q, g, m)
          BY <4>2, <2>3
        <5>3. target[p] = target[q]
          BY <3>2, <1>2
        <5>4. QED
          BY <3>2, <4>1, <5>1, <5>2, <5>3, <1>3, <2>3 DEF MessageInv, FirstInFirstOut
      <4>3. CASE q = r
        <5>1. target[p] = h /\ pc[p] = "done"
          BY <4>1, <4>3, <3>2, <1>2 DEF MessageInv, FirstInFirstOut
        <5>2. p \notin dropped
          BY <4>1 DEF MessageInv, FirstInFirstOut
        <5>3. \/ \E l \in Nat : ServedAt(p, l)
              \/ \E l \in Nat : InQueue(p, h, l)
          BY <5>1, <5>2 DEF MessageInv, PlaceRule
        <5>4. \A l \in Nat : InQueue(p, h, l) => l < n
          BY <1>1 DEF InQueue
        <5>5. ASSUME NEW g \in Handlers, NEW m \in Nat, InQueue(q, g, m)'
              PROVE  m = n /\ g = h
          BY <5>5, <4>3, <1>4, <2>3
        <5>6. QED
          BY <4>3, <5>3, <5>4, <5>5, <1>3, <1>4, <2>3
      <4>4. QED
        BY <4>2, <4>3
    <3>3. QED
      BY <3>1, <3>2 DEF FirstInFirstOut
  <2>7. QED
    BY <2>5, <2>6
<1>6. CASE Len(queue[h]) >= QueueCap
  <2>1. /\ UNCHANGED <<queue, accepted>> /\ dropped' = dropped \cup {r}
    BY <1>1, <1>6 DEF Enqueue
  <2>2. /\ \A q, g, i : InQueue(q, g, i)' <=> InQueue(q, g, i)
        /\ \A q, i : AcceptedAt(q, i)' <=> AcceptedAt(q, i)
    BY <2>1 DEF InQueue, AcceptedAt
  <2>3. PlaceRule'
    <3>1. \A q \in Requests, g \in Handlers, i \in Nat : InQueue(q, g, i)' => q # r
      BY <1>4, <2>2
    <3>2. \A q \in Requests, k \in Nat : ServedAt(q, k)' => q # r
      BY <1>3, <1>4
    <3>3. \A q \in dropped' : pc'[q] = "done"
      BY <1>2, <2>1 DEF MessageInv, PlaceRule, Inv, TypeOK
    <3>4. \A q \in Requests : pc'[q] = "done" =>
            \/ q \in dropped'
            \/ \E g \in Handlers, i \in Nat : InQueue(q, g, i)'
            \/ \E k \in Nat : ServedAt(q, k)'
      BY <1>2, <1>3, <2>1, <2>2 DEF MessageInv, PlaceRule
    <3>5. QED
      BY <3>1, <3>2, <3>3, <3>4, <1>2, <1>3, <2>1, <2>2 DEF MessageInv, PlaceRule
  <2>4. FirstInFirstOut'
    BY <1>2, <1>3, <1>4, <2>1, <2>2 DEF MessageInv, FirstInFirstOut
  <2>5. QED
    BY <2>3, <2>4
<1>7. QED
  BY <1>1, <1>5, <1>6

\* What is left of a queue when its first message is taken.
LEMMA TailAt ==
    ASSUME NEW S, NEW q \in Seq(S), q # <<>>, NEW x, NEW i \in Nat
    PROVE  (i \in DOMAIN Tail(q) /\ Tail(q)[i] = x)
             <=> (i # 0 /\ i + 1 \in DOMAIN q /\ q[i + 1] = x)
<1>1. /\ Len(q) \in Nat \ {0} /\ DOMAIN q = 1 .. Len(q)
      /\ DOMAIN Tail(q) = 1 .. Len(q) - 1
      /\ \A j \in 1 .. Len(q) - 1 : Tail(q)[j] = q[j + 1]
  OBVIOUS
<1>2. i \in DOMAIN Tail(q) <=> i # 0 /\ i + 1 \in DOMAIN q
  BY <1>1
<1>3. QED
  BY <1>1, <1>2

\* Process takes the first message of its queue and gives it to the machine.
LEMMA ReceiveMessage ==
    ASSUME MessageInv, NEW h \in Handlers, Receive(h), NEW r, r = Head(queue[h])
    PROVE  PlaceRule' /\ FirstInFirstOut'
<1> DEFINE n == Len(served) + 1
<1>1. /\ queue[h] \in Seq(Requests) /\ queue[h] # <<>> /\ r \in Requests
      /\ served \in Seq(Requests) /\ n \in Nat
  BY DEF Receive, MessageInv, Inv, TypeOK
<1>2. /\ pc' = pc /\ target' = target /\ accepted' = accepted /\ dropped' = dropped
      /\ served' = Append(served, r)
      /\ \A g \in Handlers : queue'[g] = IF g = h THEN Tail(queue[h]) ELSE queue[g]
  BY DEF Receive, requestVars, MessageInv, Inv, TypeOK
<1>3. 1 \in Nat /\ InQueue(r, h, 1)
  BY <1>1 DEF InQueue
<1>4. ASSUME NEW q \in Requests, NEW g \in Handlers, NEW i \in Nat
      PROVE  InQueue(q, g, i)' <=> (IF g = h THEN i # 0 /\ InQueue(q, h, i + 1)
                                     ELSE InQueue(q, g, i))
  <2>1. CASE g = h
    <3>1. queue'[g] = Tail(queue[h])
      BY <2>1, <1>2
    <3>2. (i \in DOMAIN Tail(queue[h]) /\ Tail(queue[h])[i] = q)
            <=> (i # 0 /\ i + 1 \in DOMAIN queue[h] /\ queue[h][i + 1] = q)
      BY <1>1, TailAt
    <3>3. QED
      BY <2>1, <3>1, <3>2 DEF InQueue
  <2>2. CASE g # h
    BY <2>2, <1>2 DEF InQueue
  <2>3. QED
    BY <2>1, <2>2
<1>5. ASSUME NEW q \in Requests, NEW k \in Nat
      PROVE  ServedAt(q, k)' <=> ServedAt(q, k) \/ (q = r /\ k = n)
  BY <1>1, <1>2, AppendAt DEF ServedAt
<1>6. \A q, i : AcceptedAt(q, i)' <=> AcceptedAt(q, i)
  BY <1>2 DEF AcceptedAt
<1>7. \A q \in Requests, k \in Nat : ServedAt(q, k) => k < n
  <2>1. Len(served) \in Nat /\ DOMAIN served = 1 .. Len(served)
    BY <1>1
  <2>2. QED
    BY <2>1 DEF ServedAt
<1>8. /\ pc[r] = "done" /\ target[r] = h /\ r \notin dropped
      /\ \A k \in Nat : ~ServedAt(r, k)
      /\ \A i \in Nat : InQueue(r, h, i) => i = 1
      /\ \A g \in Handlers, i \in Nat : InQueue(r, g, i) => g = h
  BY <1>1, <1>3 DEF MessageInv, PlaceRule
<1>9. \A g \in Handlers, i \in Nat : ~InQueue(r, g, i)'
  <2>1. ASSUME NEW g \in Handlers, NEW i \in Nat, InQueue(r, g, i)' PROVE FALSE
    <3>1. CASE g = h
      <4>1. i # 0 /\ InQueue(r, h, i + 1) /\ i + 1 \in Nat
        BY <3>1, <2>1, <1>1, <1>4
      <4>2. i + 1 = 1
        BY <4>1, <1>8
      <4>3. QED
        BY <4>1, <4>2
    <3>2. CASE g # h
      BY <3>2, <2>1, <1>1, <1>4, <1>8
    <3>3. QED
      BY <3>1, <3>2
  <2>2. QED
    BY <2>1
<1>10. \A q \in Requests, g \in Handlers, i \in Nat : InQueue(q, g, i)' =>
          \E j \in Nat : j = (IF g = h THEN i + 1 ELSE i) /\ InQueue(q, g, j)
  BY <1>4
<1>11. ASSUME NEW q \in Requests, NEW g \in Handlers, NEW i \in Nat, InQueue(q, g, i)
       PROVE  (g = h /\ q = r) \/ \E j \in Nat : InQueue(q, g, j)'
  <2>1. CASE g # h
    BY <2>1, <1>4, <1>11
  <2>2. CASE g = h /\ i = 1
    <3>1. queue[h][1] = r
      BY <1>3 DEF InQueue
    <3>2. QED
      BY <2>2, <3>1, <1>11 DEF InQueue
  <2>3. CASE g = h /\ i # 1
    <3>1. i \in 1 .. Len(queue[h])
      BY <2>3, <1>1, <1>11 DEF InQueue
    <3>2. i - 1 \in Nat /\ i - 1 # 0 /\ (i - 1) + 1 = i
      BY <2>3, <3>1
    <3>3. InQueue(q, h, i - 1)'
      BY <2>3, <3>2, <1>4, <1>11
    <3>4. QED
      BY <2>3, <3>2, <3>3
  <2>4. QED
    BY <2>1, <2>2, <2>3
<1>12. PlaceRule'
  <2>1. \A g \in Handlers : Len(queue'[g]) <= QueueCap
    <3>1. Len(Tail(queue[h])) = Len(queue[h]) - 1 /\ Len(queue[h]) \in Nat
      BY <1>1
    <3>2. Len(Tail(queue[h])) <= QueueCap
      BY <3>1, HandlersAssumption DEF MessageInv, PlaceRule
    <3>3. QED
      BY <3>2, <1>2 DEF MessageInv, PlaceRule
  <2>2. \A q \in Requests, g \in Handlers, i \in Nat :
          InQueue(q, g, i)' => pc'[q] = "done" /\ target'[q] = g /\ q \notin dropped'
    BY <1>2, <1>10 DEF MessageInv, PlaceRule
  <2>3. \A q \in Requests, k \in Nat : ServedAt(q, k)' => pc'[q] = "done" /\ q \notin dropped'
    BY <1>2, <1>5, <1>8 DEF MessageInv, PlaceRule
  <2>4. \A q \in Requests, g \in Handlers, i, k \in Nat :
          ~(InQueue(q, g, i)' /\ ServedAt(q, k)')
    BY <1>5, <1>9, <1>10 DEF MessageInv, PlaceRule
  <2>5. ASSUME NEW q \in Requests, NEW g \in Handlers, NEW i \in Nat, NEW j \in Nat,
               InQueue(q, g, i)', InQueue(q, g, j)'
        PROVE  i = j
    <3>1. CASE g = h
      <4>1. InQueue(q, h, i + 1) /\ InQueue(q, h, j + 1) /\ i + 1 \in Nat /\ j + 1 \in Nat
        BY <3>1, <2>5, <1>4
      <4>2. i + 1 = j + 1
        BY <4>1 DEF MessageInv, PlaceRule
      <4>3. QED
        BY <4>2
    <3>2. CASE g # h
      BY <3>2, <2>5, <1>4 DEF MessageInv, PlaceRule
    <3>3. QED
      BY <3>1, <3>2
  <2>6. \A q \in Requests, k, l \in Nat : ServedAt(q, k)' /\ ServedAt(q, l)' => k = l
    BY <1>5, <1>8 DEF MessageInv, PlaceRule
  <2>7. \A q \in dropped' : pc'[q] = "done"
    BY <1>2 DEF MessageInv, PlaceRule
  <2>8. ASSUME NEW q \in Requests, pc'[q] = "done"
        PROVE  \/ q \in dropped'
               \/ \E g \in Handlers, i \in Nat : InQueue(q, g, i)'
               \/ \E k \in Nat : ServedAt(q, k)'
    <3>1. CASE q = r
      BY <3>1, <1>1, <1>5
    <3>2. CASE q # r
      BY <3>2, <2>8, <1>2, <1>5, <1>11 DEF MessageInv, PlaceRule
    <3>3. QED
      BY <3>1, <3>2
  <2>9. QED
    BY <2>1, <2>2, <2>3, <2>4, <2>5, <2>6, <2>7, <2>8 DEF PlaceRule
<1>13. FirstInFirstOut'
  <2>1. \A q \in Requests, i \in Nat :
          AcceptedAt(q, i)' => pc'[q] = "done" /\ q \notin dropped'
    BY <1>2, <1>6 DEF MessageInv, FirstInFirstOut
  <2>2. ASSUME NEW p \in Requests, NEW q \in Requests, NEW i \in Nat, NEW j \in Nat,
               AcceptedAt(p, i)', AcceptedAt(q, j)', i < j, target'[p] = target'[q]
        PROVE  /\ \A k \in Nat : ServedAt(q, k)' => \E l \in Nat : l < k /\ ServedAt(p, l)'
               /\ \A g \in Handlers, m \in Nat : InQueue(q, g, m)' =>
                     \/ \E l \in Nat : ServedAt(p, l)'
                     \/ \E l \in Nat : l < m /\ InQueue(p, g, l)'
    <3>1. /\ \A k \in Nat : ServedAt(q, k) => \E l \in Nat : l < k /\ ServedAt(p, l)
          /\ \A g \in Handlers, m \in Nat : InQueue(q, g, m) =>
                \/ \E l \in Nat : ServedAt(p, l)
                \/ \E l \in Nat : l < m /\ InQueue(p, g, l)
      BY <2>2, <1>2, <1>6 DEF MessageInv, FirstInFirstOut
    <3>2. ASSUME NEW k \in Nat, ServedAt(q, k)'
          PROVE  \E l \in Nat : l < k /\ ServedAt(p, l)'
      <4>1. CASE ServedAt(q, k)
        BY <4>1, <3>1, <1>5
      <4>2. CASE q = r /\ k = n
        <5>1. \A l \in Nat : ~(l < 1 /\ InQueue(p, h, l))
          <6>1. ASSUME NEW l \in Nat, l < 1, InQueue(p, h, l) PROVE FALSE
            <7>1. l \in 1 .. Len(queue[h])
              BY <6>1, <1>1 DEF InQueue
            <7>2. QED
              BY <6>1, <7>1
          <6>2. QED
            BY <6>1
        <5>2. \E l \in Nat : ServedAt(p, l)
          BY <4>2, <5>1, <3>1, <1>3
        <5>3. QED
          BY <4>2, <5>2, <1>5, <1>7
      <4>3. QED
        BY <3>2, <4>1, <4>2, <1>5
    <3>3. ASSUME NEW g \in Handlers, NEW m \in Nat, InQueue(q, g, m)'
          PROVE  \/ \E l \in Nat : ServedAt(p, l)'
                 \/ \E l \in Nat : l < m /\ InQueue(p, g, l)'
      <4>1. CASE g # h
        BY <4>1, <3>1, <3>3, <1>4, <1>5
      <4>2. CASE g = h
        <5>1. InQueue(q, h, m + 1) /\ m + 1 \in Nat
          BY <4>2, <3>3, <1>4
        <5>2. CASE \E l \in Nat : ServedAt(p, l)
          BY <5>2, <1>5
        <5>3. ASSUME NEW l \in Nat, l < m + 1, InQueue(p, h, l)
              PROVE  \/ \E k \in Nat : ServedAt(p, k)'
                     \/ \E k \in Nat : k < m /\ InQueue(p, h, k)'
          <6>1. l \in 1 .. Len(queue[h])
            BY <5>3, <1>1 DEF InQueue
          <6>2. CASE l = 1
            <7>1. p = r
              BY <6>2, <5>3, <1>3 DEF InQueue
            <7>2. QED
              BY <7>1, <1>1, <1>5
          <6>3. CASE l # 1
            <7>1. l - 1 \in Nat /\ l - 1 # 0 /\ (l - 1) + 1 = l /\ l - 1 < m
              BY <6>1, <6>3, <5>3
            <7>2. InQueue(p, h, l - 1)'
              BY <7>1, <5>3, <1>4
            <7>3. QED
              BY <7>1, <7>2
          <6>4. QED
            BY <6>2, <6>3
        <5>4. QED
          BY <4>2, <5>1, <5>2, <5>3, <3>1
      <4>3. QED
        BY <4>1, <4>2
    <3>4. QED
      BY <3>2, <3>3
  <2>3. QED
    BY <2>1, <2>2 DEF FirstInFirstOut
<1>14. QED
  BY <1>12, <1>13

\* Requests use the handler in the map or make it; whoever takes a handler from
\* the map has told it to stop.
LEMMA NextOpen == MessageInv /\ [Next]_vars => OneOpen'
<1> SUFFICES ASSUME MessageInv, [Next]_vars PROVE OneOpen'
  OBVIOUS
<1>1. /\ made \in Nat /\ stored \in Nat /\ stored <= made
      /\ stored # 0 => stored \in Handlers
  BY RequestsCounted DEF MessageInv, Inv, TypeOK, Handlers
<1>2. ASSUME NEW r \in Requests, Load(r) PROVE OneOpen'
  <2>1. UNCHANGED <<made, stored, closed>>
    BY <1>2 DEF Load, handlerVars
  <2>2. \A q \in Requests : pc'[q] \in {"enqueue", "done"} =>
          \/ pc[q] \in {"enqueue", "done"} /\ target'[q] = target[q]
          \/ target'[q] = stored /\ stored # 0
    BY <1>2 DEF Load, MessageInv, Inv, TypeOK
  <2>3. QED
    BY <1>1, <2>1, <2>2 DEF MessageInv, OneOpen
<1>3. ASSUME NEW r \in Requests, LoadOrStore(r) PROVE OneOpen'
  <2>1. made' = made + 1 /\ made' \in Handlers
    <3>1. r \notin Placed
      BY <1>3 DEF LoadOrStore, Placed
    <3>2. QED
      BY <1>1, <1>3, <3>1, RoomForOne DEF MessageInv, Inv, LoadOrStore
  <2>2. \A q \in Requests : pc'[q] \in {"enqueue", "done"} =>
          \/ pc[q] \in {"enqueue", "done"} /\ target'[q] = target[q]
          \/ target'[q] = stored /\ stored # 0
          \/ target'[q] = made'
    BY <1>3 DEF LoadOrStore, MessageInv, Inv, TypeOK
  <2>3. \A q \in Requests : pc'[q] \in {"enqueue", "done"} =>
            target'[q] \in Handlers /\ target'[q] <= made'
    <3>1. \A q \in Requests : pc[q] \in {"enqueue", "done"} =>
            target[q] \in Handlers /\ target[q] <= made /\ target[q] \in Nat
      BY DEF MessageInv, OneOpen, Handlers
    <3>2. QED
      BY <1>1, <2>1, <2>2, <3>1
  <2>4. \A h \in Handlers : h <= made' /\ ~closed'[h] => h = stored'
    <3>1. \A h \in Handlers : h <= made' => h <= made \/ h = made'
      BY <1>1, <2>1 DEF Handlers
    <3>2. CASE stored = 0
      <4>1. closed' = closed /\ stored' = made'
        BY <1>3, <3>2 DEF LoadOrStore
      <4>2. QED
        BY <3>1, <3>2, <4>1 DEF MessageInv, OneOpen, Handlers
    <3>3. CASE stored # 0
      <4>1. closed' = [closed EXCEPT ![made'] = TRUE] /\ stored' = stored
        BY <1>3, <3>3 DEF LoadOrStore
      <4>2. closed'[made']
        BY <2>1, <4>1 DEF MessageInv, Inv, TypeOK
      <4>3. \A h \in Handlers : ~closed'[h] => ~closed[h]
        BY <4>1 DEF MessageInv, Inv, TypeOK
      <4>4. QED
        BY <3>1, <4>1, <4>2, <4>3 DEF MessageInv, OneOpen
    <3>4. QED
      BY <3>2, <3>3
  <2>5. QED
    BY <2>3, <2>4 DEF OneOpen
<1>4. ASSUME NEW r \in Requests, Enqueue(r) PROVE OneOpen'
  BY <1>4 DEF Enqueue, MessageInv, OneOpen, Inv, TypeOK
<1>5. ASSUME NEW h \in Handlers, Process(h) PROVE OneOpen'
  BY <1>5 DEF Process, Begin, Receive, Exit, requestVars, MessageInv, OneOpen
<1>6. CASE Sweep \/ StopStep
  <2>1. UNCHANGED requestVars
    BY <1>6 DEF Sweep, SweepCheck, SweepClose, SweepDelete, StopStep, StopBegin,
                StopClose, StopDown
  <2>2. \A h \in Handlers : ~closed'[h] => ~closed[h]
    BY <1>6 DEF Sweep, SweepCheck, SweepClose, SweepDelete, StopStep, StopBegin,
                StopClose, StopDown, Close, handlerVars, MessageInv, Inv, TypeOK
  <2>3. stored' = stored \/ (stored # 0 /\ closed[stored])
    BY <1>6 DEF Sweep, SweepCheck, SweepClose, SweepDelete, StopStep, StopBegin,
                StopClose, StopDown, MessageInv, Inv, SweepHoldsStored
  <2>4. QED
    BY <2>1, <2>2, <2>3 DEF requestVars, MessageInv, OneOpen
<1>7. CASE LongSilence \/ UNCHANGED vars
  BY <1>7 DEF LongSilence, vars, requestVars, MessageInv, OneOpen
<1>8. QED
  BY <1>2, <1>3, <1>4, <1>5, <1>6, <1>7 DEF Next, Request

LEMMA NextMessage == MessageInv /\ [Next]_vars => MessageInv'
<1> SUFFICES ASSUME MessageInv, [Next]_vars PROVE PlaceRule' /\ FirstInFirstOut'
  BY NextInv, NextOpen DEF MessageInv
<1>1. dropped \subseteq Requests
  BY DEF MessageInv, Inv, TypeOK
<1>2. ASSUME UNCHANGED <<queue, messageVars, requestVars>>
      PROVE  PlaceRule' /\ FirstInFirstOut'
  BY <1>1, <1>2, MessagesStay DEF MessageInv, requestVars
<1>3. ASSUME NEW r \in Requests, Load(r) \/ LoadOrStore(r)
      PROVE  PlaceRule' /\ FirstInFirstOut'
  <2>1. UNCHANGED <<queue, messageVars>>
    BY <1>3 DEF Load, LoadOrStore, handlerVars
  <2>2. /\ \A q \in Requests : pc'[q] = "done" <=> pc[q] = "done"
        /\ \A q \in Requests : pc[q] = "done" => target'[q] = target[q]
    BY <1>3 DEF Load, LoadOrStore, MessageInv, Inv, TypeOK
  <2>3. QED
    BY <1>1, <2>1, <2>2, MessagesStay DEF MessageInv
<1>4. ASSUME NEW r \in Requests, Request(r) PROVE PlaceRule' /\ FirstInFirstOut'
  BY <1>3, <1>4, EnqueueMessage DEF Request
<1>5. ASSUME NEW h \in Handlers, Process(h) PROVE PlaceRule' /\ FirstInFirstOut'
  <2>1. CASE Receive(h)
    BY <2>1, ReceiveMessage
  <2>2. CASE Begin(h) \/ Exit(h)
    BY <2>2, <1>2 DEF Begin, Exit
  <2>3. QED
    BY <2>1, <2>2, <1>5 DEF Process
<1>6. CASE Sweep \/ StopStep \/ LongSilence \/ UNCHANGED vars
  BY <1>6, <1>2 DEF Sweep, SweepCheck, SweepClose, SweepDelete, StopStep, StopBegin,
       StopClose, StopDown, LongSilence, handlerVars, vars, requestVars, messageVars
<1>7. QED
  BY <1>4, <1>5, <1>6 DEF Next

LEMMA InitMessage == Init => MessageInv
<1> SUFFICES ASSUME Init PROVE PlaceRule /\ FirstInFirstOut /\ OneOpen
  BY InitInv DEF MessageInv
<1>1. /\ \A r, h, i : h \in Handlers => ~InQueue(r, h, i)
      /\ \A r, k : ~ServedAt(r, k) /\ ~AcceptedAt(r, k)
      /\ \A h \in Handlers : Len(queue[h]) = 0
  BY DEF Init, InQueue, ServedAt, AcceptedAt
<1>2. PlaceRule
  BY <1>1, HandlersAssumption DEF Init, PlaceRule
<1>3. FirstInFirstOut
  BY <1>1 DEF FirstInFirstOut
<1>4. OneOpen
  BY DEF Init, OneOpen, Handlers
<1>5. QED
  BY <1>2, <1>3, <1>4

\* The messages reach the machine in the order they were accepted, whatever
\* handlers they went through, unless one of them was told to stop.
THEOREM InAcceptedOrder == Spec => []ServedInOrder
<1>1. ASSUME MessageInv PROVE ServedInOrder
  <2> SUFFICES ASSUME NEW i \in DOMAIN accepted, NEW j \in DOMAIN accepted,
                      Overtaken(i, j),
                      ~closed[target[accepted[i]]], ~closed[target[accepted[j]]]
               PROVE  FALSE
    BY DEF ServedInOrder
  <2> DEFINE q == accepted[i]
             r == accepted[j]
  <2>1. accepted \in Seq(Requests) /\ served \in Seq(Requests)
    BY <1>1 DEF MessageInv, Inv, TypeOK
  <2>2. /\ i \in Nat /\ j \in Nat /\ q \in Requests /\ r \in Requests
        /\ AcceptedAt(q, i) /\ AcceptedAt(r, j) /\ i < j
    BY <2>1 DEF AcceptedAt, Overtaken
  <2>3. pc[q] = "done" /\ pc[r] = "done"
    BY <1>1, <2>2 DEF MessageInv, FirstInFirstOut
  <2>4. target[q] = stored /\ target[r] = stored
    BY <1>1, <2>2, <2>3 DEF MessageInv, OneOpen
  <2>5. PICK k \in Nat : ServedAt(r, k)
    BY <2>1 DEF Overtaken, ServedAt
  <2>6. PICK l \in Nat : l < k /\ ServedAt(q, l)
    BY <1>1, <2>2, <2>4, <2>5 DEF MessageInv, FirstInFirstOut
  <2>7. PICK m \in 1 .. l - 1 : served[m] = r
    BY <2>6 DEF Overtaken, ServedAt
  <2>8. m \in Nat /\ ServedAt(r, m) /\ m < k
    <3>1. l \in 1 .. Len(served) /\ Len(served) \in Nat /\ DOMAIN served = 1 .. Len(served)
      BY <2>1, <2>6 DEF ServedAt
    <3>2. QED
      BY <3>1, <2>6, <2>7 DEF ServedAt
  <2>9. m = k
    BY <1>1, <2>2, <2>5, <2>8 DEF MessageInv, PlaceRule
  <2>10. QED
    BY <2>5, <2>8, <2>9
<1>2. QED
  BY <1>1, InitMessage, NextMessage, PTL DEF Spec

\* Whatever the request was answered, its message is in one place, once.
THEOREM AnsweredIsOnce == Spec => []AnsweredOnce
<1>1. ASSUME MessageInv PROVE AnsweredOnce
  <2> SUFFICES ASSUME NEW r \in Requests
               PROVE  LET queued == {p \in Handlers \X (1 .. QueueCap) :
                                       p[2] <= Len(queue[p[1]]) /\ queue[p[1]][p[2]] = r}
                          done == {i \in DOMAIN served : served[i] = r}
                      IN  Cardinality(queued) + Cardinality(done)
                            + (IF r \in dropped THEN 1 ELSE 0)
                            = (IF pc[r] = "done" THEN 1 ELSE 0)
    BY DEF AnsweredOnce
  <2> DEFINE queued == {p \in Handlers \X (1 .. QueueCap) :
                          p[2] <= Len(queue[p[1]]) /\ queue[p[1]][p[2]] = r}
             done == {i \in DOMAIN served : served[i] = r}
             Counted == Cardinality(queued) + Cardinality(done)
                          + (IF r \in dropped THEN 1 ELSE 0)
                          = (IF pc[r] = "done" THEN 1 ELSE 0)
  <2>1. served \in Seq(Requests) /\ \A h \in Handlers : queue[h] \in Seq(Requests)
    BY <1>1 DEF MessageInv, Inv, TypeOK
  <2>2. ASSUME NEW p \in queued
        PROVE  p[1] \in Handlers /\ p[2] \in Nat /\ InQueue(r, p[1], p[2])
    <3>1. p[1] \in Handlers /\ p[2] \in 1 .. QueueCap /\ p[2] <= Len(queue[p[1]])
      OBVIOUS
    <3>2. DOMAIN queue[p[1]] = 1 .. Len(queue[p[1]]) /\ Len(queue[p[1]]) \in Nat
      BY <2>1, <3>1
    <3>3. p[2] \in Nat /\ p[2] \in DOMAIN queue[p[1]]
      BY <3>1, <3>2, HandlersAssumption
    <3>4. QED
      BY <3>1, <3>3 DEF InQueue
  <2>3. ASSUME NEW h \in Handlers, NEW i \in Nat, InQueue(r, h, i)
        PROVE  <<h, i>> \in queued
    <3>1. i \in 1 .. Len(queue[h]) /\ Len(queue[h]) \in Nat /\ Len(queue[h]) <= QueueCap
      BY <1>1, <2>1, <2>3 DEF InQueue, MessageInv, PlaceRule
    <3>2. i \in 1 .. QueueCap
      BY <3>1, HandlersAssumption
    <3>3. QED
      BY <3>1, <3>2, <2>3 DEF InQueue
  <2>4. /\ \A i \in done : i \in Nat /\ ServedAt(r, i)
        /\ \A i \in Nat : ServedAt(r, i) => i \in done
    BY <2>1 DEF ServedAt
  <2> HIDE DEF queued, done
  <2>5. ASSUME \A h \in Handlers, i \in Nat : ~InQueue(r, h, i)
        PROVE  Cardinality(queued) = 0
    <3>1. queued = {}
      BY <2>2, <2>5
    <3>2. QED
      BY <3>1, FS_EmptySet
  <2>6. ASSUME \A k \in Nat : ~ServedAt(r, k)
        PROVE  Cardinality(done) = 0
    <3>1. done = {}
      BY <2>4, <2>6
    <3>2. QED
      BY <3>1, FS_EmptySet
  <2>7. ASSUME pc[r] # "done" PROVE Counted
    BY <1>1, <2>5, <2>6, <2>7 DEF MessageInv, PlaceRule
  <2>8. ASSUME pc[r] = "done", r \in dropped PROVE Counted
    BY <1>1, <2>5, <2>6, <2>8 DEF MessageInv, PlaceRule
  <2>9. ASSUME pc[r] = "done", r \notin dropped,
               \E h \in Handlers, i \in Nat : InQueue(r, h, i)
        PROVE  Counted
    <3>1. PICK h \in Handlers, i \in Nat : InQueue(r, h, i)
      BY <2>9
    <3>2. \A p \in queued : p = <<h, i>>
      <4>1. ASSUME NEW p \in queued PROVE p = <<h, i>>
        <5>1. p[1] = h /\ p[2] = i
          BY <1>1, <2>2, <3>1, <4>1 DEF MessageInv, PlaceRule
        <5>2. QED
          BY <5>1, <4>1 DEF queued
      <4>2. QED
        BY <4>1
    <3>3. queued = {<<h, i>>}
      BY <3>1, <3>2, <2>3
    <3>4. Cardinality(queued) = 1
      BY <3>3, FS_Singleton
    <3>5. Cardinality(done) = 0
      BY <1>1, <3>1, <2>6 DEF MessageInv, PlaceRule
    <3>6. QED
      BY <2>9, <3>4, <3>5
  <2>10. ASSUME pc[r] = "done", r \notin dropped, \E k \in Nat : ServedAt(r, k)
         PROVE  Counted
    <3>1. PICK k \in Nat : ServedAt(r, k)
      BY <2>10
    <3>2. done = {k}
      BY <1>1, <3>1, <2>4 DEF MessageInv, PlaceRule
    <3>3. Cardinality(done) = 1
      BY <3>2, FS_Singleton
    <3>4. Cardinality(queued) = 0
      BY <1>1, <3>1, <2>5 DEF MessageInv, PlaceRule
    <3>5. QED
      BY <2>10, <3>3, <3>4
  <2>11. Counted
    <3> HIDE DEF Counted
    <3>1. QED
      BY <1>1, <2>7, <2>8, <2>9, <2>10 DEF MessageInv, PlaceRule
  <2>12. QED
    BY <2>11 DEF queued, done
<1>2. QED
  BY <1>1, InitMessage, NextMessage, PTL DEF Spec
=============================================================================
