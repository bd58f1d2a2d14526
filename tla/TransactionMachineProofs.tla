---------------------- MODULE TransactionMachineProofs ----------------------
(* Proofs about TransactionMachine, for any sequence numbers, cameras and   *)
(* timeouts.                                                                 *)
EXTENDS TransactionMachine, FilteringProofs, FiniteSetTheorems, TLAPS

-----------------------------------------------------------------------------
(* Types of the operators the handlers are built from *)

\* A remainder is below its divisor.
LEMMA Remainder ==
    ASSUME NEW a \in Nat, NEW b \in Nat \ {0}
    PROVE  a % b \in 0 .. b - 1
OBVIOUS

\* A uint16 wraps around into its range.
LEMMA WrapsAround ==
    ASSUME NEW a \in Nat
    PROVE  a % UInt16 \in 0 .. UInt16 - 1
<1>1. UInt16 \in Nat \ {0}
  BY DEF UInt16
<1>2. QED
  BY <1>1, Remainder

\* A uint16 is a natural number.
LEMMA UInt16Nat == \A a \in 0 .. UInt16 - 1 : a \in Nat
<1>1. UInt16 \in Nat
  BY DEF UInt16
<1>2. QED
  BY <1>1

\* Marking an event of a known kind makes an item.
LEMMA StampedType ==
    ASSUME now \in Nat, NEW kind \in Kinds \cup {"StartTriad"}
    PROVE  Stamped(kind) \in Item
BY DEF Stamped, Item

\* A new transaction, linked to a start or not, is a transaction.
LEMMA NewTransactionType ==
    ASSUME now \in Nat, NEW cmd \in BOOLEAN
    PROVE  NewTransaction(cmd) \in Transaction
BY DEF NewTransaction, Transaction, NoTime, UInt16

\* Recording an event keeps a transaction well typed.
LEMMA RecordedType ==
    ASSUME now \in Nat, NEW t \in Transaction, NEW kind \in Kinds
    PROVE  Recorded(t, kind) \in Transaction
<1>1. Stamped(kind) \in Item
  BY StampedType
<1>2. Append(t.other, Stamped(kind)) \in Seq(Item)
  BY <1>1 DEF Transaction
<1>3. QED
  BY <1>2 DEF Recorded, Transaction, NoTime

\* What goes out individually is a sequence of items.
LEMMA OutgoingType ==
    ASSUME now \in Nat, NEW t \in Transaction, NEW kind \in Kinds
    PROVE  Outgoing(t, kind) \in Seq(Item)
<1>1. Stamped(kind) \in Item /\ Stamped("StartTriad") \in Item
  BY StampedType
<1>2. t.pending \in Seq(Item)
  BY DEF Transaction
<1>3. <<Stamped("StartTriad")>> \o t.pending \in Seq(Item)
  BY <1>1, <1>2
<1>4. <<Stamped(kind)>> \in Seq(Item) /\ <<>> \in Seq(Item)
  BY <1>1
<1>5. QED
  BY <1>3, <1>4 DEF Outgoing

\* Settling the triad, the waiting lines and the counter keeps the types.
LEMMA SettledType ==
    ASSUME now \in Nat, esns \in Seq(ESNs),
           NEW t \in Transaction, NEW kind \in Kinds
    PROVE  Settled(t, kind) \in Transaction
<1> DEFINE out == Outgoing(t, kind)
<1>1. out \in Seq(Item)
  BY OutgoingType
<1>2. Waiting(t, kind) \in Seq(Item)
  <2>1. Stamped(kind) \in Item
    BY StampedType
  <2>2. Append(t.pending, Stamped(kind)) \in Seq(Item)
    BY <2>1 DEF Transaction
  <2>3. QED
    BY <2>2 DEF Waiting, Transaction
<1>3. (t.counter + Len(out) * Len(Targets)) % UInt16 \in 0 .. UInt16 - 1
  <2>1. Len(out) \in Nat /\ Len(Targets) \in Nat
    BY <1>1 DEF Targets
  <2>2. Len(out) * Len(Targets) \in Nat
    BY <2>1
  <2>3. t.counter \in Nat
    <3>1. t.counter \in 0 .. UInt16 - 1
      BY DEF Transaction
    <3>2. QED
      BY <3>1, UInt16Nat
  <2>4. t.counter + Len(out) * Len(Targets) \in Nat
    BY <2>2, <2>3
  <2>5. QED
    BY <2>4, WrapsAround
<1>4. t.streamed \cup Range(out) \in SUBSET Item
  BY <1>1 DEF Range, Transaction
<1>5. (t.triad \/ CompletesTriad(t)) \in BOOLEAN
  BY DEF Transaction, CompletesTriad
<1>6. QED
  BY <1>2, <1>3, <1>4, <1>5 DEF Settled, Transaction

-----------------------------------------------------------------------------
(* Type correctness *)

\* The start state is well typed.
LEMMA InitType == Init => TypeOK
<1> SUFFICES ASSUME Init PROVE TypeOK
  OBVIOUS
<1>1. active \in [Seqs -> Transaction \cup {NoTx}]
  BY DEF Init
<1>2. esns \in Seq(ESNs)
  BY DEF Init
<1>3. QED
  BY <1>1, <1>2 DEF Init, TypeOK

\* An event routed to a transaction keeps the types.
LEMMA TransactionEventType ==
    ASSUME TypeOK, NEW s \in Seqs, NEW kind \in Kinds,
           HandleTransactionEvent(s, kind), lastArrival' = now,
           UNCHANGED <<now, esns>>
    PROVE  TypeOK'
<1> DEFINE old == IF s \in Live THEN active[s] ELSE NewTransaction(pendingStart)
<1>1. old \in Transaction
  BY NewTransactionType DEF TypeOK, Live, Active
<1>2. Settled(Recorded(old, kind), kind) \in Transaction
  BY <1>1, RecordedType, SettledType DEF TypeOK
<1>3. active' \in [Seqs -> Transaction \cup {NoTx}]
  BY <1>2 DEF HandleTransactionEvent, TypeOK
<1>4. groups' \subseteq Group
  BY DEF HandleTransactionEvent, TypeOK, LiveGroups
<1>5. pendingStart' \in BOOLEAN
  BY DEF HandleTransactionEvent, TypeOK
<1>6. QED
  BY <1>3, <1>4, <1>5 DEF TypeOK

\* An event outside any transaction keeps the types.
LEMMA UnknownEventType ==
    ASSUME TypeOK, NEW kind \in Kinds, HandleUnknownEvent(kind),
           lastArrival' = now, UNCHANGED <<now, esns>>
    PROVE  TypeOK'
<1> DEFINE same == {g \in LiveGroups : g.key = WindowKey}
           before == IF same = {} THEN <<>> ELSE (CHOOSE g \in same : TRUE).events
<1>1. before \in Seq(Item)
  <2>1. same \subseteq Group
    BY DEF TypeOK, LiveGroups
  <2>2. CASE same = {}
    BY <2>2
  <2>3. CASE same # {}
    <3>1. (CHOOSE g \in same : TRUE) \in same
      BY <2>3
    <3>2. QED
      BY <3>1, <2>1, <2>3 DEF Group
  <2>4. QED
    BY <2>2, <2>3
<1>2. WindowKey \in Nat
  BY TimeAssumption DEF WindowKey, TypeOK
<1>3. Append(before, Stamped(kind)) \in Seq(Item)
  BY <1>1, StampedType DEF TypeOK
<1>4. Extended(kind) \in Group
  BY <1>2, <1>3 DEF Extended, Group, TypeOK
<1>5. groups' \subseteq Group
  BY <1>4 DEF HandleUnknownEvent, TypeOK, LiveGroups
<1>6. active' \in [Seqs -> Transaction \cup {NoTx}]
  BY DEF HandleUnknownEvent, TypeOK
<1>7. QED
  BY <1>5, <1>6 DEF TypeOK, HandleUnknownEvent

\* The demarcators keep the types.
LEMMA DemarcatorType ==
    ASSUME TypeOK, HandleStartTransaction \/ HandleEndTransaction,
           lastArrival' = now, UNCHANGED <<now, esns>>
    PROVE  TypeOK'
BY DEF TypeOK, HandleStartTransaction, HandleEndTransaction, EndOutsideTransaction,
       EndOfTransaction, LiveGroups

\* A change of the camera table keeps the types.
LEMMA MappingType ==
    ASSUME TypeOK, AddIPESNMapping \/ RemoveESNMappings
    PROVE  TypeOK'
<1>1. CASE AddIPESNMapping
  BY <1>1 DEF AddIPESNMapping, TypeOK
<1>2. CASE RemoveESNMappings
  <2>1. PICK i \in DOMAIN esns :
            esns' = SubSeq(esns, 1, i - 1) \o SubSeq(esns, i + 1, Len(esns))
    BY <1>2 DEF RemoveESNMappings
  <2>2. esns \in Seq(ESNs) /\ i \in 1 .. Len(esns) /\ Len(esns) \in Nat
    BY DEF TypeOK
  <2>3. SubSeq(esns, 1, i - 1) \in Seq(ESNs)
    BY <2>2
  <2>4. SubSeq(esns, i + 1, Len(esns)) \in Seq(ESNs)
    BY <2>2
  <2>5. esns' \in Seq(ESNs)
    BY <2>1, <2>3, <2>4
  <2>6. QED
    BY <1>2, <2>5 DEF RemoveESNMappings, TypeOK
<1>3. QED
  BY <1>1, <1>2

\* Every step keeps the types.
LEMMA NextType == TypeOK /\ [Next]_vars => TypeOK'
<1> SUFFICES ASSUME TypeOK, [Next]_vars PROVE TypeOK'
  OBVIOUS
<1>1. CASE StartEvent
  BY <1>1, DemarcatorType DEF StartEvent, Arrival
<1>2. CASE EndEvent
  BY <1>2, DemarcatorType DEF EndEvent, Arrival
<1>3. CASE NumberedEvent
  BY <1>3, TransactionEventType DEF NumberedEvent, Arrival, Kinds
<1>4. CASE LinkedEvent
  BY <1>4, TransactionEventType, NamesAssumption DEF LinkedEvent, Arrival
<1>5. CASE UnlinkedEvent
  BY <1>5, UnknownEventType, NamesAssumption DEF UnlinkedEvent, Arrival
<1>6. CASE AddIPESNMapping \/ RemoveESNMappings
  BY <1>6, MappingType
<1>7. CASE Tick
  BY <1>7 DEF Tick, TypeOK
<1>8. CASE UNCHANGED vars
  BY <1>8 DEF vars, TypeOK
<1>9. QED
  BY <1>1, <1>2, <1>3, <1>4, <1>5, <1>6, <1>7, <1>8 DEF Next, ProcessEvent

\* Every behaviour of the machine is well typed.
THEOREM TypeCorrect == Spec => []TypeOK
<1>1. QED
  BY InitType, NextType, PTL DEF Spec

-----------------------------------------------------------------------------
(* The start command and the start triad *)

\* The invariant of a register session.
SessionInv == TypeOK /\ StartMarksOne /\ WaitsForTriad

\* Recording and settling an event keeps the triad rule: a line waits and is
\* not streamed, or the triad is complete and nothing waits.
LEMMA TriadRuleKept ==
    ASSUME now \in Nat, NEW t \in Transaction, TriadRule(t),
           NEW kind \in Kinds \ Demarcators
    PROVE  TriadRule(Settled(Recorded(t, kind), kind))
<1> DEFINE r == Recorded(t, kind)
           u == Settled(r, kind)
<1>1. /\ r.cmd = t.cmd /\ r.triad = t.triad
      /\ r.pending = t.pending /\ r.streamed = t.streamed
      /\ r.meta = IF kind = "Meta" THEN "seq" ELSE IF kind = "MetaNoSeq" THEN "noseq" ELSE t.meta
      /\ r.header = (t.header \/ kind = "Header")
      /\ r.other = IF kind \in MetaKinds \cup {"Header"} THEN t.other
                   ELSE Append(t.other, Stamped(kind))
  BY DEF Recorded, Transaction
<1>2. /\ u.cmd = r.cmd /\ u.meta = r.meta /\ u.header = r.header /\ u.other = r.other
      /\ u.triad = (r.triad \/ CompletesTriad(r))
      /\ u.pending = Waiting(r, kind)
      /\ u.streamed = r.streamed \cup Range(Outgoing(r, kind))
  BY DEF Settled, Recorded, Transaction
<1>3. r.cmd \in BOOLEAN /\ r.triad \in BOOLEAN /\ r.header \in BOOLEAN
  BY <1>1 DEF Transaction
<1>4. u.triad <=> (u.cmd /\ u.meta # "none" /\ u.header)
  BY <1>1, <1>2, <1>3 DEF TriadRule, CompletesTriad, Transaction
<1>5. u.triad => u.pending = <<>>
  BY <1>1, <1>2, <1>3 DEF TriadRule, Waiting
<1>6. ASSUME ~u.triad PROVE u.pending = u.other /\ u.streamed = {}
  <2>1. ~r.triad /\ ~CompletesTriad(r)
    BY <1>6, <1>2
  <2>2. Outgoing(r, kind) = <<>>
    BY <2>1 DEF Outgoing
  <2>3. Range(Outgoing(r, kind)) = {}
    BY <2>2 DEF Range
  <2>4. QED
    BY <2>1, <2>3, <1>1, <1>2 DEF TriadRule, Waiting
<1>7. QED
  BY <1>4, <1>5, <1>6 DEF TriadRule

\* A new transaction satisfies the triad rule.
LEMMA TriadRuleNew ==
    ASSUME NEW cmd \in BOOLEAN
    PROVE  TriadRule(NewTransaction(cmd))
BY DEF TriadRule, NewTransaction

\* Where the handlers clear the ActiveTransactions map, both rules hold.
LEMMA ClearedSession ==
    ASSUME active' = [r \in Seqs |-> NoTx]
    PROVE  StartMarksOne' /\ WaitsForTriad'
BY DEF StartMarksOne, WaitsForTriad, Active

\* An event routed to a transaction keeps the session invariant.
LEMMA TransactionEventSession ==
    ASSUME SessionInv, NEW s \in Seqs, NEW kind \in Kinds \ Demarcators,
           HandleTransactionEvent(s, kind)
    PROVE  StartMarksOne' /\ WaitsForTriad'
<1> DEFINE old == IF s \in Live THEN active[s] ELSE NewTransaction(pendingStart)
           t == Settled(Recorded(old, kind), kind)
<1>1. /\ pendingStart' = (pendingStart /\ s \in Live)
      /\ \A r \in Seqs : active'[r] = IF r = s THEN t
                                     ELSE IF r \in Live THEN active[r] ELSE NoTx
  BY DEF HandleTransactionEvent
<1>2. old \in Transaction /\ TriadRule(old)
  BY NewTransactionType, TriadRuleNew DEF SessionInv, WaitsForTriad, TypeOK, Live, Active
<1>3. t \in Transaction /\ TriadRule(t)
  BY <1>2, RecordedType, SettledType, TriadRuleKept DEF SessionInv, TypeOK
<1>4. t.cmd = old.cmd
  BY <1>2 DEF Settled, Recorded, Transaction
<1>5. Active' \subseteq Live \cup {s}
  BY <1>1 DEF Active
<1>6. StartMarksOne'
  <2>1. pendingStart => Live = {}
    BY DEF SessionInv, StartMarksOne, Live
  <2>2. ~pendingStart'
    BY <1>1, <2>1
  <2>3. ASSUME NEW q \in Active', NEW r \in Active', active'[q].cmd, active'[r].cmd
        PROVE  q = r
    <3>1. \A p \in Live : p \in Active /\ p \in Seqs
      BY DEF Live, Active
    <3>2. CASE s \in Live
      BY <3>1, <3>2, <2>3, <1>1, <1>4, <1>5 DEF SessionInv, StartMarksOne
    <3>3. CASE s \notin Live /\ pendingStart
      BY <3>3, <2>1, <1>5
    <3>4. CASE s \notin Live /\ ~pendingStart
      <4>1. ~old.cmd
        BY <3>4 DEF NewTransaction, SessionInv, TypeOK
      <4>2. QED
        BY <4>1, <3>1, <3>4, <2>3, <1>1, <1>4, <1>5 DEF SessionInv, StartMarksOne
    <3>5. QED
      BY <3>2, <3>3, <3>4
  <2>4. QED
    BY <2>2, <2>3 DEF StartMarksOne
<1>7. WaitsForTriad'
  <2>1. ASSUME NEW r \in Active' PROVE TriadRule(active'[r])
    BY <1>1, <1>3, <1>5 DEF SessionInv, WaitsForTriad, Live, Active
  <2>2. QED
    BY <2>1 DEF WaitsForTriad, TriadRule
<1>8. QED
  BY <1>6, <1>7

\* An event outside any transaction leaves no transaction behind.
LEMMA UnknownEventSession ==
    ASSUME Live = {}, NEW kind \in Kinds, HandleUnknownEvent(kind)
    PROVE  StartMarksOne' /\ WaitsForTriad'
<1>1. active' = [r \in Seqs |-> NoTx]
  BY DEF HandleUnknownEvent
<1>2. QED
  BY <1>1, ClearedSession

\* Every step keeps the session invariant.
LEMMA NextSession == SessionInv /\ [Next]_vars => SessionInv'
<1> SUFFICES ASSUME SessionInv, [Next]_vars PROVE StartMarksOne' /\ WaitsForTriad'
  BY NextType DEF SessionInv
<1>1. CASE StartEvent
  BY <1>1, ClearedSession DEF StartEvent, HandleStartTransaction
<1>2. CASE EndEvent
  BY <1>2, ClearedSession DEF EndEvent, HandleEndTransaction, EndOutsideTransaction,
                              EndOfTransaction
<1>3. CASE NumberedEvent
  BY <1>3, TransactionEventSession DEF NumberedEvent, Kinds, Demarcators
<1>4. CASE LinkedEvent
  BY <1>4, TransactionEventSession, NamesAssumption DEF LinkedEvent
<1>5. CASE UnlinkedEvent
  BY <1>5, UnknownEventSession, NamesAssumption DEF UnlinkedEvent
<1>6. CASE AddIPESNMapping \/ RemoveESNMappings \/ Tick \/ UNCHANGED vars
  <2>1. UNCHANGED <<active, pendingStart>>
    BY <1>6 DEF AddIPESNMapping, RemoveESNMappings, Tick, vars
  <2>2. QED
    BY <2>1 DEF SessionInv, StartMarksOne, WaitsForTriad, TriadRule, Active
<1>7. QED
  BY <1>1, <1>2, <1>3, <1>4, <1>5, <1>6 DEF Next, ProcessEvent

\* The start command marks one transaction at most and never waits beside an
\* open one, and lines wait exactly until their transaction's triad.
THEOREM SessionCorrect == Spec => [](StartMarksOne /\ WaitsForTriad)
<1>1. Init => SessionInv
  BY InitType DEF Init, SessionInv, StartMarksOne, WaitsForTriad, Active
<1>2. SessionInv => StartMarksOne /\ WaitsForTriad
  BY DEF SessionInv
<1>3. QED
  BY <1>1, <1>2, NextSession, PTL DEF Spec

\* Lines wait exactly until the start triad of their transaction is complete.
THEOREM LinesWaitForTriad == Spec => []WaitsForTriad
<1>1. StartMarksOne /\ WaitsForTriad => WaitsForTriad
  OBVIOUS
<1>2. QED
  BY <1>1, SessionCorrect, PTL

-----------------------------------------------------------------------------
(* Every line of a started transaction is streamed *)

\* EveryLineStreamed for one transaction.
StreamRule(t) ==
    t.triad => \A i \in DOMAIN t.other :
                  t.other[i].kind \notin Skipped => t.other[i] \in t.streamed

\* The invariant: the triad rule says what is released when the triad is
\* complete, the stream rule that nothing else was owed.
StreamInv == SessionInv /\ EveryLineStreamed

\* The elements of a concatenation are those of its parts.
LEMMA RangeOfConcat ==
    ASSUME NEW S, NEW a \in Seq(S), NEW b \in Seq(S)
    PROVE  Range(a) \subseteq Range(a \o b) /\ Range(b) \subseteq Range(a \o b)
<1>1. ASSUME NEW i \in DOMAIN a PROVE a[i] \in Range(a \o b)
  <2>1. i \in DOMAIN (a \o b) /\ (a \o b)[i] = a[i]
    OBVIOUS
  <2>2. QED
    BY <2>1 DEF Range
<1>2. ASSUME NEW i \in DOMAIN b PROVE b[i] \in Range(a \o b)
  <2>1. Len(a) + i \in DOMAIN (a \o b) /\ (a \o b)[Len(a) + i] = b[i]
    OBVIOUS
  <2>2. QED
    BY <2>1 DEF Range
<1>3. QED
  BY <1>1, <1>2 DEF Range

\* Recording and settling an event keeps the stream rule: the event itself is
\* streamed, and on completion of the triad all that waited.
LEMMA StreamRuleKept ==
    ASSUME now \in Nat, NEW t \in Transaction, TriadRule(t), StreamRule(t),
           NEW kind \in Kinds \ Demarcators
    PROVE  StreamRule(Settled(Recorded(t, kind), kind))
<1> DEFINE r == Recorded(t, kind)
           u == Settled(r, kind)
           first == IF CompletesTriad(r) THEN <<Stamped("StartTriad")>> \o r.pending ELSE <<>>
           second == IF (r.triad \/ CompletesTriad(r)) /\ kind \notin Skipped
                     THEN <<Stamped(kind)>> ELSE <<>>
<1>1. /\ r.triad = t.triad /\ r.pending = t.pending /\ r.streamed = t.streamed
      /\ r.other = IF kind \in MetaKinds \cup {"Header"} THEN t.other
                   ELSE Append(t.other, Stamped(kind))
  BY DEF Recorded, Transaction
<1>2. /\ u.other = r.other
      /\ u.triad = (r.triad \/ CompletesTriad(r))
      /\ u.streamed = r.streamed \cup Range(first \o second)
  BY DEF Settled, Recorded, Transaction, Outgoing
<1>3. t.other \in Seq(Item) /\ t.pending \in Seq(Item)
  BY DEF Transaction
<1>4. Stamped(kind) \in Item /\ Stamped("StartTriad") \in Item
  BY StampedType
<1>5. first \in Seq(Item) /\ second \in Seq(Item)
  <2>1. <<Stamped("StartTriad")>> \in Seq(Item) /\ <<Stamped(kind)>> \in Seq(Item)
    BY <1>4
  <2>2. <<Stamped("StartTriad")>> \o r.pending \in Seq(Item)
    BY <2>1, <1>1, <1>3
  <2>3. QED
    BY <2>1, <2>2
<1>6. Range(first) \subseteq u.streamed /\ Range(second) \subseteq u.streamed
  BY <1>2, <1>5, RangeOfConcat
<1>7. ASSUME u.triad, NEW i \in DOMAIN u.other, u.other[i].kind \notin Skipped
      PROVE  u.other[i] \in u.streamed
  <2>1. r.triad \/ CompletesTriad(r)
    BY <1>7, <1>2
  <2>2. CASE i \in DOMAIN t.other /\ u.other[i] = t.other[i]
    <3>1. CASE t.triad
      BY <3>1, <2>2, <1>1, <1>2, <1>7 DEF StreamRule
    <3>2. CASE ~t.triad
      <4>1. CompletesTriad(r) /\ r.pending = t.other
        BY <3>2, <2>1, <1>1 DEF TriadRule
      <4>2. t.other[i] \in Range(t.other)
        BY <2>2 DEF Range
      <4>3. Range(t.other) \subseteq Range(<<Stamped("StartTriad")>> \o t.other)
        <5>1. <<Stamped("StartTriad")>> \in Seq(Item)
          BY <1>4
        <5>2. QED
          BY <5>1, <1>3, RangeOfConcat
      <4>4. first = <<Stamped("StartTriad")>> \o t.other
        BY <4>1
      <4>5. QED
        BY <4>2, <4>3, <4>4, <1>6, <2>2
    <3>3. QED
      BY <3>1, <3>2 DEF Transaction
  <2>3. CASE ~(i \in DOMAIN t.other /\ u.other[i] = t.other[i])
    <3>1. u.other[i] = Stamped(kind)
      BY <2>3, <1>1, <1>2, <1>3, <1>4, <1>7
    <3>2. kind \notin Skipped
      BY <3>1, <1>7 DEF Stamped
    <3>3. second = <<Stamped(kind)>>
      BY <3>2, <2>1
    <3>4. 1 \in DOMAIN second /\ second[1] = Stamped(kind)
      BY <3>3
    <3>5. QED
      BY <3>1, <3>4, <1>6 DEF Range
  <2>4. QED
    BY <2>2, <2>3
<1>8. QED
  BY <1>7 DEF StreamRule

\* An event routed to a transaction leaves no line of it behind.
LEMMA TransactionEventStream ==
    ASSUME StreamInv, NEW s \in Seqs, NEW kind \in Kinds \ Demarcators,
           HandleTransactionEvent(s, kind)
    PROVE  EveryLineStreamed'
<1> DEFINE old == IF s \in Live THEN active[s] ELSE NewTransaction(pendingStart)
           t == Settled(Recorded(old, kind), kind)
<1>1. \A r \in Seqs : active'[r] = IF r = s THEN t
                                  ELSE IF r \in Live THEN active[r] ELSE NoTx
  BY DEF HandleTransactionEvent
<1>2. old \in Transaction /\ TriadRule(old)
  BY NewTransactionType, TriadRuleNew
     DEF StreamInv, SessionInv, WaitsForTriad, TypeOK, Live, Active
<1>3. StreamRule(old)
  BY DEF StreamInv, EveryLineStreamed, StreamRule, NewTransaction, Live
<1>4. StreamRule(t)
  BY <1>2, <1>3, StreamRuleKept DEF StreamInv, SessionInv, TypeOK
<1>5. ASSUME NEW r \in Active' PROVE StreamRule(active'[r])
  <2>1. CASE r = s
    BY <2>1, <1>1, <1>4
  <2>2. CASE r # s
    BY <2>2, <1>1, <1>5 DEF Active, Live, StreamInv, EveryLineStreamed, StreamRule
  <2>3. QED
    BY <2>1, <2>2
<1>6. QED
  BY <1>5 DEF EveryLineStreamed, StreamRule

\* Where the handlers clear the map, no line is owed.
LEMMA ClearedStream ==
    ASSUME active' = [r \in Seqs |-> NoTx]
    PROVE  EveryLineStreamed'
BY DEF EveryLineStreamed, Active

\* Every step keeps the stream invariant.
LEMMA NextStream == StreamInv /\ [Next]_vars => StreamInv'
<1> SUFFICES ASSUME StreamInv, [Next]_vars PROVE EveryLineStreamed'
  BY NextSession DEF StreamInv
<1>1. CASE StartEvent
  BY <1>1, ClearedStream DEF StartEvent, HandleStartTransaction
<1>2. CASE EndEvent
  BY <1>2, ClearedStream DEF EndEvent, HandleEndTransaction, EndOutsideTransaction,
                             EndOfTransaction
<1>3. CASE NumberedEvent
  BY <1>3, TransactionEventStream DEF NumberedEvent, Kinds, Demarcators
<1>4. CASE LinkedEvent
  BY <1>4, TransactionEventStream, NamesAssumption DEF LinkedEvent
<1>5. CASE UnlinkedEvent
  <2>1. active' = [r \in Seqs |-> NoTx]
    BY <1>5 DEF UnlinkedEvent, HandleUnknownEvent
  <2>2. QED
    BY <2>1, ClearedStream
<1>6. CASE AddIPESNMapping \/ RemoveESNMappings \/ Tick \/ UNCHANGED vars
  <2>1. UNCHANGED active
    BY <1>6 DEF AddIPESNMapping, RemoveESNMappings, Tick, vars
  <2>2. QED
    BY <2>1 DEF StreamInv, EveryLineStreamed, Active
<1>7. QED
  BY <1>1, <1>2, <1>3, <1>4, <1>5, <1>6 DEF Next, ProcessEvent

\* Every line of a started transaction that individual events are made of has
\* been offered, before the triad was complete or after.
THEOREM LinesStreamed == Spec => []EveryLineStreamed
<1>1. Init => StreamInv
  BY InitType DEF Init, StreamInv, SessionInv, StartMarksOne, WaitsForTriad,
                  EveryLineStreamed, Active
<1>2. StreamInv => EveryLineStreamed
  BY DEF StreamInv
<1>3. QED
  BY <1>1, <1>2, NextStream, PTL DEF Spec

-----------------------------------------------------------------------------
(* A message is held once, and nothing joins what has timed out *)

\* What is held arrived no later than the last event: with it a new message
\* differs from every one the machine holds.
HeldBefore == \A item \in HeldItems : item.at <= lastArrival

\* The invariant of the held messages.
HeldInv == TypeOK /\ HeldOnce /\ HeldBefore

\* What the cleanups leave.
KeptItems == (UNION {Range(active[s].other) : s \in Live})
                \cup (UNION {GroupItems(g) : g \in LiveGroups})

\* The step property of LateEventStartsAfresh.
NothingLateJoins ==
    /\ \A s \in Expired : Range(active[s].other) \cap HeldItems' = {}
    /\ \A g \in StaleGroups : GroupItems(g) \cap HeldItems' = {}

\* What the cleanups leave was held, by others than those that timed out.
LEMMA KeptApart ==
    ASSUME HeldOnce
    PROVE  /\ KeptItems \subseteq HeldItems
           /\ \A s \in Expired : Range(active[s].other) \cap KeptItems = {}
           /\ \A g \in StaleGroups : GroupItems(g) \cap KeptItems = {}
<1>1. KeptItems \subseteq HeldItems
  BY DEF KeptItems, HeldItems, Live, LiveGroups
<1>2. ASSUME NEW s \in Expired, NEW item \in Range(active[s].other), item \in KeptItems
      PROVE  FALSE
  <2>1. s \in Active
    BY DEF Expired
  <2>2. CASE \E r \in Live : item \in Range(active[r].other)
    BY <2>1, <2>2, <1>2 DEF HeldOnce, Live
  <2>3. CASE \E g \in LiveGroups : item \in GroupItems(g)
    BY <2>1, <2>3, <1>2 DEF HeldOnce, LiveGroups
  <2>4. QED
    BY <1>2, <2>2, <2>3 DEF KeptItems
<1>3. ASSUME NEW g \in StaleGroups, NEW item \in GroupItems(g), item \in KeptItems
      PROVE  FALSE
  <2>1. g \in groups
    BY DEF StaleGroups
  <2>2. CASE \E r \in Live : item \in Range(active[r].other)
    BY <2>1, <2>2, <1>3 DEF HeldOnce, Live
  <2>3. CASE \E h \in LiveGroups : item \in GroupItems(h)
    BY <2>1, <2>3, <1>3 DEF HeldOnce, LiveGroups
  <2>4. QED
    BY <1>3, <2>2, <2>3 DEF KeptItems
<1>4. QED
  BY <1>1, <1>2, <1>3

\* An event whose handler holds nothing but what the cleanups left and the
\* event itself keeps the arrival order and lets nothing late join.
LEMMA OnlyTheEventIsNew ==
    ASSUME HeldInv, NEW kind \in Kinds, now > lastArrival, lastArrival' = now,
           HeldItems' \subseteq KeptItems \cup {Stamped(kind)}
    PROVE  HeldBefore' /\ NothingLateJoins
<1>1. now \in Int /\ lastArrival \in Int
  BY DEF HeldInv, TypeOK, NoTime
<1>2. \A item \in HeldItems : item.at <= lastArrival /\ item.at \in Int
  <2>1. \A s \in Active : Range(active[s].other) \subseteq Item
    BY DEF HeldInv, TypeOK, Active, Transaction, Range
  <2>2. \A g \in groups : GroupItems(g) \subseteq Item
    BY DEF HeldInv, TypeOK, Group, GroupItems, Range
  <2>3. HeldItems \subseteq Item
    BY <2>1, <2>2 DEF HeldItems
  <2>4. QED
    BY <2>3 DEF HeldInv, HeldBefore, Item
<1>3. Stamped(kind).at = now
  BY DEF Stamped
<1>4. Stamped(kind) \notin HeldItems
  BY <1>1, <1>2, <1>3
<1>5. HeldBefore'
  <2>1. ASSUME NEW item \in HeldItems' PROVE item.at <= now
    <3>1. item \in HeldItems \/ item = Stamped(kind)
      BY <2>1, KeptApart DEF HeldInv
    <3>2. QED
      BY <3>1, <1>1, <1>2, <1>3
  <2>2. QED
    BY <2>1 DEF HeldBefore
<1>6. NothingLateJoins
  <2>1. \A s \in Expired : Range(active[s].other) \subseteq HeldItems
    BY DEF Expired, HeldItems
  <2>2. \A g \in StaleGroups : GroupItems(g) \subseteq HeldItems
    BY DEF StaleGroups, HeldItems
  <2>3. QED
    BY <2>1, <2>2, <1>4, KeptApart DEF HeldInv, NothingLateJoins
<1>7. QED
  BY <1>5, <1>6

\* A new message is held nowhere yet.
LEMMA EventIsNew ==
    ASSUME HeldInv, NEW kind \in Kinds, now > lastArrival
    PROVE  Stamped(kind) \notin HeldItems
<1>1. now \in Int /\ lastArrival \in Int
  BY DEF HeldInv, TypeOK, NoTime
<1>2. QED
  BY <1>1 DEF HeldInv, HeldBefore, Stamped

\* Appending to a sequence adds one element.
LEMMA RangeOfAppend ==
    ASSUME NEW S, NEW q \in Seq(S), NEW e \in S
    PROVE  Range(Append(q, e)) = Range(q) \cup {e}
<1>1. /\ DOMAIN Append(q, e) = DOMAIN q \cup {Len(q) + 1}
      /\ \A i \in DOMAIN q : Append(q, e)[i] = q[i]
      /\ Append(q, e)[Len(q) + 1] = e
  OBVIOUS
<1>2. QED
  BY <1>1 DEF Range

\* The events of a transaction that took one more.
LEMMA OneMoreEvent ==
    ASSUME now \in Nat, NEW t \in Transaction, NEW kind \in Kinds
    PROVE  Range(Settled(Recorded(t, kind), kind).other)
             \subseteq Range(t.other) \cup {Stamped(kind)}
<1>1. Settled(Recorded(t, kind), kind).other
        = IF kind \in MetaKinds \cup {"Header"} THEN t.other
          ELSE Append(t.other, Stamped(kind))
  BY DEF Settled, Recorded, Transaction
<1>2. t.other \in Seq(Item) /\ Stamped(kind) \in Item
  BY StampedType DEF Transaction
<1>3. Range(Append(t.other, Stamped(kind))) = Range(t.other) \cup {Stamped(kind)}
  BY <1>2, RangeOfAppend
<1>4. QED
  BY <1>1, <1>3

\* An event routed to a transaction is held there and nowhere else.
LEMMA TransactionEventHeld ==
    ASSUME HeldInv, NEW s \in Seqs, NEW kind \in Kinds,
           now > lastArrival, lastArrival' = now, HandleTransactionEvent(s, kind)
    PROVE  HeldOnce' /\ HeldBefore' /\ NothingLateJoins
<1> DEFINE old == IF s \in Live THEN active[s] ELSE NewTransaction(pendingStart)
           t == Settled(Recorded(old, kind), kind)
           new == Stamped(kind)
           before(r) == IF r \in Live THEN Range(active[r].other) ELSE {}
<1>1. /\ groups' = LiveGroups
      /\ \A r \in Seqs : active'[r] = IF r = s THEN t
                                     ELSE IF r \in Live THEN active[r] ELSE NoTx
  BY DEF HandleTransactionEvent
<1>2. old \in Transaction
  BY NewTransactionType DEF HeldInv, TypeOK, Live, Active
<1>3. Range(old.other) = before(s)
  BY DEF NewTransaction, Range
<1>4. Range(t.other) \subseteq before(s) \cup {new}
  BY <1>2, <1>3, OneMoreEvent DEF HeldInv, TypeOK
<1>5. ASSUME NEW r \in Active'
      PROVE  /\ r \in Seqs
             /\ Range(active'[r].other)
                  \subseteq before(r) \cup (IF r = s THEN {new} ELSE {})
  BY <1>1, <1>4 DEF Active
<1>6. new \notin HeldItems
  BY EventIsNew
<1>7. ASSUME NEW r \in Seqs
      PROVE  before(r) \subseteq KeptItems /\ (before(r) # {} => r \in Active)
  BY DEF KeptItems, Live
<1>8. KeptItems \subseteq HeldItems
  BY KeptApart DEF HeldInv
<1>9. HeldOnce'
  <2>1. ASSUME NEW r \in Active', NEW q \in Active', r # q
        PROVE  Range(active'[r].other) \cap Range(active'[q].other) = {}
    <3>1. before(r) \cap before(q) = {}
      BY <2>1 DEF HeldInv, HeldOnce, Live
    <3>2. new \notin before(r) /\ new \notin before(q)
      BY <1>5, <1>6, <1>7, <1>8
    <3>3. QED
      BY <2>1, <3>1, <3>2, <1>5
  <2>2. ASSUME NEW r \in Active', NEW g \in groups'
        PROVE  Range(active'[r].other) \cap GroupItems(g) = {}
    <3>1. g \in LiveGroups /\ g \in groups
      BY <1>1 DEF LiveGroups
    <3>2. before(r) \cap GroupItems(g) = {}
      BY <3>1 DEF HeldInv, HeldOnce, Live
    <3>3. new \notin GroupItems(g)
      BY <3>1, <1>6 DEF HeldItems
    <3>4. QED
      BY <3>2, <3>3, <1>5
  <2>3. ASSUME NEW g \in groups', NEW h \in groups', g # h
        PROVE  GroupItems(g) \cap GroupItems(h) = {}
    BY <2>3, <1>1 DEF HeldInv, HeldOnce, LiveGroups
  <2>4. QED
    BY <2>1, <2>2, <2>3 DEF HeldOnce, GroupItems
<1>10. HeldItems' \subseteq KeptItems \cup {new}
  <2>1. \A r \in Active' : Range(active'[r].other) \subseteq KeptItems \cup {new}
    BY <1>5, <1>7
  <2>2. \A g \in groups' : GroupItems(g) \subseteq KeptItems
    BY <1>1 DEF KeptItems
  <2>3. QED
    BY <2>1, <2>2 DEF HeldItems, GroupItems
<1>11. QED
  BY <1>9, <1>10, OnlyTheEventIsNew

\* An event outside any transaction is held in its window and nowhere else.
LEMMA UnknownEventHeld ==
    ASSUME HeldInv, NEW kind \in Kinds, Live = {},
           now > lastArrival, lastArrival' = now, HandleUnknownEvent(kind)
    PROVE  HeldOnce' /\ HeldBefore' /\ NothingLateJoins
<1> DEFINE new == Stamped(kind)
           same == {g \in LiveGroups : g.key = WindowKey}
           others == {g \in LiveGroups : g.key # WindowKey}
           before == IF same = {} THEN <<>> ELSE (CHOOSE g \in same : TRUE).events
           ext == Extended(kind)
<1>1. Active' = {}
  BY DEF HandleUnknownEvent, Active
<1>2. groups' \subseteq others \cup {ext}
  BY DEF HandleUnknownEvent
<1>3. same \subseteq groups /\ others \subseteq groups
  BY DEF LiveGroups
<1>4. /\ before \in Seq(Item)
      /\ same = {} => Range(before) = {}
      /\ same # {} => \E g \in same : Range(before) = GroupItems(g)
  <2>1. CASE same = {}
    BY <2>1 DEF Range
  <2>2. CASE same # {}
    <3> DEFINE g == CHOOSE g \in same : TRUE
    <3>1. g \in same
      BY <2>2
    <3>2. before = g.events
      BY <2>2
    <3>3. g \in Group
      BY <3>1, <1>3 DEF HeldInv, TypeOK
    <3>4. g.events \in Seq(Item)
      BY <3>3 DEF Group
    <3> HIDE DEF g
    <3>5. Range(before) = GroupItems(g)
      BY <3>2 DEF GroupItems
    <3>6. QED
      BY <2>2, <3>1, <3>2, <3>4, <3>5
  <2>3. QED
    BY <2>1, <2>2
<1>5. ext.events = Append(before, new)
  BY DEF Extended
<1> HIDE DEF before
<1>6. GroupItems(ext) = Range(before) \cup {new}
  <2>1. new \in Item
    BY StampedType DEF HeldInv, TypeOK
  <2>2. Range(Append(before, new)) = Range(before) \cup {new}
    BY <2>1, <1>4, RangeOfAppend
  <2>3. QED
    BY <2>2, <1>5 DEF GroupItems
<1> HIDE DEF ext
<1>7. new \notin HeldItems
  BY EventIsNew
<1>8. ASSUME NEW g \in others PROVE GroupItems(g) \cap GroupItems(ext) = {}
  <2>1. GroupItems(g) \cap Range(before) = {}
    BY <1>3, <1>4 DEF HeldInv, HeldOnce
  <2>2. new \notin GroupItems(g)
    BY <1>3, <1>7 DEF HeldItems
  <2>3. QED
    BY <2>1, <2>2, <1>6
<1>9. HeldOnce'
  <2>1. ASSUME NEW g \in groups', NEW h \in groups', g # h
        PROVE  GroupItems(g) \cap GroupItems(h) = {}
    <3>1. CASE g \in others /\ h \in others
      BY <3>1, <2>1, <1>3 DEF HeldInv, HeldOnce
    <3>2. CASE g = ext /\ h \in others
      BY <3>2, <1>8
    <3>3. CASE h = ext /\ g \in others
      BY <3>3, <1>8
    <3>4. QED
      BY <2>1, <3>1, <3>2, <3>3, <1>2
  <2>2. QED
    BY <2>1, <1>1 DEF HeldOnce, GroupItems
<1>10. HeldItems' \subseteq KeptItems \cup {new}
  <2>1. \A g \in LiveGroups : GroupItems(g) \subseteq KeptItems
    BY DEF KeptItems
  <2>2. Range(before) \subseteq KeptItems
    BY <2>1, <1>4
  <2>3. \A g \in groups' : GroupItems(g) \subseteq KeptItems \cup {new}
    BY <2>1, <2>2, <1>2, <1>6
  <2>4. QED
    BY <2>3, <1>1 DEF HeldItems, GroupItems
<1>11. QED
  BY <1>9, <1>10, OnlyTheEventIsNew

\* A demarcator holds nothing new.
LEMMA DemarcatorHeld ==
    ASSUME HeldInv, HandleStartTransaction \/ HandleEndTransaction,
           now > lastArrival, lastArrival' = now
    PROVE  HeldOnce' /\ HeldBefore' /\ NothingLateJoins
<1>1. Active' = {} /\ groups' \subseteq LiveGroups
  BY DEF HandleStartTransaction, HandleEndTransaction, EndOutsideTransaction,
         EndOfTransaction, Active
<1>2. HeldOnce'
  BY <1>1 DEF HeldInv, HeldOnce, LiveGroups, GroupItems
<1>3. HeldItems' \subseteq KeptItems
  BY <1>1 DEF HeldItems, KeptItems, GroupItems
<1>4. "Start" \in Kinds
  BY DEF Kinds
<1>5. QED
  BY <1>2, <1>3, <1>4, OnlyTheEventIsNew

\* Every step keeps the invariant of the held messages.
LEMMA NextHeld ==
    HeldInv /\ [Next]_vars
      => HeldInv' /\ (lastArrival' # lastArrival => NothingLateJoins)
<1> SUFFICES ASSUME HeldInv, [Next]_vars
             PROVE  /\ HeldOnce' /\ HeldBefore'
                    /\ lastArrival' # lastArrival => NothingLateJoins
  BY NextType DEF HeldInv
<1>1. CASE StartEvent
  BY <1>1, DemarcatorHeld DEF StartEvent, Arrival
<1>2. CASE EndEvent
  BY <1>2, DemarcatorHeld DEF EndEvent, Arrival
<1>3. CASE NumberedEvent
  BY <1>3, TransactionEventHeld DEF NumberedEvent, Arrival, Kinds
<1>4. CASE LinkedEvent
  BY <1>4, TransactionEventHeld, NamesAssumption DEF LinkedEvent, Arrival
<1>5. CASE UnlinkedEvent
  BY <1>5, UnknownEventHeld, NamesAssumption DEF UnlinkedEvent, Arrival
<1>6. CASE AddIPESNMapping \/ RemoveESNMappings \/ Tick \/ UNCHANGED vars
  <2>1. UNCHANGED <<active, groups, lastArrival>>
    BY <1>6 DEF AddIPESNMapping, RemoveESNMappings, Tick, vars
  <2>2. QED
    BY <2>1 DEF HeldInv, HeldOnce, HeldBefore, HeldItems, GroupItems, Active
<1>7. QED
  BY <1>1, <1>2, <1>3, <1>4, <1>5, <1>6 DEF Next, ProcessEvent

\* The start state holds nothing.
LEMMA InitHeld == Init => HeldInv
BY InitType DEF Init, HeldInv, HeldOnce, HeldBefore, HeldItems, Active

\* A message is held by one transaction or one window of unknown events.
THEOREM HeldInOnePlace == Spec => []HeldOnce
<1>1. HeldInv => HeldOnce
  BY DEF HeldInv
<1>2. HeldInv /\ [Next]_vars => HeldInv'
  BY NextHeld
<1>3. QED
  BY <1>1, <1>2, InitHeld, PTL DEF Spec

\* No event joins a transaction or a window that had already timed out.
THEOREM NothingJoinsLate == Spec => LateEventStartsAfresh
<1>1. HeldInv /\ [Next]_vars => HeldInv'
  BY NextHeld
<1>2. HeldInv /\ [Next]_vars =>
        [lastArrival' # lastArrival =>
           /\ \A s \in Expired : Range(active[s].other) \cap HeldItems' = {}
           /\ \A g \in StaleGroups : GroupItems(g) \cap HeldItems' = {}]_vars
  BY NextHeld DEF NothingLateJoins
<1>3. QED
  BY <1>1, <1>2, InitHeld, PTL DEF Spec, LateEventStartsAfresh

-----------------------------------------------------------------------------
(* The windows of unknown events do not pile up *)

\* Every window that is kept was touched within the unknown timeout, has the
\* number of its last event's window, and is the only one with that number.
WindowRule ==
    /\ \A g \in groups : /\ g.last <= lastArrival
                         /\ lastArrival - g.last <= UnknownTimeout
                         /\ g.key = g.last \div UnknownWindow
    /\ \A g, h \in groups : g.key = h.key => g = h

\* With the types, without which no arithmetic is possible.
WindowInv == TypeOK /\ WindowRule

\* Dividing an integer by a positive number.
LEMMA Division ==
    ASSUME NEW a \in Int, NEW k \in Nat \ {0}
    PROVE  /\ a \div k \in Int /\ a % k \in 0 .. k - 1
           /\ a = k * (a \div k) + (a % k)
BY SMT

\* Multiplying by a positive number keeps the order.
LEMMA Multiples ==
    ASSUME NEW a \in Int, NEW b \in Int, NEW k \in Nat \ {0}
    PROVE  /\ a <= b => k * a <= k * b
           /\ k * a < k * b => a < b
<1>1. ASSUME NEW x \in Int, NEW y \in Int, x <= y PROVE k * x <= k * y
  BY <1>1
<1>2. QED
  BY <1>1

\* An earlier instant has no later window.
LEMMA WindowsInOrder ==
    ASSUME NEW a \in Int, NEW b \in Int, NEW k \in Nat \ {0}, a <= b
    PROVE  a \div k <= b \div k
<1>1. k * (a \div k) < k * (b \div k + 1)
  BY Division
<1>2. QED
  BY <1>1, Multiples, Division

\* A span of T instants touches at most ceil(T / k) + 1 windows.
LEMMA WindowsInSpan ==
    ASSUME NEW a \in Int, NEW T \in Nat, NEW k \in Nat \ {0}
    PROVE  a \div k - (a - T) \div k <= (T + k - 1) \div k
<1> DEFINE q == a \div k
           lo == (a - T) \div k
           m == (T + k - 1) \div k
<1>1. /\ q \in Int /\ lo \in Int /\ m \in Int
      /\ k * q <= a
      /\ a - T < k * lo + k
      /\ T <= k * m
  <2>1. q \in Int /\ k * q <= a
    BY Division
  <2>2. lo \in Int /\ a - T < k * lo + k
    <3>1. a - T \in Int
      OBVIOUS
    <3>2. (a - T) % k \in 0 .. k - 1 /\ a - T = k * lo + ((a - T) % k) /\ lo \in Int
      BY <3>1, Division
    <3> HIDE DEF lo
    <3>3. QED
      BY <3>2
  <2>3. m \in Int /\ T <= k * m
    <3>1. T + k - 1 \in Int
      OBVIOUS
    <3>2. /\ (T + k - 1) % k \in 0 .. k - 1 /\ m \in Int
          /\ T + k - 1 = k * m + ((T + k - 1) % k)
      BY <3>1, Division
    <3> HIDE DEF m
    <3>3. QED
      BY <3>2
  <2>4. QED
    BY <2>1, <2>2, <2>3
<1> HIDE DEF q, lo, m
<1>2. k * q < k * lo + k + k * m
  BY <1>1
<1>3. k * lo + k + k * m = k * (lo + 1 + m)
  BY <1>1
<1>4. q < lo + 1 + m
  BY <1>1, <1>2, <1>3, Multiples
<1>5. q - lo <= m
  BY <1>1, <1>4
<1>6. QED
  BY <1>5 DEF q, lo, m

\* An event outside any transaction leaves the windows in order.
LEMMA UnknownEventWindow ==
    ASSUME WindowInv, NEW kind \in Kinds,
           now > lastArrival, lastArrival' = now, HandleUnknownEvent(kind)
    PROVE  WindowRule'
<1> DEFINE others == {g \in LiveGroups : g.key # WindowKey}
           ext == Extended(kind)
<1>1. ext.key = now \div UnknownWindow /\ ext.last = now
  BY DEF Extended, WindowKey
<1> HIDE DEF ext
<1>2. groups' \subseteq others \cup {ext}
  BY DEF HandleUnknownEvent, ext
<1>3. now \in Nat /\ lastArrival \in Int /\ UnknownTimeout \in Nat
  BY TimeAssumption DEF WindowInv, TypeOK, NoTime
<1>4. ASSUME NEW g \in others
      PROVE  /\ g.last <= now /\ now - g.last <= UnknownTimeout
             /\ g.key = g.last \div UnknownWindow /\ g.key # ext.key
  <2>1. g \in groups /\ g \notin StaleGroups /\ g.key # WindowKey
    BY DEF LiveGroups
  <2>2. g.last \in Nat
    BY <2>1 DEF WindowInv, TypeOK, Group
  <2>3. ~(now - g.last > UnknownTimeout)
    BY <2>1 DEF StaleGroups
  <2>4. QED
    BY <2>1, <2>2, <2>3, <1>1, <1>3 DEF WindowInv, WindowRule, WindowKey
<1>5. \A g, h \in others : g.key = h.key => g = h
  BY DEF WindowInv, WindowRule, LiveGroups
<1>6. \A g \in groups' : /\ g.last <= now /\ now - g.last <= UnknownTimeout
                         /\ g.key = g.last \div UnknownWindow
  BY <1>1, <1>2, <1>3, <1>4
<1>7. \A g, h \in groups' : g.key = h.key => g = h
  BY <1>2, <1>4, <1>5
<1>8. QED
  BY <1>6, <1>7 DEF WindowRule

\* An event that opens and extends no window leaves the windows in order.
LEMMA OtherEventWindow ==
    ASSUME WindowInv, now > lastArrival, lastArrival' = now, groups' \subseteq LiveGroups
    PROVE  WindowRule'
<1>1. now \in Nat /\ lastArrival \in Int /\ UnknownTimeout \in Nat
  BY TimeAssumption DEF WindowInv, TypeOK, NoTime
<1>2. ASSUME NEW g \in groups'
      PROVE  /\ g.last <= now /\ now - g.last <= UnknownTimeout
             /\ g.key = g.last \div UnknownWindow
  <2>1. g \in groups /\ g \notin StaleGroups
    BY DEF LiveGroups
  <2>2. g.last \in Nat
    BY <2>1 DEF WindowInv, TypeOK, Group
  <2>3. ~(now - g.last > UnknownTimeout)
    BY <2>1 DEF StaleGroups
  <2>4. QED
    BY <2>1, <2>2, <2>3, <1>1 DEF WindowInv, WindowRule
<1>3. \A g, h \in groups' : g.key = h.key => g = h
  BY DEF WindowInv, WindowRule, LiveGroups
<1>4. QED
  BY <1>2, <1>3 DEF WindowRule

\* Every step leaves the windows in order.
LEMMA NextWindow == WindowInv /\ [Next]_vars => WindowInv'
<1> SUFFICES ASSUME WindowInv, [Next]_vars PROVE WindowRule'
  BY NextType DEF WindowInv
<1>1. CASE StartEvent
  BY <1>1, OtherEventWindow DEF StartEvent, Arrival, HandleStartTransaction
<1>2. CASE EndEvent
  BY <1>2, OtherEventWindow DEF EndEvent, Arrival, HandleEndTransaction,
                                EndOutsideTransaction, EndOfTransaction
<1>3. CASE NumberedEvent
  BY <1>3, OtherEventWindow DEF NumberedEvent, Arrival, HandleTransactionEvent
<1>4. CASE LinkedEvent
  BY <1>4, OtherEventWindow DEF LinkedEvent, Arrival, HandleTransactionEvent
<1>5. CASE UnlinkedEvent
  BY <1>5, UnknownEventWindow, NamesAssumption DEF UnlinkedEvent, Arrival
<1>6. CASE AddIPESNMapping \/ RemoveESNMappings \/ Tick \/ UNCHANGED vars
  <2>1. UNCHANGED <<groups, lastArrival>>
    BY <1>6 DEF AddIPESNMapping, RemoveESNMappings, Tick, vars
  <2>2. QED
    BY <2>1 DEF WindowInv, WindowRule
<1>7. QED
  BY <1>1, <1>2, <1>3, <1>4, <1>5, <1>6 DEF Next, ProcessEvent

\* Windows with different numbers in the span of a timeout are few.
LEMMA WindowsFew == WindowInv => WindowsBounded
<1> SUFFICES ASSUME WindowInv PROVE WindowsBounded
  OBVIOUS
<1> DEFINE lo == (lastArrival - UnknownTimeout) \div UnknownWindow
           hi == lastArrival \div UnknownWindow
           m == (UnknownTimeout + UnknownWindow - 1) \div UnknownWindow
           f == [g \in groups |-> g.key]
<1>1. /\ UnknownTimeout \in Nat /\ UnknownWindow \in Nat \ {0}
      /\ lastArrival \in Int /\ lastArrival - UnknownTimeout \in Int
      /\ UnknownTimeout + UnknownWindow - 1 \in Nat
  BY TimeAssumption DEF WindowInv, TypeOK, NoTime
<1>2. lo \in Int /\ hi \in Int /\ m \in Int /\ 0 <= m
  <2>1. 0 \div UnknownWindow = 0
    BY <1>1
  <2>2. 0 \div UnknownWindow <= m
    BY <1>1, WindowsInOrder
  <2>3. QED
    BY <1>1, <2>1, <2>2, Division
<1>3. hi - lo <= m
  BY <1>1, WindowsInSpan
<1>4. ASSUME NEW g \in groups PROVE g.key \in lo .. hi
  <2>1. /\ g.last \in Nat /\ g.key \in Nat
        /\ lastArrival - UnknownTimeout <= g.last /\ g.last <= lastArrival
        /\ g.key = g.last \div UnknownWindow
    BY <1>1 DEF WindowInv, WindowRule, TypeOK, Group
  <2>2. lo <= g.last \div UnknownWindow /\ g.last \div UnknownWindow <= hi
    BY <1>1, <2>1, WindowsInOrder
  <2>3. QED
    BY <2>1, <2>2, <1>2
<1> HIDE DEF lo, hi, m
<1>5. f \in Injection(groups, lo .. hi)
  BY <1>4 DEF WindowInv, WindowRule, Injection, IsInjective
<1>6. /\ IsFiniteSet(lo .. hi)
      /\ Cardinality(lo .. hi) = IF lo > hi THEN 0 ELSE hi - lo + 1
  BY <1>2, FS_Interval
<1>7. IsFiniteSet(groups) /\ Cardinality(groups) <= Cardinality(lo .. hi)
  BY <1>5, <1>6, FS_Injection
<1>8. Cardinality(groups) \in Nat
  BY <1>7, FS_CardinalityType
<1>9. Cardinality(groups) <= m + 1
  BY <1>2, <1>3, <1>6, <1>7, <1>8
<1>10. QED
  BY <1>9 DEF WindowsBounded, m

\* At most as many windows are kept as can start within the unknown timeout.
THEOREM WindowsDoNotPileUp == Spec => []WindowsBounded
<1>1. Init => WindowInv
  BY InitType DEF Init, WindowInv, WindowRule
<1>2. QED
  BY <1>1, NextWindow, WindowsFew, PTL DEF Spec

-----------------------------------------------------------------------------
(* No line is offered twice to one camera *)

\* No value is twice in a sequence.
Distinct(q) == \A i, j \in DOMAIN q : q[i] = q[j] => i = j

\* What was streamed arrived no later than the last event; the lines of a
\* transaction and the cameras of the register are different ones.
OnceRule ==
    /\ Distinct(esns)
    /\ \A s \in Active : /\ Distinct(active[s].other)
                         /\ \A e \in active[s].streamed : e.at <= lastArrival

\* It needs the order within a session and what is held where.
OnceInv == SessionInv /\ HeldInv /\ OnceRule

\* No event of a sequence of sends is in S, and no camera gets one twice.
NewAndOnce(sends, S) ==
    /\ \A i \in DOMAIN sends : sends[i].event \notin S
    /\ \A i, j \in DOMAIN sends :
            sends[i].event = sends[j].event /\ sends[i].esn = sends[j].esn => i = j

\* Appending a value that is not there yet keeps a sequence distinct.
LEMMA DistinctAppend ==
    ASSUME NEW S, NEW q \in Seq(S), Distinct(q), NEW e \in S, e \notin Range(q)
    PROVE  Distinct(Append(q, e))
<1>1. /\ DOMAIN Append(q, e) = DOMAIN q \cup {Len(q) + 1}
      /\ \A i \in DOMAIN q : Append(q, e)[i] = q[i]
      /\ Append(q, e)[Len(q) + 1] = e
  OBVIOUS
<1>2. \A i \in DOMAIN q : q[i] # e
  BY DEF Range
<1>3. QED
  BY <1>1, <1>2 DEF Distinct

\* Distinct sequences with nothing in common make a distinct one.
LEMMA DistinctConcat ==
    ASSUME NEW S, NEW a \in Seq(S), NEW b \in Seq(S), Distinct(a), Distinct(b),
           Range(a) \cap Range(b) = {}
    PROVE  Distinct(a \o b)
<1>1. ASSUME NEW i \in DOMAIN (a \o b)
      PROVE  \/ i \in DOMAIN a /\ (a \o b)[i] = a[i]
             \/ i - Len(a) \in DOMAIN b /\ (a \o b)[i] = b[i - Len(a)]
                /\ i \notin DOMAIN a
  OBVIOUS
<1>2. \A i \in DOMAIN a, j \in DOMAIN b : a[i] # b[j]
  BY DEF Range
<1>3. ASSUME NEW i \in DOMAIN (a \o b), NEW j \in DOMAIN (a \o b),
             (a \o b)[i] = (a \o b)[j]
      PROVE  i = j
  <2>1. i \in Int /\ j \in Int /\ Len(a) \in Nat
    OBVIOUS
  <2>2. CASE i \in DOMAIN a /\ (a \o b)[i] = a[i]
    BY <2>1, <2>2, <1>1, <1>2, <1>3 DEF Distinct
  <2>3. CASE i - Len(a) \in DOMAIN b /\ (a \o b)[i] = b[i - Len(a)]
    <3>1. j - Len(a) \in DOMAIN b /\ (a \o b)[j] = b[j - Len(a)]
      BY <2>3, <1>1, <1>2, <1>3
    <3>2. i - Len(a) = j - Len(a)
      BY <2>3, <3>1, <1>3 DEF Distinct
    <3>3. QED
      BY <2>1, <3>2
  <2>4. QED
    BY <2>2, <2>3, <1>1
<1>4. QED
  BY <1>3 DEF Distinct

\* The values of a concatenation are those of its parts.
LEMMA RangeInConcat ==
    ASSUME NEW S, NEW a \in Seq(S), NEW b \in Seq(S)
    PROVE  Range(a \o b) \subseteq Range(a) \cup Range(b)
<1>1. ASSUME NEW i \in DOMAIN (a \o b)
      PROVE  \/ i \in DOMAIN a /\ (a \o b)[i] = a[i]
             \/ i - Len(a) \in DOMAIN b /\ (a \o b)[i] = b[i - Len(a)]
  OBVIOUS
<1>2. QED
  BY <1>1 DEF Range

\* A sequence of one value.
LEMMA OneValue ==
    ASSUME NEW e
    PROVE  Range(<<e>>) = {e} /\ Distinct(<<e>>)
BY DEF Range, Distinct

\* Positions in a table of k columns are told apart by row and column.
LEMMA RowAndColumn ==
    ASSUME NEW a \in Int, NEW b \in Int, NEW k \in Nat \ {0},
           a % k = b % k, a \div k = b \div k
    PROVE  a = b
BY Division

\* The positions of a table of n rows and k columns.
LEMMA InTable ==
    ASSUME NEW n \in Nat, NEW k \in Nat \ {0}, NEW i \in 1 .. n * k
    PROVE  (i - 1) \div k \in 0 .. n - 1 /\ (i - 1) % k \in 0 .. k - 1
<1> DEFINE row == (i - 1) \div k
           col == (i - 1) % k
<1>1. n * k = k * n /\ n * k \in Nat
  OBVIOUS
<1>2. i - 1 \in Int /\ 0 <= i - 1 /\ i - 1 < k * n
  BY <1>1
<1>3. row \in Int /\ col \in 0 .. k - 1 /\ i - 1 = k * row + col
  BY <1>2, Division
<1> HIDE DEF row, col
<1>4. row < n
  <2>1. k * row < k * n
    BY <1>2, <1>3
  <2>2. QED
    BY <2>1, <1>3, Multiples
<1>5. 0 <= row
  <2>1. k * 0 < k * (row + 1)
    <3>1. k * (row + 1) = k * row + k /\ k * 0 = 0
      BY <1>3
    <3>2. QED
      BY <3>1, <1>2, <1>3
  <2>2. 0 < row + 1
    BY <2>1, <1>3, Multiples
  <2>3. QED
    BY <2>2, <1>3
<1>6. QED
  BY <1>3, <1>4, <1>5 DEF row, col

\* Sending distinct events to distinct cameras offers each to each once.
LEMMA SendsOnce ==
    ASSUME esns \in Seq(ESNs), Distinct(esns), NEW s, NEW t, NEW S,
           NEW events \in Seq(Item), Distinct(events), Range(events) \cap S = {}
    PROVE  NewAndOnce(SendToNS92(s, t, events), S)
<1> DEFINE k == Len(Targets)
           sends == SendToNS92(s, t, events)
           row(i) == (i - 1) \div k
           col(i) == (i - 1) % k
<1>1. Distinct(Targets) /\ k \in Nat \ {0} /\ DOMAIN Targets = 1 .. k
  <2>1. CASE esns = <<>>
    <3>1. Targets = <<DefaultESN>>
      BY <2>1 DEF Targets
    <3>2. Distinct(Targets)
      BY <3>1, OneValue
    <3>3. QED
      BY <3>1, <3>2
  <2>2. CASE esns # <<>>
    <3>1. Targets = esns
      BY <2>2 DEF Targets
    <3>2. QED
      BY <3>1, <2>2
  <2>3. QED
    BY <2>1, <2>2
<1>2. /\ DOMAIN sends = 1 .. Len(events) * k
      /\ \A i \in DOMAIN sends : /\ sends[i].event = events[row(i) + 1]
                                 /\ sends[i].esn = Targets[col(i) + 1]
  BY DEF SendToNS92
<1> HIDE DEF k, sends
<1>3. ASSUME NEW i \in DOMAIN sends
      PROVE  /\ i - 1 \in Int
             /\ row(i) + 1 \in DOMAIN events /\ col(i) + 1 \in DOMAIN Targets
             /\ row(i) \in Int /\ col(i) \in Int
  <2>1. i \in 1 .. Len(events) * k /\ Len(events) \in Nat /\ DOMAIN events = 1 .. Len(events)
    BY <1>2
  <2>2. row(i) \in 0 .. Len(events) - 1 /\ col(i) \in 0 .. k - 1
    BY <1>1, <2>1, InTable
  <2> HIDE DEF row, col
  <2>3. QED
    BY <2>1, <2>2, <1>1
<1>4. ASSUME NEW i \in DOMAIN sends PROVE sends[i].event \notin S
  BY <1>2, <1>3 DEF Range
<1>5. ASSUME NEW i \in DOMAIN sends, NEW j \in DOMAIN sends,
             sends[i].event = sends[j].event, sends[i].esn = sends[j].esn
      PROVE  i = j
  <2>1. row(i) + 1 = row(j) + 1 /\ col(i) + 1 = col(j) + 1
    <3>1. /\ events[row(i) + 1] = events[row(j) + 1]
          /\ Targets[col(i) + 1] = Targets[col(j) + 1]
      BY <1>2, <1>5
    <3>2. /\ row(i) + 1 \in DOMAIN events /\ row(j) + 1 \in DOMAIN events
          /\ col(i) + 1 \in DOMAIN Targets /\ col(j) + 1 \in DOMAIN Targets
      BY <1>3
    <3> HIDE DEF row, col
    <3>3. row(i) + 1 = row(j) + 1
      BY <3>1, <3>2 DEF Distinct
    <3>4. col(i) + 1 = col(j) + 1
      BY <1>1, <3>1, <3>2 DEF Distinct
    <3>5. QED
      BY <3>3, <3>4
  <2>2. row(i) = row(j) /\ col(i) = col(j)
    BY <2>1, <1>3
  <2>3. i - 1 = j - 1
    BY <2>2, <1>1, <1>3, RowAndColumn
  <2>4. QED
    BY <2>3, <1>2
<1>6. NewAndOnce(sends, S)
  BY <1>4, <1>5 DEF NewAndOnce
<1>7. QED
  BY <1>6 DEF sends

\* What an event releases is new to its transaction, and each item once.
LEMMA ReleasedOnce ==
    ASSUME now \in Nat, lastArrival \in Int, now > lastArrival,
           NEW t \in Transaction, TriadRule(t), Distinct(t.other),
           \A e \in Range(t.other) \cup t.streamed : e.at <= lastArrival,
           NEW kind \in Kinds
    PROVE  LET r == Recorded(t, kind)
           IN  /\ Outgoing(r, kind) \in Seq(Item) /\ Distinct(Outgoing(r, kind))
               /\ Range(Outgoing(r, kind)) \cap t.streamed = {}
               /\ \A e \in Range(Outgoing(r, kind)) : e.at <= now
<1> DEFINE r == Recorded(t, kind)
           triad == Stamped("StartTriad")
           new == Stamped(kind)
           first == IF CompletesTriad(r) THEN <<triad>> \o r.pending ELSE <<>>
           second == IF (r.triad \/ CompletesTriad(r)) /\ kind \notin Skipped
                     THEN <<new>> ELSE <<>>
<1>1. r.triad = t.triad /\ r.pending = t.pending
  BY DEF Recorded, Transaction
<1>2. triad \in Item /\ new \in Item /\ triad.at = now /\ new.at = now /\ triad # new
  BY StampedType DEF Stamped, Kinds
<1>3. \A e \in Range(t.other) \cup t.streamed : e # triad /\ e # new
  BY <1>2
<1>4. /\ first \in Seq(Item) /\ Distinct(first)
      /\ Range(first) \cap t.streamed = {} /\ new \notin Range(first)
      /\ \A e \in Range(first) : e.at <= now
  <2>1. CASE CompletesTriad(r)
    <3>1. r.pending = t.other /\ t.streamed = {}
      BY <2>1, <1>1 DEF CompletesTriad, TriadRule
    <3>2. <<triad>> \in Seq(Item) /\ t.other \in Seq(Item)
      BY <1>2 DEF Transaction
    <3>3. Range(<<triad>>) = {triad} /\ Distinct(<<triad>>)
      BY OneValue
    <3>4. triad \notin Range(t.other) /\ new \notin Range(t.other)
      BY <1>3
    <3>5. first = <<triad>> \o t.other
      BY <2>1, <3>1
    <3> HIDE DEF triad, new, first
    <3>6. Distinct(first)
      BY <3>2, <3>3, <3>4, <3>5, DistinctConcat
    <3>7. Range(first) \subseteq {triad} \cup Range(t.other)
      BY <3>2, <3>3, <3>5, RangeInConcat
    <3>8. \A e \in Range(t.other) : e.at <= now
      <4>1. \A e \in Range(t.other) : e \in Item /\ e.at \in Nat
        <5>1. \A e \in Range(t.other) : e \in Item
          BY <3>2 DEF Range
        <5>2. QED
          BY <5>1 DEF Item
      <4>2. QED
        BY <4>1
    <3>9. first \in Seq(Item)
      BY <3>2, <3>5
    <3>10. QED
      BY <1>2, <3>1, <3>4, <3>6, <3>7, <3>8, <3>9
  <2>2. CASE ~CompletesTriad(r)
    BY <2>2 DEF Range, Distinct
  <2>3. QED
    BY <2>1, <2>2
<1>5. /\ second \in Seq(Item) /\ Distinct(second)
      /\ Range(second) \subseteq {new} /\ new \notin t.streamed
  <2>1. <<new>> \in Seq(Item) /\ <<>> \in Seq(Item)
    BY <1>2
  <2>2. Range(<<new>>) = {new} /\ Distinct(<<new>>)
    BY OneValue
  <2>3. Range(<<>>) = {} /\ Distinct(<<>>)
    BY DEF Range, Distinct
  <2> HIDE DEF new
  <2>4. QED
    BY <2>1, <2>2, <2>3, <1>3
<1>6. Outgoing(r, kind) = first \o second
  BY DEF Outgoing
<1> HIDE DEF new, first, second, r
<1>7. Range(first) \cap Range(second) = {}
  BY <1>4, <1>5
<1>8. first \o second \in Seq(Item) /\ Distinct(first \o second)
  BY <1>4, <1>5, <1>7, DistinctConcat
<1>9. Range(first \o second) \subseteq Range(first) \cup {new}
  BY <1>4, <1>5, RangeInConcat
<1>10. QED
  BY <1>2, <1>4, <1>5, <1>6, <1>8, <1>9 DEF r

\* An event routed to a transaction keeps the rule, and what it sends is new
\* to the transaction and goes to each camera once.
LEMMA TransactionEventOnce ==
    ASSUME OnceInv, NEW s \in Seqs, NEW kind \in Kinds,
           now > lastArrival, lastArrival' = now, UNCHANGED esns,
           HandleTransactionEvent(s, kind)
    PROVE  /\ OnceRule'
           /\ \A i \in DOMAIN ns92' : ns92'[i].tx = s
           /\ NewAndOnce(ns92', IF s \in Live THEN active[s].streamed ELSE {})
<1> DEFINE old == IF s \in Live THEN active[s] ELSE NewTransaction(pendingStart)
           r == Recorded(old, kind)
           t == Settled(r, kind)
           out == Outgoing(r, kind)
<1>1. /\ ns92' = SendToNS92(s, r, out)
      /\ \A q \in Seqs : active'[q] = IF q = s THEN t
                                     ELSE IF q \in Live THEN active[q] ELSE NoTx
  BY DEF HandleTransactionEvent
<1>2. now \in Nat /\ lastArrival \in Int /\ esns \in Seq(ESNs)
  BY DEF OnceInv, HeldInv, TypeOK, NoTime
<1>3. old \in Transaction /\ TriadRule(old)
  BY NewTransactionType, TriadRuleNew
     DEF OnceInv, SessionInv, WaitsForTriad, TypeOK, Live, Active
<1>4. Distinct(old.other) /\ \A e \in Range(old.other) \cup old.streamed : e.at <= lastArrival
  <2>1. CASE s \in Live
    <3>1. s \in Active /\ old = active[s]
      BY <2>1 DEF Live
    <3>2. Range(active[s].other) \subseteq HeldItems
      BY <3>1 DEF HeldItems
    <3>3. QED
      BY <3>1, <3>2 DEF OnceInv, OnceRule, HeldInv, HeldBefore
  <2>2. CASE s \notin Live
    <3>1. old.other = <<>> /\ old.streamed = {}
      BY <2>2 DEF NewTransaction
    <3>2. QED
      BY <3>1 DEF Distinct, Range
  <2>3. QED
    BY <2>1, <2>2
<1> HIDE DEF old
<1>5. /\ out \in Seq(Item) /\ Distinct(out) /\ Range(out) \cap old.streamed = {}
      /\ \A e \in Range(out) : e.at <= now
  BY <1>2, <1>3, <1>4, ReleasedOnce
<1>6. NewAndOnce(ns92', old.streamed)
  BY <1>1, <1>2, <1>5, SendsOnce DEF OnceInv, OnceRule
<1>7. \A i \in DOMAIN ns92' : ns92'[i].tx = s
  BY <1>1 DEF SendToNS92
<1>8. Distinct(t.other)
  <2>1. t.other = IF kind \in MetaKinds \cup {"Header"} THEN old.other
                  ELSE Append(old.other, Stamped(kind))
    BY <1>3 DEF Settled, Recorded, Transaction
  <2>2. old.other \in Seq(Item) /\ Stamped(kind) \in Item
    BY <1>2, <1>3, StampedType DEF Transaction
  <2>3. Stamped(kind) \notin Range(old.other)
    <3>1. Stamped(kind).at = now
      BY DEF Stamped
    <3>2. QED
      BY <3>1, <1>2, <1>4
  <2>4. Distinct(Append(old.other, Stamped(kind)))
    BY <2>2, <2>3, <1>4, DistinctAppend
  <2>5. QED
    BY <2>1, <2>4, <1>4
<1>9. \A e \in t.streamed : e.at <= now
  <2>1. t.streamed = old.streamed \cup Range(out)
    BY <1>3 DEF Settled, Recorded, Transaction
  <2>2. \A e \in old.streamed : e \in Item /\ e.at \in Nat
    BY <1>3 DEF Transaction, Item
  <2>3. QED
    BY <2>1, <2>2, <1>2, <1>4, <1>5
<1>10. OnceRule'
  <2>1. ASSUME NEW q \in Active'
        PROVE  Distinct(active'[q].other) /\ \A e \in active'[q].streamed : e.at <= now
    <3>1. CASE q = s
      BY <3>1, <1>1, <1>8, <1>9
    <3>2. CASE q # s
      <4>1. q \in Active /\ active'[q] = active[q]
        BY <2>1, <3>2, <1>1 DEF Active, Live
      <4>2. active[q] \in Transaction
        BY <4>1 DEF OnceInv, HeldInv, TypeOK, Active
      <4>3. \A e \in active[q].streamed : e \in Item /\ e.at \in Nat
        BY <4>2 DEF Transaction, Item
      <4>4. QED
        BY <4>1, <4>3, <1>2 DEF OnceInv, OnceRule
    <3>3. QED
      BY <3>1, <3>2
  <2>2. QED
    BY <2>1 DEF OnceInv, OnceRule, Distinct
<1>11. old.streamed = IF s \in Live THEN active[s].streamed ELSE {}
  BY DEF old, NewTransaction
<1>12. QED
  BY <1>6, <1>7, <1>10, <1>11

\* A change of the camera table keeps the cameras distinct.
LEMMA MappingOnce ==
    ASSUME OnceInv, AddIPESNMapping \/ RemoveESNMappings
    PROVE  Distinct(esns')
<1>1. esns \in Seq(ESNs) /\ Distinct(esns)
  BY DEF OnceInv, HeldInv, TypeOK, OnceRule
<1>2. CASE AddIPESNMapping
  BY <1>1, <1>2, DistinctAppend DEF AddIPESNMapping
<1>3. CASE RemoveESNMappings
  <2>1. PICK i \in DOMAIN esns :
            esns' = SubSeq(esns, 1, i - 1) \o SubSeq(esns, i + 1, Len(esns))
    BY <1>3 DEF RemoveESNMappings
  <2> DEFINE a == SubSeq(esns, 1, i - 1)
             b == SubSeq(esns, i + 1, Len(esns))
  <2>2. i \in 1 .. Len(esns) /\ Len(esns) \in Nat
    BY <1>1
  <2>3. /\ a \in Seq(ESNs) /\ DOMAIN a = 1 .. i - 1
        /\ \A j \in DOMAIN a : j \in DOMAIN esns /\ a[j] = esns[j]
    BY <1>1, <2>2
  <2>4. /\ b \in Seq(ESNs) /\ DOMAIN b = 1 .. Len(esns) - i
        /\ \A j \in DOMAIN b : i + j \in DOMAIN esns /\ b[j] = esns[i + j]
    BY <1>1, <2>2
  <2> HIDE DEF a, b
  <2>5. Distinct(a) /\ Distinct(b)
    <3>1. Distinct(a)
      BY <1>1, <2>3 DEF Distinct
    <3>2. ASSUME NEW j \in DOMAIN b, NEW k \in DOMAIN b, b[j] = b[k] PROVE j = k
      <4>1. i + j = i + k
        BY <1>1, <2>4, <3>2 DEF Distinct
      <4>2. QED
        BY <2>2, <2>4, <4>1
    <3>3. QED
      BY <3>1, <3>2 DEF Distinct
  <2>6. Range(a) \cap Range(b) = {}
    <3>1. ASSUME NEW j \in DOMAIN a, NEW k \in DOMAIN b, a[j] = b[k] PROVE FALSE
      BY <3>1, <1>1, <2>2, <2>3, <2>4 DEF Distinct
    <3>2. QED
      BY <3>1 DEF Range
  <2>7. QED
    BY <2>1, <2>3, <2>4, <2>5, <2>6, DistinctConcat DEF a, b
<1>4. QED
  BY <1>2, <1>3

\* A handler that clears the map and sends no individual event.
LEMMA NothingSent ==
    ASSUME OnceInv, active' = [r \in Seqs |-> NoTx], UNCHANGED esns
    PROVE  OnceRule'
<1>1. Active' = {}
  BY DEF Active
<1>2. QED
  BY <1>1 DEF OnceInv, OnceRule, Distinct

\* The step property of StreamedOnce.
NothingTwice ==
    /\ \A i \in DOMAIN ns92' :
            ns92'[i].tx \in Live => ns92'[i].event \notin active[ns92'[i].tx].streamed
    /\ \A i, j \in DOMAIN ns92' :
            ns92'[i].event = ns92'[j].event /\ ns92'[i].esn = ns92'[j].esn => i = j

\* A step without individual events offers none twice.
LEMMA SilentStep ==
    ASSUME ns92' = <<>>
    PROVE  NothingTwice
BY DEF NothingTwice

\* Every event handled keeps the invariant and offers nothing twice.
LEMMA NextOnce == OnceInv /\ [Next]_vars => OnceInv' /\ (vars' # vars => NothingTwice)
<1> SUFFICES ASSUME OnceInv, [Next]_vars
             PROVE  OnceRule' /\ (vars' # vars => NothingTwice)
  BY NextSession, NextHeld DEF OnceInv
<1>1. CASE StartEvent
  BY <1>1, NothingSent, SilentStep DEF StartEvent, Arrival, HandleStartTransaction
<1>2. CASE EndEvent
  BY <1>2, NothingSent, SilentStep
     DEF EndEvent, Arrival, HandleEndTransaction, EndOutsideTransaction, EndOfTransaction
<1>3. ASSUME NEW s \in Seqs, NEW kind \in Kinds, Arrival(kind),
             HandleTransactionEvent(s, kind)
      PROVE  OnceRule' /\ NothingTwice
  <2>1. now > lastArrival /\ lastArrival' = now /\ UNCHANGED esns
    BY <1>3 DEF Arrival
  <2>2. /\ OnceRule'
        /\ \A i \in DOMAIN ns92' : ns92'[i].tx = s
        /\ NewAndOnce(ns92', IF s \in Live THEN active[s].streamed ELSE {})
    BY <1>3, <2>1, TransactionEventOnce
  <2>3. QED
    BY <2>2 DEF NewAndOnce, NothingTwice
<1>4. CASE NumberedEvent
  BY <1>3, <1>4 DEF NumberedEvent, Kinds
<1>5. CASE LinkedEvent
  BY <1>3, <1>5, NamesAssumption DEF LinkedEvent
<1>6. CASE UnlinkedEvent
  <2>1. /\ active' = [r \in Seqs |-> NoTx] /\ ns92' = <<>> /\ UNCHANGED esns
    BY <1>6 DEF UnlinkedEvent, Arrival, HandleUnknownEvent
  <2>2. QED
    BY <2>1, NothingSent, SilentStep
<1>7. CASE AddIPESNMapping \/ RemoveESNMappings
  <2>1. ns92' = <<>> /\ UNCHANGED <<active, lastArrival>>
    BY <1>7 DEF AddIPESNMapping, RemoveESNMappings
  <2>2. OnceRule'
    BY <1>7, <2>1, MappingOnce DEF OnceInv, OnceRule, Active, Distinct
  <2>3. QED
    BY <2>1, <2>2, SilentStep
<1>8. CASE Tick
  BY <1>8, SilentStep DEF Tick, OnceInv, OnceRule, Active, Distinct
<1>9. CASE UNCHANGED vars
  BY <1>9 DEF vars, OnceInv, OnceRule, Active, Distinct
<1>10. QED
  BY <1>1, <1>2, <1>4, <1>5, <1>6, <1>7, <1>8, <1>9 DEF Next, ProcessEvent

\* No line is offered twice to the same camera.
THEOREM NoLineTwice == Spec => StreamedOnce
<1>1. Init => OnceInv
  BY InitType, InitHeld DEF Init, OnceInv, SessionInv, StartMarksOne, WaitsForTriad,
                            OnceRule, Distinct, Active
<1>2. OnceInv /\ [Next]_vars => OnceInv'
  BY NextOnce
<1>3. OnceInv /\ [Next]_vars =>
        [/\ \A i \in DOMAIN ns92' :
              ns92'[i].tx \in Live => ns92'[i].event \notin active[ns92'[i].tx].streamed
         /\ \A i, j \in DOMAIN ns92' :
              ns92'[i].event = ns92'[j].event /\ ns92'[i].esn = ns92'[j].esn
                => i = j]_vars
  BY NextOnce DEF NothingTwice
<1>4. QED
  BY <1>1, <1>2, <1>3, PTL DEF Spec, StreamedOnce

-----------------------------------------------------------------------------
(* What an event leaves held and what it sends *)

\* What the cleanups take away.
TimedOutItems == (UNION {Range(active[s].other) : s \in Expired})
                    \cup (UNION {GroupItems(g) : g \in StaleGroups})

\* What the cleanups leave, in transactions and in groups.
LiveItems == UNION {Range(active[s].other) : s \in Live}
LiveGroupItems == UNION {GroupItems(g) : g \in LiveGroups}

\* The cleanups part what is held in two.
LEMMA CleanupParts ==
    ASSUME HeldOnce
    PROVE  /\ HeldItems = KeptItems \cup TimedOutItems
           /\ KeptItems \cap TimedOutItems = {}
           /\ KeptItems = LiveItems \cup LiveGroupItems
           /\ LiveItems \cap LiveGroupItems = {}
<1>1. Active = Live \cup Expired /\ groups = LiveGroups \cup StaleGroups
  BY DEF Live, Expired, LiveGroups, StaleGroups
<1>2. HeldItems = KeptItems \cup TimedOutItems
  BY <1>1 DEF HeldItems, KeptItems, TimedOutItems
<1>3. KeptItems \cap TimedOutItems = {}
  BY KeptApart DEF TimedOutItems
<1>4. KeptItems = LiveItems \cup LiveGroupItems
  BY DEF KeptItems, LiveItems, LiveGroupItems
<1>5. LiveItems \cap LiveGroupItems = {}
  BY DEF HeldOnce, LiveItems, LiveGroupItems, Live, LiveGroups
<1>6. QED
  BY <1>2, <1>3, <1>4, <1>5

\* The events of a transaction that took one more, exactly.
LEMMA EventsAfter ==
    ASSUME now \in Nat, NEW t \in Transaction, NEW kind \in Kinds
    PROVE  /\ Settled(Recorded(t, kind), kind).other
                = IF kind \in LeftOut THEN t.other ELSE Append(t.other, Stamped(kind))
           /\ Range(Settled(Recorded(t, kind), kind).other)
                = Range(t.other) \cup (IF kind \in LeftOut THEN {} ELSE {Stamped(kind)})
<1>1. Settled(Recorded(t, kind), kind).other
        = IF kind \in LeftOut THEN t.other ELSE Append(t.other, Stamped(kind))
  BY DEF Settled, Recorded, Transaction, LeftOut
<1>2. t.other \in Seq(Item) /\ Stamped(kind) \in Item
  BY StampedType DEF Transaction
<1>3. Range(Append(t.other, Stamped(kind))) = Range(t.other) \cup {Stamped(kind)}
  BY <1>2, RangeOfAppend
<1>4. QED
  BY <1>1, <1>3

\* An event that is routed to a transaction: what the cleanups left stays held,
\* and the event may be added.
LEMMA ItemsAfterTransactionEvent ==
    ASSUME TypeOK, NEW s \in Seqs, NEW kind \in Kinds, HandleTransactionEvent(s, kind)
    PROVE  KeptItems \subseteq HeldItems' /\ HeldItems' \subseteq KeptItems \cup {Stamped(kind)}
<1> DEFINE old == IF s \in Live THEN active[s] ELSE NewTransaction(pendingStart)
           t == Settled(Recorded(old, kind), kind)
           new == Stamped(kind)
           before(r) == IF r \in Live THEN Range(active[r].other) ELSE {}
           after(r) == IF r = s THEN Range(t.other) ELSE before(r)
<1>1. /\ groups' = LiveGroups
      /\ \A r \in Seqs : active'[r] = IF r = s THEN t
                                     ELSE IF r \in Live THEN active[r] ELSE NoTx
  BY DEF HandleTransactionEvent
<1>2. old \in Transaction
  BY NewTransactionType DEF TypeOK, Live, Active
<1>3. Range(old.other) = before(s)
  BY DEF NewTransaction, Range
<1>4. /\ before(s) \subseteq Range(t.other) /\ Range(t.other) \subseteq before(s) \cup {new}
      /\ t \in Transaction
  BY <1>2, <1>3, EventsAfter, RecordedType, SettledType DEF TypeOK
<1>5. t # NoTx
  BY <1>4, NoTxAssumption
<1>6. Active' = Live \cup {s}
  <2>1. \A r \in Seqs : r \in Active' <=> (r = s \/ r \in Live)
    BY <1>1, <1>5 DEF Active, Live
  <2>2. Active' \subseteq Seqs /\ Live \subseteq Seqs
    BY DEF Active, Live
  <2>3. QED
    BY <2>1, <2>2
<1>7. \A r \in Active' : Range(active'[r].other) = after(r)
  BY <1>1, <1>6 DEF Live, Active
<1>8. HeldItems' = (UNION {after(r) : r \in Live \cup {s}}) \cup LiveGroupItems
  BY <1>1, <1>6, <1>7 DEF HeldItems, LiveGroupItems, GroupItems
<1> HIDE DEF t, old
<1>9. KeptItems = (UNION {before(r) : r \in Live \cup {s}}) \cup LiveGroupItems
  BY DEF KeptItems, LiveGroupItems
<1>10. \A r \in Live \cup {s} : before(r) \subseteq after(r) /\ after(r) \subseteq before(r) \cup {new}
  BY <1>4
<1> HIDE DEF before, after, new
<1>11. QED
  BY <1>8, <1>9, <1>10 DEF new

-----------------------------------------------------------------------------
(* No message is lost *)

\* What a set of aggregates offers to a camera, and what of a set of messages
\* an aggregate carries.
EventsFor(A, esn) == UNION {Range(a.events) : a \in {b \in A : b.esn = esn}}
Carry(S) == {e \in S : e.kind \notin LeftOut}

\* The property, for one camera.
NothingLostFor(esn) ==
    /\ \A item \in HeldItems :
          item.kind \notin LeftOut => item \in HeldItems' \cup OfferedTo(esn)'
    /\ OfferedTo(esn)' \cap HeldItems' = {}
    /\ \A item \in (OfferedTo(esn)' \cup HeldItems') \ HeldItems : item.at = now

\* What all of some sets of aggregates offer together.
LEMMA OfferedByAll ==
    ASSUME NEW esn, NEW AA
    PROVE  EventsFor(UNION AA, esn) = UNION {EventsFor(A, esn) : A \in AA}
BY DEF EventsFor

\* Two sets of aggregates that carry two sets of messages carry both.
LEMMA CarriedTogether ==
    ASSUME NEW esn, NEW A, NEW B, NEW S, NEW U,
           EventsFor(A, esn) = Carry(S), EventsFor(B, esn) = Carry(U)
    PROVE  EventsFor(A \cup B, esn) = Carry(S \cup U)
<1>1. EventsFor(A \cup B, esn) = EventsFor(A, esn) \cup EventsFor(B, esn)
  BY DEF EventsFor
<1>2. Carry(S \cup U) = Carry(S) \cup Carry(U)
  BY DEF Carry
<1>3. QED
  BY <1>1, <1>2

\* An aggregate offers a transaction's events but the left-out kinds to every
\* camera of the register.
LEMMA AggregateCarries ==
    ASSUME NEW esn \in Range(Targets), NEW s, NEW t, t.other \in Seq(Item), NEW status
    PROVE  EventsFor(SendToNS91(s, t, status), esn) = Carry(Range(t.other))
<1>1. Range(Carried(t.other)) = Carry(Range(t.other))
  <2> DEFINE stays == {e \in Range(t.other) : e.kind \notin LeftOut}
  <2>1. Range(Filtered(t.other, stays)) = Range(t.other) \cap stays
    BY FilteredHolds
  <2>2. QED
    BY <2>1 DEF Carried, Carry
<1>2. \A a \in SendToNS91(s, t, status) : a.events = Carried(t.other)
  BY DEF SendToNS91, Aggregate
<1>3. \E a \in SendToNS91(s, t, status) : a.esn = esn
  <2>1. Aggregate(s, t, status, esn) \in SendToNS91(s, t, status)
    BY DEF SendToNS91
  <2>2. Aggregate(s, t, status, esn).esn = esn
    BY DEF Aggregate
  <2>3. QED
    BY <2>1, <2>2
<1>4. QED
  BY <1>1, <1>2, <1>3 DEF EventsFor

\* So does the aggregate of a group of unknown events.
LEMMA GroupCarries ==
    ASSUME NEW esn \in Range(Targets), NEW g, g.events \in Seq(Item)
    PROVE  EventsFor(FlushGroup(g), esn) = Carry(GroupItems(g))
<1> DEFINE t == [NewTransaction(FALSE) EXCEPT !.other = g.events]
<1>1. t.other = g.events
  BY DEF NewTransaction
<1>2. FlushGroup(g) = SendToNS91(NoSeq, t, "UNKNOWN")
  BY DEF FlushGroup
<1> HIDE DEF t
<1>3. QED
  BY <1>1, <1>2, AggregateCarries DEF GroupItems

\* Flushed groups offer all they held.
LEMMA GroupsCarry ==
    ASSUME TypeOK, NEW esn \in Range(Targets), NEW G \in SUBSET groups
    PROVE  EventsFor(UNION {FlushGroup(g) : g \in G}, esn)
             = Carry(UNION {GroupItems(g) : g \in G})
<1>1. \A g \in G : EventsFor(FlushGroup(g), esn) = Carry(GroupItems(g))
  BY GroupCarries DEF TypeOK, Group
<1>2. EventsFor(UNION {FlushGroup(g) : g \in G}, esn)
        = UNION {EventsFor(FlushGroup(g), esn) : g \in G}
  <2>1. EventsFor(UNION {FlushGroup(g) : g \in G}, esn)
          = UNION {EventsFor(A, esn) : A \in {FlushGroup(g) : g \in G}}
    BY OfferedByAll
  <2>2. QED
    BY <2>1
<1>3. QED
  BY <1>1, <1>2 DEF Carry

\* Abandoned transactions offer all they held.
LEMMA AbandonedCarry ==
    ASSUME TypeOK, NEW esn \in Range(Targets), NEW S \in SUBSET Active
    PROVE  EventsFor(Abandon(S), esn) = Carry(UNION {Range(active[s].other) : s \in S})
<1> DEFINE sent(s) == SendToNS91(s, active[s], "ABANDONED")
<1>1. \A s \in S : EventsFor(sent(s), esn) = Carry(Range(active[s].other))
  BY AggregateCarries DEF TypeOK, Active, Transaction
<1>2. EventsFor(Abandon(S), esn) = UNION {EventsFor(sent(s), esn) : s \in S}
  <2>1. Abandon(S) = UNION {sent(s) : s \in S}
    BY DEF Abandon
  <2> HIDE DEF sent
  <2>2. EventsFor(UNION {sent(s) : s \in S}, esn)
          = UNION {EventsFor(A, esn) : A \in {sent(s) : s \in S}}
    BY OfferedByAll
  <2>3. QED
    BY <2>1, <2>2
<1> HIDE DEF sent
<1>3. QED
  BY <1>1, <1>2 DEF Carry

\* The cleanups offer all that timed out.
LEMMA CleanupCarries ==
    ASSUME TypeOK, NEW esn \in Range(Targets)
    PROVE  EventsFor(CleanupReports, esn) = Carry(TimedOutItems)
<1> DEFINE sent(s) == SendToNS91(s, active[s], TimeoutStatus(active[s]))
           sends == UNION {sent(s) : s \in Expired}
           flushes == UNION {FlushGroup(g) : g \in StaleGroups}
           idle == UNION {Range(active[s].other) : s \in Expired}
           stale == UNION {GroupItems(g) : g \in StaleGroups}
<1>1. \A s \in Expired : EventsFor(sent(s), esn) = Carry(Range(active[s].other))
  BY AggregateCarries DEF TypeOK, Expired, Active, Transaction
<1>2. CleanupReports = sends \cup flushes
  BY DEF CleanupReports
<1>3. EventsFor(sends, esn) = Carry(idle)
  <2> HIDE DEF sent
  <2>1. EventsFor(UNION {sent(s) : s \in Expired}, esn)
          = UNION {EventsFor(A, esn) : A \in {sent(s) : s \in Expired}}
    BY OfferedByAll
  <2>2. QED
    BY <2>1, <1>1 DEF Carry
<1>4. EventsFor(flushes, esn) = Carry(stale)
  BY GroupsCarry DEF StaleGroups
<1>5. TimedOutItems = idle \cup stale
  BY DEF TimedOutItems
<1> HIDE DEF sends, flushes, idle, stale
<1>6. EventsFor(sends \cup flushes, esn) = Carry(idle \cup stale)
  BY <1>3, <1>4, CarriedTogether
<1>7. QED
  BY <1>2, <1>5, <1>6

\* What ends its stay here leaves in aggregates: then nothing is lost.
LEMMA Conserved ==
    ASSUME NEW esn, NEW gone, NEW new, new.at = now,
           OfferedTo(esn)' = Carry(gone),
           HeldItems \subseteq HeldItems' \cup gone,
           gone \cap HeldItems' = {},
           HeldItems' \cup gone \subseteq HeldItems \cup {new}
    PROVE  NothingLostFor(esn)
BY DEF NothingLostFor, Carry

\* An event routed to a transaction loses nothing.
LEMMA TransactionEventConserves ==
    ASSUME HeldInv, NEW esn \in Range(Targets), NEW s \in Seqs, NEW kind \in Kinds,
           now > lastArrival, HandleTransactionEvent(s, kind)
    PROVE  NothingLostFor(esn)
<1> DEFINE new == Stamped(kind)
<1>1. KeptItems \subseteq HeldItems' /\ HeldItems' \subseteq KeptItems \cup {new}
  BY ItemsAfterTransactionEvent DEF HeldInv
<1>2. OfferedTo(esn)' = EventsFor(CleanupReports, esn)
  BY DEF HandleTransactionEvent, OfferedTo, EventsFor
<1>3. OfferedTo(esn)' = Carry(TimedOutItems)
  BY <1>2, CleanupCarries DEF HeldInv
<1>4. HeldItems = KeptItems \cup TimedOutItems /\ KeptItems \cap TimedOutItems = {}
  BY CleanupParts DEF HeldInv
<1>5. new \notin HeldItems /\ new.at = now
  BY EventIsNew DEF Stamped
<1> HIDE DEF new
<1>6. TimedOutItems \cap HeldItems' = {}
  BY <1>1, <1>4, <1>5
<1>7. QED
  BY <1>1, <1>3, <1>4, <1>5, <1>6, Conserved

\* The group an event outside any transaction extends is the window's only one:
\* it takes over all that was held for the window.
LEMMA ExtendedTakesOver ==
    ASSUME WindowInv, NEW kind \in Kinds
    PROVE  /\ Extended(kind).events \in Seq(Item)
           /\ GroupItems(Extended(kind))
                = (UNION {GroupItems(g) : g \in {h \in LiveGroups : h.key = WindowKey}})
                    \cup {Stamped(kind)}
<1> DEFINE same == {g \in LiveGroups : g.key = WindowKey}
           before == IF same = {} THEN <<>> ELSE (CHOOSE g \in same : TRUE).events
           held == UNION {GroupItems(g) : g \in same}
<1>1. before \in Seq(Item) /\ Range(before) = held
  <2>1. CASE same = {}
    BY <2>1 DEF Range
  <2>2. CASE same # {}
    <3> DEFINE g == CHOOSE g \in same : TRUE
    <3>1. g \in same
      BY <2>2
    <3>2. before = g.events
      BY <2>2
    <3> HIDE DEF g
    <3>3. g \in groups /\ \A h \in same : h = g
      BY <3>1 DEF WindowInv, WindowRule, LiveGroups
    <3>4. g.events \in Seq(Item)
      BY <3>3 DEF WindowInv, TypeOK, Group
    <3>5. held = GroupItems(g)
      <4> HIDE DEF same
      <4>1. same = {g}
        BY <3>1, <3>3
      <4>2. QED
        BY <4>1
    <3>6. QED
      BY <3>2, <3>4, <3>5 DEF GroupItems
  <2>3. QED
    BY <2>1, <2>2
<1>2. Extended(kind).events = Append(before, Stamped(kind))
  BY DEF Extended
<1>3. Stamped(kind) \in Item
  BY StampedType DEF WindowInv, TypeOK
<1> HIDE DEF before, held
<1>4. Range(Append(before, Stamped(kind))) = Range(before) \cup {Stamped(kind)}
  BY <1>1, <1>3, RangeOfAppend
<1>5. Append(before, Stamped(kind)) \in Seq(Item)
  BY <1>1, <1>3
<1>6. GroupItems(Extended(kind)) = held \cup {Stamped(kind)}
  BY <1>1, <1>2, <1>4 DEF GroupItems
<1>7. QED
  BY <1>2, <1>5, <1>6 DEF held

\* An event outside any transaction loses nothing.
LEMMA UnknownEventConserves ==
    ASSUME HeldInv, WindowInv, NEW esn \in Range(Targets), NEW kind \in Kinds,
           Live = {}, now > lastArrival, HandleUnknownEvent(kind)
    PROVE  NothingLostFor(esn)
<1> DEFINE new == Stamped(kind)
           ext == Extended(kind)
           same == {g \in LiveGroups : g.key = WindowKey}
           others == {g \in LiveGroups : g.key # WindowKey}
           sameItems == UNION {GroupItems(g) : g \in same}
           otherItems == UNION {GroupItems(g) : g \in others}
<1>1. ext.events \in Seq(Item) /\ GroupItems(ext) = sameItems \cup {new}
  BY ExtendedTakesOver
<1>2. LiveGroupItems = sameItems \cup otherItems
  BY DEF LiveGroupItems
<1>3. KeptItems = LiveGroupItems
  BY DEF KeptItems, LiveGroupItems
<1>4. sameItems \cap otherItems = {}
  <2>1. \A g \in same, h \in others : GroupItems(g) \cap GroupItems(h) = {}
    BY DEF HeldInv, HeldOnce, LiveGroups
  <2>2. QED
    BY <2>1
<1>5. HeldItems = KeptItems \cup TimedOutItems /\ KeptItems \cap TimedOutItems = {}
  BY CleanupParts DEF HeldInv
<1>6. new \notin HeldItems /\ new.at = now
  BY EventIsNew DEF Stamped
<1>7. Active' = {}
  BY DEF HandleUnknownEvent, Active
<1>8. HeldItems' = UNION {GroupItems(g) : g \in groups'}
  BY <1>7 DEF HeldItems, GroupItems
<1>9. EventsFor(CleanupReports, esn) = Carry(TimedOutItems)
  BY CleanupCarries DEF HeldInv
<1>10. CASE GroupComplete(ext)
  <2>1. groups' = others /\ ns91' = CleanupReports \cup FlushGroup(ext)
    BY <1>10 DEF HandleUnknownEvent
  <2>2. OfferedTo(esn)' = EventsFor(CleanupReports \cup FlushGroup(ext), esn)
    BY <2>1 DEF OfferedTo, EventsFor
  <2>3. EventsFor(FlushGroup(ext), esn) = Carry(GroupItems(ext))
    BY <1>1, GroupCarries
  <2> DEFINE gone == TimedOutItems \cup GroupItems(ext)
  <2>4. OfferedTo(esn)' = Carry(gone)
    <3> HIDE DEF ext
    <3>1. EventsFor(CleanupReports \cup FlushGroup(ext), esn)
            = Carry(TimedOutItems \cup GroupItems(ext))
      BY <2>3, <1>9, CarriedTogether
    <3>2. QED
      BY <2>2, <3>1
  <2>5. HeldItems' = otherItems
    BY <2>1, <1>8
  <2> HIDE DEF sameItems, otherItems, new, ext, same, others
  <2>6. gone \cap HeldItems' = {}
    BY <2>5, <1>1, <1>2, <1>3, <1>4, <1>5, <1>6
  <2>7. HeldItems \subseteq HeldItems' \cup gone
    BY <2>5, <1>1, <1>2, <1>3, <1>5
  <2>8. HeldItems' \cup gone \subseteq HeldItems \cup {new}
    BY <2>5, <1>1, <1>2, <1>3, <1>5
  <2> HIDE DEF gone
  <2>9. QED
    BY <2>4, <2>6, <2>7, <2>8, <1>6, Conserved
<1>11. CASE ~GroupComplete(ext)
  <2>1. groups' = others \cup {ext} /\ ns91' = CleanupReports
    BY <1>11 DEF HandleUnknownEvent
  <2>2. OfferedTo(esn)' = Carry(TimedOutItems)
    BY <2>1, <1>9 DEF OfferedTo, EventsFor
  <2> HIDE DEF ext
  <2>3. HeldItems' = otherItems \cup GroupItems(ext)
    BY <2>1, <1>8
  <2> HIDE DEF sameItems, otherItems, new, same, others
  <2>4. HeldItems' = KeptItems \cup {new}
    BY <2>3, <1>1, <1>2, <1>3
  <2>5. QED
    BY <2>2, <2>4, <1>5, <1>6, Conserved
<1>12. QED
  BY <1>10, <1>11

\* A demarcator loses nothing: what is open leaves, what is left stays.
LEMMA DemarcatorConserves ==
    ASSUME HeldInv, NEW esn \in Range(Targets),
           HandleStartTransaction \/ HandleEndTransaction
    PROVE  NothingLostFor(esn)
<1>1. /\ HeldItems = KeptItems \cup TimedOutItems /\ KeptItems \cap TimedOutItems = {}
      /\ KeptItems = LiveItems \cup LiveGroupItems
      /\ LiveItems \cap LiveGroupItems = {}
  BY CleanupParts DEF HeldInv
<1>2. EventsFor(CleanupReports, esn) = Carry(TimedOutItems)
  BY CleanupCarries DEF HeldInv
<1>3. Active' = {}
  BY DEF HandleStartTransaction, HandleEndTransaction, EndOutsideTransaction,
         EndOfTransaction, Active
<1>4. HeldItems' = UNION {GroupItems(g) : g \in groups'}
  BY <1>3 DEF HeldItems, GroupItems
<1>5. Live \subseteq Active
  BY DEF Live
<1>6. Stamped("Start").at = now
  BY DEF Stamped
<1>8. ASSUME groups' = LiveGroups, OfferedTo(esn)' = Carry(TimedOutItems \cup LiveItems)
      PROVE  NothingLostFor(esn)
  <2>1. HeldItems' = LiveGroupItems
    BY <1>8, <1>4 DEF LiveGroupItems
  <2>2. QED
    BY <2>1, <1>8, <1>1, <1>6, Conserved
<1>9. CASE HandleStartTransaction
  <2>1. groups' = LiveGroups /\ ns91' = CleanupReports \cup Abandon(Live)
    BY <1>9 DEF HandleStartTransaction
  <2>2. EventsFor(Abandon(Live), esn) = Carry(LiveItems)
    BY <1>5, AbandonedCarry DEF HeldInv, LiveItems
  <2>3. OfferedTo(esn)' = EventsFor(CleanupReports \cup Abandon(Live), esn)
    BY <2>1 DEF OfferedTo, EventsFor
  <2>4. EventsFor(CleanupReports \cup Abandon(Live), esn) = Carry(TimedOutItems \cup LiveItems)
    BY <2>2, <1>2, CarriedTogether
  <2>5. QED
    BY <2>1, <2>3, <2>4, <1>8
<1>10. CASE EndOutsideTransaction
  <2> DEFINE flushes == UNION {FlushGroup(g) : g \in LiveGroups}
  <2>1. groups' = {} /\ ns91' = CleanupReports \cup flushes /\ LiveItems = {}
    BY <1>10 DEF EndOutsideTransaction, LiveItems
  <2>2. EventsFor(flushes, esn) = Carry(LiveGroupItems)
    BY GroupsCarry DEF HeldInv, LiveGroupItems, LiveGroups
  <2>3. OfferedTo(esn)' = EventsFor(CleanupReports \cup flushes, esn)
    BY <2>1 DEF OfferedTo, EventsFor
  <2> HIDE DEF flushes
  <2>4. OfferedTo(esn)' = Carry(TimedOutItems \cup LiveGroupItems)
    <3>1. EventsFor(CleanupReports \cup flushes, esn) = Carry(TimedOutItems \cup LiveGroupItems)
      BY <2>2, <1>2, CarriedTogether
    <3>2. QED
      BY <2>3, <3>1
  <2>5. HeldItems' = {}
    BY <2>1, <1>4
  <2>6. QED
    BY <2>1, <2>4, <2>5, <1>1, <1>6, Conserved
<1>11. ASSUME NEW s \in Seqs, EndOfTransaction(s)
       PROVE  NothingLostFor(esn)
  <2> DEFINE status == IF active[s].triad THEN "GOOD" ELSE "ABANDONED"
             last == SendToNS91(s, active[s], status)
             dropped == Abandon(Live \ {s})
             rest == UNION {Range(active[r].other) : r \in Live \ {s}}
  <2>1. /\ groups' = LiveGroups
        /\ ns91' = (CleanupReports \cup dropped) \cup last
        /\ s \in Live
    BY <1>11 DEF EndOfTransaction, IsLatest
  <2>2. EventsFor(last, esn) = Carry(Range(active[s].other))
    BY <2>1, <1>5, AggregateCarries DEF HeldInv, TypeOK, Active, Transaction
  <2>3. EventsFor(dropped, esn) = Carry(rest)
    BY <1>5, AbandonedCarry DEF HeldInv
  <2>4. OfferedTo(esn)' = EventsFor((CleanupReports \cup dropped) \cup last, esn)
    BY <2>1 DEF OfferedTo, EventsFor
  <2>5. LiveItems = rest \cup Range(active[s].other)
    BY <2>1 DEF LiveItems
  <2> HIDE DEF last, dropped, rest
  <2>6. EventsFor(CleanupReports \cup dropped, esn) = Carry(TimedOutItems \cup rest)
    BY <2>3, <1>2, CarriedTogether
  <2>7. OfferedTo(esn)' = Carry(TimedOutItems \cup LiveItems)
    <3>1. EventsFor((CleanupReports \cup dropped) \cup last, esn)
            = Carry((TimedOutItems \cup rest) \cup Range(active[s].other))
      BY <2>2, <2>6, CarriedTogether
    <3>2. (TimedOutItems \cup rest) \cup Range(active[s].other) = TimedOutItems \cup LiveItems
      BY <2>5
    <3>3. QED
      BY <2>4, <3>1, <3>2
  <2>8. QED
    BY <2>1, <2>7, <1>8
<1>12. QED
  BY <1>9, <1>10, <1>11 DEF HandleEndTransaction

\* A step that handles no event holds on to everything and offers nothing.
LEMMA QuietConserves ==
    ASSUME UNCHANGED <<active, groups>>, ns91' = {}, NEW esn
    PROVE  NothingLostFor(esn)
<1>1. HeldItems' = HeldItems
  BY DEF HeldItems, GroupItems, Active
<1>2. OfferedTo(esn)' = {}
  BY DEF OfferedTo
<1>3. QED
  BY <1>1, <1>2 DEF NothingLostFor

\* No step loses a message.
LEMMA NextConserves ==
    ASSUME HeldInv, WindowInv, Next, NEW esn \in Range(Targets')
    PROVE  NothingLostFor(esn)
<1>1. ASSUME ProcessEvent PROVE esn \in Range(Targets)
  <2>1. UNCHANGED esns
    BY <1>1 DEF ProcessEvent, StartEvent, EndEvent, NumberedEvent, LinkedEvent,
                UnlinkedEvent, Arrival
  <2>2. QED
    BY <2>1 DEF Targets
<1>2. CASE StartEvent
  BY <1>1, <1>2, DemarcatorConserves DEF StartEvent, ProcessEvent
<1>3. CASE EndEvent
  BY <1>1, <1>3, DemarcatorConserves DEF EndEvent, ProcessEvent
<1>4. CASE NumberedEvent
  BY <1>1, <1>4, TransactionEventConserves DEF NumberedEvent, Arrival, Kinds, ProcessEvent
<1>5. CASE LinkedEvent
  BY <1>1, <1>5, TransactionEventConserves, NamesAssumption
     DEF LinkedEvent, Arrival, ProcessEvent
<1>6. CASE UnlinkedEvent
  BY <1>1, <1>6, UnknownEventConserves, NamesAssumption
     DEF UnlinkedEvent, Arrival, ProcessEvent
<1>7. CASE AddIPESNMapping \/ RemoveESNMappings \/ Tick
  BY <1>7, QuietConserves DEF AddIPESNMapping, RemoveESNMappings, Tick
<1>8. QED
  BY <1>2, <1>3, <1>4, <1>5, <1>6, <1>7 DEF Next, ProcessEvent

\* A message stays held until the step that offers it to every camera, and is
\* not held any more then.
THEOREM MessagesConserved == Spec => NoMessageLost
<1> DEFINE Step ==
             \A esn \in Range(Targets') :
                /\ \A item \in HeldItems :
                      item.kind \notin LeftOut => item \in HeldItems' \cup OfferedTo(esn)'
                /\ OfferedTo(esn)' \cap HeldItems' = {}
                /\ \A item \in (OfferedTo(esn)' \cup HeldItems') \ HeldItems : item.at = now
<1>1. Init => HeldInv /\ WindowInv
  BY InitHeld DEF HeldInv, Init, WindowInv, WindowRule
<1>2. HeldInv /\ WindowInv /\ [Next]_vars => HeldInv' /\ WindowInv'
  BY NextHeld, NextWindow
<1>3. HeldInv /\ WindowInv /\ [Next]_vars => [Step]_vars
  <2> SUFFICES ASSUME HeldInv, WindowInv, Next PROVE Step
    OBVIOUS
  <2>1. \A esn \in Range(Targets') : NothingLostFor(esn)
    BY NextConserves
  <2>2. QED
    BY <2>1 DEF NothingLostFor
<1> HIDE DEF Step
<1>4. Spec => [][Step]_vars
  BY <1>1, <1>2, <1>3, PTL DEF Spec
<1>5. QED
  BY <1>4 DEF NoMessageLost, Step

-----------------------------------------------------------------------------
(* A transaction that ended its cart and fell silent is reported good *)

\* A transaction's events hold none of the kinds an aggregate leaves out: only
\* the groups of unknown events can lose messages on the way out.
NothingToLeaveOut == \A s \in Active : \A e \in Range(active[s].other) : e.kind \notin LeftOut

\* With the types.
LinesInv == TypeOK /\ NothingToLeaveOut

\* An event routed to a transaction adds none of those kinds to it.
LEMMA TransactionEventLines ==
    ASSUME LinesInv, NEW s \in Seqs, NEW kind \in Kinds, HandleTransactionEvent(s, kind)
    PROVE  NothingToLeaveOut'
<1> DEFINE old == IF s \in Live THEN active[s] ELSE NewTransaction(pendingStart)
           t == Settled(Recorded(old, kind), kind)
<1>1. \A r \in Seqs : active'[r] = IF r = s THEN t
                                  ELSE IF r \in Live THEN active[r] ELSE NoTx
  BY DEF HandleTransactionEvent
<1>2. old \in Transaction
  BY NewTransactionType DEF LinesInv, TypeOK, Live, Active
<1>3. \A e \in Range(old.other) : e.kind \notin LeftOut
  BY DEF LinesInv, NothingToLeaveOut, NewTransaction, Live, Range
<1>4. Range(t.other) = Range(old.other) \cup (IF kind \in LeftOut THEN {} ELSE {Stamped(kind)})
  BY <1>2, EventsAfter DEF LinesInv, TypeOK
<1> HIDE DEF t, old
<1>5. \A e \in Range(t.other) : e.kind \notin LeftOut
  BY <1>3, <1>4 DEF Stamped
<1>6. ASSUME NEW r \in Active' PROVE \A e \in Range(active'[r].other) : e.kind \notin LeftOut
  BY <1>1, <1>5 DEF Active, Live, LinesInv, NothingToLeaveOut
<1>7. QED
  BY <1>6 DEF NothingToLeaveOut

\* Every step keeps it.
LEMMA NextLines == LinesInv /\ [Next]_vars => LinesInv'
<1> SUFFICES ASSUME LinesInv, [Next]_vars PROVE NothingToLeaveOut'
  BY NextType DEF LinesInv
<1>1. ASSUME active' = [r \in Seqs |-> NoTx] PROVE NothingToLeaveOut'
  BY <1>1 DEF NothingToLeaveOut, Active
<1>2. CASE StartEvent
  BY <1>1, <1>2 DEF StartEvent, HandleStartTransaction
<1>3. CASE EndEvent
  BY <1>1, <1>3 DEF EndEvent, HandleEndTransaction, EndOutsideTransaction, EndOfTransaction
<1>4. CASE NumberedEvent
  BY <1>4, TransactionEventLines DEF NumberedEvent, Kinds
<1>5. CASE LinkedEvent
  BY <1>5, TransactionEventLines, NamesAssumption DEF LinkedEvent
<1>6. CASE UnlinkedEvent
  <2>1. active' = [r \in Seqs |-> NoTx]
    BY <1>6 DEF UnlinkedEvent, HandleUnknownEvent
  <2>2. QED
    BY <1>1, <2>1
<1>7. CASE AddIPESNMapping \/ RemoveESNMappings \/ Tick \/ UNCHANGED vars
  <2>1. UNCHANGED active
    BY <1>7 DEF AddIPESNMapping, RemoveESNMappings, Tick, vars
  <2>2. QED
    BY <2>1 DEF LinesInv, NothingToLeaveOut, Active
<1>8. QED
  BY <1>2, <1>3, <1>4, <1>5, <1>6, <1>7 DEF Next, ProcessEvent

\* The cleanups report such a transaction good, with all its events.
LEMMA CleanupReportsGood ==
    ASSUME LinesInv, NEW s \in Active, CCEOTExpired(active[s]), NEW esn \in Range(Targets)
    PROVE  \E a \in CleanupReports : /\ a.tx = s /\ a.esn = esn
                                     /\ a.status = "GOOD" /\ a.events = active[s].other
<1> DEFINE t == active[s]
           a == Aggregate(s, t, "GOOD", esn)
<1>1. s \in Expired /\ TimeoutStatus(t) = "GOOD"
  BY DEF Expired, TimeoutStatus
<1>2. a \in SendToNS91(s, t, TimeoutStatus(t))
  BY <1>1 DEF SendToNS91
<1>3. a \in CleanupReports
  BY <1>1, <1>2 DEF CleanupReports
<1>4. FinalStatus(t, "GOOD") = "GOOD"
  BY DEF CCEOTExpired, FinalStatus
<1>5. t.other \in Seq(Item)
  BY DEF LinesInv, TypeOK, Active, Transaction
<1>6. Carried(t.other) = t.other
  <2>1. Range(t.other) \subseteq {e \in Range(t.other) : e.kind \notin LeftOut}
    BY DEF LinesInv, NothingToLeaveOut
  <2>2. QED
    BY <2>1, <1>5, FilteredAll DEF Carried
<1>7. a.tx = s /\ a.esn = esn /\ a.status = FinalStatus(t, "GOOD") /\ a.events = Carried(t.other)
  BY DEF Aggregate
<1>8. QED
  BY <1>3, <1>4, <1>6, <1>7

\* Every event begins with the cleanups.
LEMMA EventsCleanUp ==
    ASSUME Next, lastArrival' # lastArrival
    PROVE  CleanupReports \subseteq ns91'
BY DEF Next, ProcessEvent, StartEvent, EndEvent, NumberedEvent, LinkedEvent, UnlinkedEvent,
       HandleStartTransaction, HandleEndTransaction, EndOutsideTransaction, EndOfTransaction,
       HandleTransactionEvent, HandleUnknownEvent, AddIPESNMapping, RemoveESNMappings, Tick

\* Whatever event comes after the CCEOT timeout reports the transaction good.
THEOREM QuietEndsReportedGood == Spec => QuietEndIsGood
<1> DEFINE Step ==
             lastArrival' # lastArrival =>
               \A s \in Active : CCEOTExpired(active[s]) =>
                 \A esn \in Range(Targets) :
                   \E a \in ns91' : /\ a.tx = s /\ a.esn = esn
                                    /\ a.status = "GOOD" /\ a.events = active[s].other
<1>1. Init => LinesInv
  BY InitType DEF Init, LinesInv, NothingToLeaveOut, Active
<1>2. LinesInv /\ [Next]_vars => [Step]_vars
  BY EventsCleanUp, CleanupReportsGood
<1> HIDE DEF Step
<1>3. Spec => [][Step]_vars
  BY <1>1, <1>2, NextLines, PTL DEF Spec
<1>4. QED
  BY <1>3 DEF QuietEndIsGood, Step

-----------------------------------------------------------------------------
(* The aggregate's number is above those of the individual events *)

\* The numbers an individual event can have taken: none before the triad, then
\* one for the start triad and one for each line.
NumberRule(t) ==
    /\ ~t.triad => t.counter = 1
    /\ t.triad => t.counter <= Len(t.other) + 2

\* For every transaction, with the rules of a session.
NumbersInv == SessionInv /\ \A s \in Active : NumberRule(active[s])

\* What the theorem is about: a register with one camera, and transactions whose
\* numbers fit a uint16.
SingleCamera == Len(esns) <= 1
NumbersFit == \A s \in Active : Len(active[s].other) + 4 < UInt16

\* A uint16 is never above the number that wrapped around.
LEMMA WrapsDown ==
    ASSUME NEW a \in Nat
    PROVE  a % UInt16 <= a /\ (a < UInt16 => a % UInt16 = a)
BY DEF UInt16

\* A register with one camera has one target.
LEMMA OneTarget ==
    ASSUME esns \in Seq(ESNs), SingleCamera
    PROVE  Len(Targets) = 1
<1>1. Len(esns) = 0 => esns = <<>>
  OBVIOUS
<1>2. Len(<<DefaultESN>>) = 1
  OBVIOUS
<1>3. QED
  BY <1>1, <1>2 DEF Targets, SingleCamera

\* Recording and settling an event keeps the rule: an event that goes out is a
\* line of the transaction.
LEMMA NumberRuleKept ==
    ASSUME now \in Nat, esns \in Seq(ESNs), SingleCamera,
           NEW t \in Transaction, TriadRule(t), NumberRule(t), NEW kind \in Kinds
    PROVE  NumberRule(Settled(Recorded(t, kind), kind))
<1> DEFINE r == Recorded(t, kind)
           u == Settled(r, kind)
           out == Outgoing(r, kind)
           first == IF CompletesTriad(r) THEN <<Stamped("StartTriad")>> \o t.pending ELSE <<>>
           goes == (r.triad \/ CompletesTriad(r)) /\ kind \notin Skipped
           second == IF goes THEN <<Stamped(kind)>> ELSE <<>>
<1>1. /\ r.triad = t.triad /\ r.pending = t.pending /\ r.counter = t.counter
      /\ r.triad \in BOOLEAN
      /\ r \in Transaction
  <2>1. /\ r.triad = t.triad /\ r.pending = t.pending /\ r.counter = t.counter
        /\ r.triad \in BOOLEAN
    BY DEF Recorded, Transaction
  <2>2. r \in Transaction
    BY RecordedType
  <2>3. QED
    BY <2>1, <2>2
<1>2. /\ u.triad = (t.triad \/ CompletesTriad(r))
      /\ u.counter = (t.counter + Len(out) * Len(Targets)) % UInt16
  BY <1>1 DEF Settled, Transaction
<1>3. Len(Targets) = 1
  BY OneTarget
<1>4. t.counter \in Nat /\ t.other \in Seq(Item) /\ t.pending \in Seq(Item)
  BY UInt16Nat DEF Transaction
<1>5. out \in Seq(Item) /\ Len(out) \in Nat
  BY <1>1, OutgoingType
<1>6. u.counter = (t.counter + Len(out)) % UInt16
  BY <1>2, <1>3, <1>5
<1>7. Len(out) = Len(first) + Len(second)
  <2>1. out = first \o second
    BY <1>1 DEF Outgoing
  <2>2. first \in Seq(Item) /\ second \in Seq(Item)
    <3>1. <<Stamped("StartTriad")>> \in Seq(Item) /\ <<Stamped(kind)>> \in Seq(Item)
      BY StampedType
    <3>2. <<Stamped("StartTriad")>> \o t.pending \in Seq(Item)
      BY <3>1, <1>4
    <3>3. QED
      BY <3>1, <3>2
  <2> HIDE DEF first, second, out
  <2>3. QED
    BY <2>1, <2>2
<1>8. Len(first) = IF CompletesTriad(r) THEN 1 + Len(t.pending) ELSE 0
  <2>1. CASE CompletesTriad(r)
    <3>1. <<Stamped("StartTriad")>> \in Seq(Item) /\ Len(<<Stamped("StartTriad")>>) = 1
      BY StampedType
    <3>2. Len(<<Stamped("StartTriad")>> \o t.pending) = 1 + Len(t.pending)
      BY <3>1, <1>4
    <3>3. QED
      BY <2>1, <3>2
  <2>2. CASE ~CompletesTriad(r)
    BY <2>2
  <2>3. QED
    BY <2>1, <2>2
<1>9. (goes => Len(second) = 1) /\ (~goes => Len(second) = 0)
  BY DEF second
<1>10. /\ kind \in LeftOut => Len(u.other) = Len(t.other)
       /\ kind \notin LeftOut => Len(u.other) = Len(t.other) + 1
  <2>1. u.other = IF kind \in LeftOut THEN t.other ELSE Append(t.other, Stamped(kind))
    BY EventsAfter
  <2>2. Len(Append(t.other, Stamped(kind))) = Len(t.other) + 1
    BY <1>4, StampedType
  <2> HIDE DEF u
  <2>3. QED
    BY <2>1, <2>2, <1>4
<1>11. goes => kind \notin LeftOut /\ (t.triad \/ CompletesTriad(r))
  BY <1>1 DEF Skipped, LeftOut
<1>12. t.counter + Len(out) \in Nat
  BY <1>4, <1>5
<1>13. Len(t.other) \in Nat /\ Len(t.pending) \in Nat
  BY <1>4
<1>14. CompletesTriad(r) => ~t.triad /\ t.pending = t.other
  BY <1>1 DEF CompletesTriad, TriadRule
<1> SUFFICES NumberRule(u)
  OBVIOUS
<1> HIDE DEF first, second, goes, out, u, r
<1>15. CASE ~t.triad /\ ~CompletesTriad(r)
  <2>1. Len(out) = 0
    BY <1>15, <1>7, <1>8, <1>9, <1>11
  <2>2. u.counter = 1 % UInt16
    <3>1. t.counter + Len(out) = 1
      BY <2>1, <1>15 DEF NumberRule
    <3>2. QED
      BY <3>1, <1>6
  <2>3. u.counter = 1
    BY <2>2, WrapsDown DEF UInt16
  <2>4. QED
    BY <2>3, <1>15, <1>1, <1>2 DEF NumberRule
<1>16. CASE t.triad \/ CompletesTriad(r)
  <2> DEFINE lines == Len(t.other)
             linesAfter == Len(u.other)
             released == Len(first)
             itself == Len(second)
             sent == Len(out)
  <2>1. lines \in Nat /\ linesAfter \in Nat /\ released \in Nat /\ itself \in Nat
    BY <1>8, <1>9, <1>10, <1>13
  <2>2. t.counter + released <= lines + 2
    <3>1. CASE t.triad
      BY <3>1, <1>8, <1>14, <1>4, <1>13 DEF NumberRule
    <3>2. CASE ~t.triad
      BY <3>2, <1>16, <1>8, <1>14, <1>13 DEF NumberRule
    <3>3. QED
      BY <3>1, <3>2
  <2>3. (linesAfter = lines /\ itself = 0) \/ (linesAfter = lines + 1 /\ itself <= 1)
    <3>1. CASE goes
      <4>1. itself = 1 /\ linesAfter = lines + 1
        BY <3>1, <1>9, <1>10, <1>11
      <4>2. itself <= 1
        BY <4>1
      <4>3. QED
        BY <4>1, <4>2
    <3>2. CASE ~goes
      <4>1. itself = 0
        BY <3>2, <1>9
      <4>2. itself <= 1
        BY <4>1
      <4>3. QED
        BY <4>1, <4>2, <1>10
    <3>3. QED
      BY <3>1, <3>2
  <2>4. sent = released + itself
    BY <1>7
  <2>5. u.counter <= t.counter + sent
    BY <1>6, <1>12, WrapsDown
  <2>6. u.counter \in Int /\ t.counter \in Int
    <3>1. u.counter \in 0 .. UInt16 - 1
      BY <1>6, <1>12, WrapsAround
    <3>2. u.counter \in Nat
      BY <3>1, UInt16Nat
    <3>3. QED
      BY <3>2, <1>4
  <2>7. u.triad
    BY <1>16, <1>2
  <2>8. u.counter <= linesAfter + 2
    <3> HIDE DEF lines, linesAfter, released, itself, sent
    <3>1. lines + itself <= linesAfter
      BY <2>1, <2>3
    <3>2. u.counter <= lines + 2 + itself
      BY <2>1, <2>2, <2>4, <2>5, <2>6
    <3>3. QED
      BY <2>1, <2>6, <3>1, <3>2
  <2>9. QED
    BY <2>7, <2>8 DEF NumberRule
<1>17. QED
  BY <1>15, <1>16

\* A new transaction has used no number.
LEMMA NumberRuleNew ==
    ASSUME NEW cmd \in BOOLEAN
    PROVE  NumberRule(NewTransaction(cmd))
BY DEF NumberRule, NewTransaction

\* An event routed to a transaction keeps the numbers in order.
LEMMA TransactionEventNumbers ==
    ASSUME NumbersInv, SingleCamera, NEW s \in Seqs, NEW kind \in Kinds,
           HandleTransactionEvent(s, kind)
    PROVE  \A r \in Active' : NumberRule(active'[r])
<1> DEFINE old == IF s \in Live THEN active[s] ELSE NewTransaction(pendingStart)
           t == Settled(Recorded(old, kind), kind)
<1>1. \A r \in Seqs : active'[r] = IF r = s THEN t
                                  ELSE IF r \in Live THEN active[r] ELSE NoTx
  BY DEF HandleTransactionEvent
<1>2. old \in Transaction /\ TriadRule(old)
  BY NewTransactionType, TriadRuleNew
     DEF NumbersInv, SessionInv, WaitsForTriad, TypeOK, Live, Active
<1>3. NumberRule(old)
  BY NumberRuleNew DEF NumbersInv, SessionInv, TypeOK, Live
<1>4. NumberRule(t)
  BY <1>2, <1>3, NumberRuleKept DEF NumbersInv, SessionInv, TypeOK
<1> HIDE DEF t, old
<1>5. QED
  BY <1>1, <1>4 DEF Active, Live, NumbersInv

\* Every step of a register with one camera keeps the numbers in order.
LEMMA NextNumbers == NumbersInv /\ SingleCamera /\ [Next]_vars => NumbersInv'
<1> SUFFICES ASSUME NumbersInv, SingleCamera, [Next]_vars
             PROVE  \A r \in Active' : NumberRule(active'[r])
  BY NextSession DEF NumbersInv, NumberRule
<1>1. ASSUME active' = [r \in Seqs |-> NoTx] PROVE Active' = {}
  BY <1>1 DEF Active
<1>2. CASE StartEvent
  BY <1>1, <1>2 DEF StartEvent, HandleStartTransaction
<1>3. CASE EndEvent
  BY <1>1, <1>3 DEF EndEvent, HandleEndTransaction, EndOutsideTransaction, EndOfTransaction
<1>4. CASE NumberedEvent
  BY <1>4, TransactionEventNumbers DEF NumberedEvent, Kinds
<1>5. CASE LinkedEvent
  BY <1>5, TransactionEventNumbers, NamesAssumption DEF LinkedEvent
<1>6. CASE UnlinkedEvent
  <2>1. active' = [r \in Seqs |-> NoTx]
    BY <1>6 DEF UnlinkedEvent, HandleUnknownEvent
  <2>2. QED
    BY <1>1, <2>1
<1>7. CASE AddIPESNMapping \/ RemoveESNMappings \/ Tick \/ UNCHANGED vars
  <2>1. UNCHANGED active
    BY <1>7 DEF AddIPESNMapping, RemoveESNMappings, Tick, vars
  <2>2. QED
    BY <2>1 DEF NumbersInv, Active
<1>8. QED
  BY <1>2, <1>3, <1>4, <1>5, <1>6, <1>7 DEF Next, ProcessEvent

\* Numbers in order that fit leave the aggregate's above all.
LEMMA LastNumber == NumbersInv /\ NumbersFit => AggregateNumberedLast
<1> SUFFICES ASSUME NumbersInv, NumbersFit, NEW s \in Active
             PROVE  AggregateNumber(active[s]) > active[s].counter - 1
  BY DEF AggregateNumberedLast
<1> DEFINE t == active[s]
<1>1. t \in Transaction
  BY DEF NumbersInv, SessionInv, TypeOK, Active
<1>2. t.counter \in Nat /\ t.other \in Seq(Item) /\ t.triad \in BOOLEAN
  BY <1>1, UInt16Nat DEF Transaction
<1>3. Len(t.other) \in Nat
  BY <1>2
<1>4. t.counter <= Len(t.other) + 2
  BY <1>2, <1>3 DEF NumbersInv, NumberRule
<1>5. AggregateNumber(t) = Len(t.other) + 4
  BY <1>3, WrapsDown DEF NumbersFit, AggregateNumber
<1> HIDE DEF t
<1>6. AggregateNumber(t) > t.counter - 1
  BY <1>2, <1>3, <1>4, <1>5
<1>7. QED
  BY <1>6 DEF t

\* The start state has used no number.
LEMMA InitNumbers == Init => NumbersInv
BY InitType DEF Init, NumbersInv, SessionInv, StartMarksOne, WaitsForTriad, Active

\* As long as a register has one camera and its transactions' numbers fit a
\* uint16, an aggregate's number is above those its individual events used.
THEOREM LastWithOneCamera ==
    Spec /\ []SingleCamera => [](NumbersFit => AggregateNumberedLast)
<1>1. NumbersInv => (NumbersFit => AggregateNumberedLast)
  BY LastNumber
<1>2. QED
  BY <1>1, InitNumbers, NextNumbers, PTL DEF Spec

-----------------------------------------------------------------------------
(* The same for the bound on what is held *)

\* At most MaxHeld messages are held.
HeldBounded == IsFiniteSet(HeldItems) /\ Cardinality(HeldItems) <= MaxHeld

\* With what it takes for held messages to be different ones and groups few.
BoundInv == OnceInv /\ WindowInv /\ HeldBounded

\* An event outside any transaction adds itself at most to what is held.
LEMMA ItemsAfterUnknownEvent ==
    ASSUME WindowInv, NEW kind \in Kinds, Live = {}, HandleUnknownEvent(kind)
    PROVE  HeldItems' \subseteq KeptItems \cup {Stamped(kind)}
<1> DEFINE same == {g \in LiveGroups : g.key = WindowKey}
           others == {g \in LiveGroups : g.key # WindowKey}
           ext == Extended(kind)
<1>1. GroupItems(ext) = (UNION {GroupItems(g) : g \in same}) \cup {Stamped(kind)}
  BY ExtendedTakesOver
<1>2. groups' \subseteq others \cup {ext}
  BY DEF HandleUnknownEvent
<1>3. \A g \in LiveGroups : GroupItems(g) \subseteq KeptItems
  BY DEF KeptItems
<1> HIDE DEF ext
<1>4. \A g \in groups' : GroupItems(g) \subseteq KeptItems \cup {Stamped(kind)}
  BY <1>1, <1>2, <1>3
<1>5. Active' = {}
  BY DEF HandleUnknownEvent, Active
<1>6. QED
  BY <1>4, <1>5 DEF HeldItems, GroupItems

\* One message more fits where fewer than the bound are held.
LEMMA OneMoreFits ==
    ASSUME HeldBounded, NEW new,
           \/ HeldItems' \subseteq HeldItems
           \/ HeldItems' \subseteq HeldItems \cup {new} /\ Cardinality(HeldItems) < MaxHeld
    PROVE  HeldBounded'
<1>1. IsFiniteSet(HeldItems) /\ Cardinality(HeldItems) \in Nat
  BY FS_CardinalityType DEF HeldBounded
<1>2. MaxHeld \in Nat
  BY TimeAssumption
<1>3. CASE HeldItems' \subseteq HeldItems
  <2>1. IsFiniteSet(HeldItems') /\ Cardinality(HeldItems') <= Cardinality(HeldItems)
    BY <1>1, <1>3, FS_Subset
  <2>2. Cardinality(HeldItems') \in Nat
    BY <2>1, FS_CardinalityType
  <2>3. Cardinality(HeldItems') <= MaxHeld
    BY <2>1, <2>2, <1>1, <1>2 DEF HeldBounded
  <2>4. QED
    BY <2>1, <2>3 DEF HeldBounded
<1>4. CASE HeldItems' \subseteq HeldItems \cup {new} /\ Cardinality(HeldItems) < MaxHeld
  <2>1. /\ IsFiniteSet(HeldItems \cup {new})
        /\ \/ Cardinality(HeldItems \cup {new}) = Cardinality(HeldItems)
           \/ Cardinality(HeldItems \cup {new}) = Cardinality(HeldItems) + 1
    BY <1>1, FS_AddElement
  <2>2. IsFiniteSet(HeldItems') /\ Cardinality(HeldItems') <= Cardinality(HeldItems \cup {new})
    BY <2>1, <1>4, FS_Subset
  <2>3. Cardinality(HeldItems') \in Nat
    BY <2>2, FS_CardinalityType
  <2>4. Cardinality(HeldItems') <= MaxHeld
    BY <2>1, <2>2, <2>3, <1>1, <1>2, <1>4
  <2>5. QED
    BY <2>2, <2>4 DEF HeldBounded
<1>5. QED
  BY <1>3, <1>4

\* Every step keeps to the bound.
LEMMA NextBound == BoundInv /\ [Next]_vars => BoundInv'
<1> SUFFICES ASSUME BoundInv, [Next]_vars PROVE HeldBounded'
  BY NextOnce, NextWindow DEF BoundInv
<1>1. KeptItems \subseteq HeldItems
  BY KeptApart DEF BoundInv, OnceInv, HeldInv
<1>2. ASSUME Active' = {}, groups' \subseteq LiveGroups PROVE HeldBounded'
  <2>1. HeldItems' \subseteq KeptItems
    BY <1>2 DEF HeldItems, KeptItems, GroupItems
  <2>2. QED
    BY <1>1, <2>1, OneMoreFits DEF BoundInv
<1>3. ASSUME NEW kind \in Kinds \ Demarcators, Arrival(kind),
             HeldItems' \subseteq KeptItems \cup {Stamped(kind)}
      PROVE  HeldBounded'
  <2>1. Cardinality(HeldItems) < MaxHeld
    BY <1>3 DEF Arrival
  <2>2. HeldItems' \subseteq HeldItems \cup {Stamped(kind)}
    BY <1>1, <1>3
  <2>3. QED
    BY <2>1, <2>2, OneMoreFits DEF BoundInv
<1>4. CASE StartEvent
  BY <1>2, <1>4 DEF StartEvent, HandleStartTransaction, Active
<1>5. CASE EndEvent
  BY <1>2, <1>5 DEF EndEvent, HandleEndTransaction, EndOutsideTransaction, EndOfTransaction, Active
<1>6. CASE NumberedEvent
  <2>1. PICK s \in Seqs : Arrival("Meta") /\ HandleTransactionEvent(s, "Meta")
    BY <1>6 DEF NumberedEvent
  <2>2. "Meta" \in Kinds \ Demarcators
    BY DEF Kinds, Demarcators
  <2>3. QED
    BY <2>1, <2>2, <1>3, ItemsAfterTransactionEvent DEF BoundInv, OnceInv, HeldInv
<1>7. CASE LinkedEvent
  <2>1. PICK kind \in Alphabet \ (Demarcators \cup {"Meta"}), s \in Seqs :
            Arrival(kind) /\ HandleTransactionEvent(s, kind)
    BY <1>7 DEF LinkedEvent
  <2>2. kind \in Kinds \ Demarcators
    BY NamesAssumption
  <2>3. QED
    BY <2>1, <2>2, <1>3, ItemsAfterTransactionEvent DEF BoundInv, OnceInv, HeldInv
<1>8. CASE UnlinkedEvent
  <2>1. PICK kind \in Alphabet \ (Demarcators \cup {"Meta"}) :
            Arrival(kind) /\ Live = {} /\ HandleUnknownEvent(kind)
    BY <1>8 DEF UnlinkedEvent
  <2>2. kind \in Kinds \ Demarcators
    BY NamesAssumption
  <2>3. QED
    BY <2>1, <2>2, <1>3, ItemsAfterUnknownEvent DEF BoundInv
<1>9. CASE AddIPESNMapping \/ RemoveESNMappings \/ Tick \/ UNCHANGED vars
  <2>1. UNCHANGED <<active, groups>>
    BY <1>9 DEF AddIPESNMapping, RemoveESNMappings, Tick, vars
  <2>2. HeldItems' = HeldItems
    BY <2>1 DEF HeldItems, GroupItems, Active
  <2>3. QED
    BY <2>2 DEF BoundInv, HeldBounded
<1>10. QED
  BY <1>4, <1>5, <1>6, <1>7, <1>8, <1>9 DEF Next, ProcessEvent

\* A transaction has no more lines than messages are held.
LEMMA LinesAreHeld ==
    ASSUME BoundInv, NEW s \in Active
    PROVE  Len(active[s].other) <= MaxHeld
<1> DEFINE q == active[s].other
           n == Len(q)
<1>1. q \in Seq(Item) /\ Distinct(q)
  BY DEF BoundInv, OnceInv, OnceRule, SessionInv, TypeOK, Active, Transaction
<1>2. n \in Nat /\ DOMAIN q = 1 .. n /\ q = [i \in 1 .. n |-> q[i]]
  BY <1>1
<1>3. Range(q) \subseteq HeldItems
  BY DEF HeldItems
<1>4. q \in [1 .. n -> HeldItems]
  BY <1>2, <1>3 DEF Range
<1> HIDE DEF q, n
<1>5. q \in Injection(1 .. n, HeldItems)
  BY <1>1, <1>2, <1>4 DEF Injection, IsInjective, Distinct
<1>6. Cardinality(1 .. n) <= Cardinality(HeldItems)
  BY <1>5, FS_Injection DEF BoundInv, HeldBounded
<1>7. Cardinality(1 .. n) = n
  <2>1. n = 0 => Cardinality(1 .. n) = 0
    BY <1>2, FS_Interval
  <2>2. QED
    BY <2>1, <1>2, FS_Interval
<1>8. Cardinality(HeldItems) \in Nat /\ Cardinality(HeldItems) <= MaxHeld /\ MaxHeld \in Nat
  BY FS_CardinalityType, TimeAssumption DEF BoundInv, HeldBounded
<1>9. n <= MaxHeld
  BY <1>2, <1>6, <1>7, <1>8
<1>10. QED
  BY <1>9 DEF n, q

\* A register whose cameras are all the same has one.
LEMMA OneMapped ==
    ASSUME BoundInv, \A e, f \in ESNs : e = f
    PROVE  SingleCamera
<1>1. esns \in Seq(ESNs) /\ Distinct(esns)
  BY DEF BoundInv, OnceInv, OnceRule, SessionInv, TypeOK
<1>2. Len(esns) \in Nat /\ DOMAIN esns = 1 .. Len(esns)
  BY <1>1
<1>3. ASSUME ~(Len(esns) <= 1) PROVE FALSE
  <2>1. 1 \in DOMAIN esns /\ 2 \in DOMAIN esns
    BY <1>2, <1>3
  <2>2. esns[1] \in ESNs /\ esns[2] \in ESNs
    BY <1>1, <2>1
  <2>3. QED
    BY <1>1, <2>1, <2>2 DEF Distinct
<1>4. QED
  BY <1>3 DEF SingleCamera

\* With one camera, and no more messages held than a uint16 can number, an
\* aggregate's number is above those its transaction's individual events used.
THEOREM AggregateIsLast ==
    ASSUME \A e, f \in ESNs : e = f, MaxHeld + 4 < UInt16
    PROVE  Spec => []AggregateNumberedLast
<1> DEFINE Inv == BoundInv /\ NumbersInv
<1>1. Init => Inv
  <2> SUFFICES ASSUME Init PROVE Inv
    OBVIOUS
  <2>1. HeldItems = {}
    BY DEF Init, HeldItems, Active
  <2>2. HeldBounded
    BY <2>1, FS_EmptySet, TimeAssumption DEF HeldBounded
  <2>3. Distinct(esns) /\ Active = {} /\ groups = {}
    BY DEF Init, Distinct, Active
  <2>4. QED
    BY <2>2, <2>3, InitNumbers, InitHeld, InitType
       DEF BoundInv, NumbersInv, OnceInv, OnceRule, WindowInv, WindowRule
<1>2. Inv /\ [Next]_vars => Inv'
  BY NextBound, NextNumbers, OneMapped
<1>3. Inv => AggregateNumberedLast
  <2> SUFFICES ASSUME Inv PROVE NumbersFit
    BY LastNumber
  <2>1. ASSUME NEW s \in Active PROVE Len(active[s].other) + 4 < UInt16
    <3>1. Len(active[s].other) <= MaxHeld
      BY LinesAreHeld
    <3>2. active[s].other \in Seq(Item)
      BY DEF NumbersInv, SessionInv, TypeOK, Active, Transaction
    <3>3. Len(active[s].other) \in Nat /\ MaxHeld \in Nat /\ UInt16 \in Nat
      BY <3>2, TimeAssumption DEF UInt16
    <3>4. QED
      BY <3>1, <3>3
  <2>2. QED
    BY <2>1 DEF NumbersFit
<1> HIDE DEF Inv
<1>4. QED
  BY <1>1, <1>2, <1>3, PTL DEF Spec

-----------------------------------------------------------------------------
(* The machine implements the ledger *)

\* The outcome with which a timed-out transaction is reported.
TimeoutOutcome ==
    [s \in Expired |-> FinalStatus(active[s], TimeoutStatus(active[s]))]

\* A register always has a camera to report to.
LEMMA TargetsExist ==
    ASSUME esns \in Seq(ESNs)
    PROVE  \E esn : esn \in Range(Targets)
<1>1. CASE esns = <<>>
  <2>1. Targets = <<DefaultESN>>
    BY <1>1 DEF Targets
  <2>2. 1 \in DOMAIN Targets
    BY <2>1
  <2>3. QED
    BY <2>2 DEF Range
<1>2. CASE esns # <<>>
  <2>1. Targets = esns /\ 1 \in DOMAIN esns
    BY <1>2 DEF Targets
  <2>2. QED
    BY <2>1 DEF Range
<1>3. QED
  BY <1>1, <1>2

\* The reports in a union are the reports in its parts.
LEMMA ReportsInUnion ==
    \A A, B : ReportsIn(A \cup B) = ReportsIn(A) \cup ReportsIn(B)
BY DEF ReportsIn

\* An aggregate names its transaction and the final status.
LEMMA AggregateFields ==
    ASSUME NEW s, NEW t, NEW status, NEW a \in SendToNS91(s, t, status)
    PROVE  a.tx = s /\ a.status = FinalStatus(t, status)
BY DEF SendToNS91, Aggregate

\* Sending a transaction's aggregate to its cameras reports it once.
LEMMA ReportOfTransaction ==
    ASSUME esns \in Seq(ESNs), NEW s \in Seqs, NEW t, NEW status
    PROVE  ReportsIn(SendToNS91(s, t, status))
             = {[tx |-> s, status |-> FinalStatus(t, status)]}
<1>1. PICK esn : esn \in Range(Targets)
  BY TargetsExist
<1>2. \A a \in SendToNS91(s, t, status) :
        a.tx = s /\ a.status = FinalStatus(t, status)
  BY AggregateFields
<1>3. Aggregate(s, t, status, esn) \in SendToNS91(s, t, status)
  BY <1>1 DEF SendToNS91
<1>4. QED
  BY <1>2, <1>3, NamesAssumption DEF ReportsIn

\* Flushed groups of unknown events report no transaction.
LEMMA ReportsOfGroups ==
    ASSUME NEW G
    PROVE  ReportsIn(UNION {FlushGroup(g) : g \in G}) = {}
<1>1. ASSUME NEW g, NEW a \in FlushGroup(g) PROVE a.tx = NoSeq
  BY <1>1, AggregateFields DEF FlushGroup
<1>2. QED
  BY <1>1 DEF ReportsIn

\* One flushed group reports no transaction.
LEMMA ReportsOfGroup ==
    ASSUME NEW g
    PROVE  ReportsIn(FlushGroup(g)) = {}
<1>1. UNION {FlushGroup(h) : h \in {g}} = FlushGroup(g)
  OBVIOUS
<1>2. QED
  BY <1>1, ReportsOfGroups

\* The cleanups report the timed-out transactions with their outcomes.
LEMMA ReportsOfCleanup ==
    ASSUME TypeOK
    PROVE  /\ ReportsIn(CleanupReports) = Ledger!Report(TimeoutOutcome)
           /\ TimeoutOutcome \in Ledger!TimeoutOutcomes(Expired)
           /\ Expired \in SUBSET Active
           /\ Live = Active \ Expired
<1> DEFINE sends == {SendToNS91(s, active[s], TimeoutStatus(active[s])) : s \in Expired}
           rec(s) == [tx |-> s, status |-> TimeoutOutcome[s]]
<1>1. Expired \subseteq Seqs
  BY DEF Expired, Active
<1>2. \A s \in Expired :
        ReportsIn(SendToNS91(s, active[s], TimeoutStatus(active[s]))) = {rec(s)}
  BY <1>1, ReportOfTransaction DEF TypeOK, TimeoutOutcome
<1>3. ReportsIn(UNION {FlushGroup(g) : g \in StaleGroups}) = {}
  BY ReportsOfGroups
<1>4. ReportsIn(UNION sends) = {rec(s) : s \in Expired}
  <2>1. ASSUME NEW r \in ReportsIn(UNION sends) PROVE r \in {rec(s) : s \in Expired}
    <3>1. PICK a \in UNION sends : a.tx # NoSeq /\ r = [tx |-> a.tx, status |-> a.status]
      BY <2>1 DEF ReportsIn
    <3>2. PICK s \in Expired : a \in SendToNS91(s, active[s], TimeoutStatus(active[s]))
      BY <3>1
    <3>3. r \in ReportsIn(SendToNS91(s, active[s], TimeoutStatus(active[s])))
      BY <3>1, <3>2 DEF ReportsIn
    <3>4. QED
      BY <3>3, <1>2
  <2>2. ASSUME NEW s \in Expired PROVE rec(s) \in ReportsIn(UNION sends)
    <3>1. rec(s) \in ReportsIn(SendToNS91(s, active[s], TimeoutStatus(active[s])))
      BY <1>2
    <3>2. PICK a \in SendToNS91(s, active[s], TimeoutStatus(active[s])) :
            a.tx # NoSeq /\ rec(s) = [tx |-> a.tx, status |-> a.status]
      BY <3>1 DEF ReportsIn
    <3>3. a \in UNION sends
      BY <3>2
    <3>4. QED
      BY <3>2, <3>3 DEF ReportsIn
  <2>3. QED
    BY <2>1, <2>2
<1>5. ReportsIn(CleanupReports) = {rec(s) : s \in Expired}
  <2> DEFINE flushes == {FlushGroup(g) : g \in StaleGroups}
  <2>1. CleanupReports = (UNION sends) \cup (UNION flushes)
    BY DEF CleanupReports
  <2>2. ReportsIn(CleanupReports) = ReportsIn(UNION sends) \cup ReportsIn(UNION flushes)
    BY <2>1, ReportsInUnion
  <2>3. QED
    BY <2>2, <1>3, <1>4
<1>6. ReportsIn(CleanupReports) = Ledger!Report(TimeoutOutcome)
  BY <1>5 DEF Ledger!Report, TimeoutOutcome
<1>7. TimeoutOutcome \in [Expired -> Ledger!Outcome]
  BY DEF TimeoutOutcome, FinalStatus, TimeoutStatus, Ledger!Outcome
<1>8. \A s \in Expired : TimeoutOutcome[s] = "GOOD" => s \in Ended
  BY DEF TimeoutOutcome, FinalStatus, TimeoutStatus, CCEOTExpired, Expired, Ended
<1>9. QED
  BY <1>6, <1>7, <1>8 DEF Live, Expired, Ledger!TimeoutOutcomes

\* Abandoning transactions reports each of them as abandoned.
LEMMA ReportsOfAbandon ==
    ASSUME TypeOK, NEW S \in SUBSET Seqs
    PROVE  ReportsIn(Abandon(S)) = Ledger!Abandoned(S)
<1> DEFINE rec(s) == [tx |-> s, status |-> "ABANDONED"]
<1>1. \A s \in S : ReportsIn(SendToNS91(s, active[s], "ABANDONED")) = {rec(s)}
  BY ReportOfTransaction DEF TypeOK, FinalStatus
<1>2. ASSUME NEW r \in ReportsIn(Abandon(S)) PROVE r \in {rec(s) : s \in S}
  <2>1. PICK a \in Abandon(S) : a.tx # NoSeq /\ r = [tx |-> a.tx, status |-> a.status]
    BY <1>2 DEF ReportsIn
  <2>2. PICK s \in S : a \in SendToNS91(s, active[s], "ABANDONED")
    BY <2>1 DEF Abandon
  <2>3. r \in ReportsIn(SendToNS91(s, active[s], "ABANDONED"))
    BY <2>1, <2>2 DEF ReportsIn
  <2>4. QED
    BY <2>3, <1>1
<1>3. ASSUME NEW s \in S PROVE rec(s) \in ReportsIn(Abandon(S))
  <2>1. rec(s) \in ReportsIn(SendToNS91(s, active[s], "ABANDONED"))
    BY <1>1
  <2>2. PICK a \in SendToNS91(s, active[s], "ABANDONED") :
          a.tx # NoSeq /\ rec(s) = [tx |-> a.tx, status |-> a.status]
    BY <2>1 DEF ReportsIn
  <2>3. a \in Abandon(S)
    BY <2>2 DEF Abandon
  <2>4. QED
    BY <2>2, <2>3 DEF ReportsIn
<1>4. QED
  BY <1>2, <1>3 DEF Ledger!Abandoned

\* An event routed to a transaction is a join of the ledger.
LEMMA JoinStep ==
    ASSUME SessionInv, NEW s \in Seqs, NEW kind \in Kinds \ Demarcators,
           HandleTransactionEvent(s, kind)
    PROVE  Ledger!Join(Expired, TimeoutOutcome, s)
<1> DEFINE old == IF s \in Live THEN active[s] ELSE NewTransaction(pendingStart)
           t == Settled(Recorded(old, kind), kind)
<1>1. /\ pendingStart' = (pendingStart /\ s \in Live)
      /\ ns91' = CleanupReports
      /\ \A r \in Seqs : active'[r] = IF r = s THEN t
                                     ELSE IF r \in Live THEN active[r] ELSE NoTx
  BY DEF HandleTransactionEvent
<1>2. old \in Transaction
  BY NewTransactionType DEF SessionInv, TypeOK, Live, Active
<1>3. t \in Transaction /\ t # NoTx
  BY <1>2, RecordedType, SettledType, NoTxAssumption DEF SessionInv, TypeOK
<1>4. t.cmd = old.cmd
  BY <1>2 DEF Settled, Recorded, Transaction
<1>5. Live = Active \ Expired /\ \A r \in Live : r \in Seqs /\ active[r] # NoTx
  BY DEF Live, Active
<1>6. Active' = (Active \ Expired) \cup {s}
  BY <1>1, <1>3, <1>5 DEF Active
<1>7. ReportsIn(ns91)' = Ledger!Report(TimeoutOutcome)
  BY <1>1, ReportsOfCleanup DEF SessionInv, ReportsIn
<1>8. Started' = {r \in (Active \ Expired) \cup {s} : active'[r].cmd}
  BY <1>6 DEF Started
<1>9. pendingStart \in BOOLEAN
  BY DEF SessionInv, TypeOK
<1>10. \E last \in SUBSET {s} : Ended' = ((Ended \ Expired) \ {s}) \cup last
  <2>1. Ended' = {r \in (Active \ Expired) \cup {s} : active'[r].cceot # NoTime}
    BY <1>6 DEF Ended
  <2>2. \A r \in (Active \ Expired) \ {s} : active'[r] = active[r]
    BY <1>1, <1>5
  <2>3. Ended' \ {s} = (Ended \ Expired) \ {s}
    BY <2>1, <2>2 DEF Ended
  <2>4. Ended' \cap {s} \in SUBSET {s}
    OBVIOUS
  <2>5. Ended' = ((Ended \ Expired) \ {s}) \cup (Ended' \cap {s})
    BY <2>3
  <2>6. QED
    BY <2>4, <2>5
<1>11. CASE s \in Live
  <2>1. Started' = Started \ Expired
    BY <1>1, <1>4, <1>5, <1>8, <1>11 DEF Started
  <2>2. pendingStart' = pendingStart
    BY <1>1, <1>9, <1>11
  <2>3. QED
    BY <2>1, <2>2, <1>5, <1>6, <1>7, <1>11, <1>10 DEF Ledger!Join
<1>12. CASE s \notin Live
  <2>1. t.cmd = pendingStart
    BY <1>4, <1>12 DEF NewTransaction
  <2>2. Started' = (Started \ Expired) \cup (IF pendingStart THEN {s} ELSE {})
    BY <2>1, <1>1, <1>5, <1>8, <1>12 DEF Started
  <2>3. pendingStart' = FALSE
    BY <1>1, <1>12
  <2>4. QED
    BY <2>2, <2>3, <1>5, <1>6, <1>7, <1>12, <1>10 DEF Ledger!Join
<1>13. QED
  BY <1>11, <1>12

\* Where the handlers clear the map, the ledger has nothing open.
LEMMA ClearedLedger ==
    ASSUME active' = [r \in Seqs |-> NoTx]
    PROVE  Active' = {} /\ Started' = {} /\ Ended' = {}
BY DEF Active, Started, Ended

\* A start demarcator is an interruption of the ledger.
LEMMA InterruptStep ==
    ASSUME SessionInv, HandleStartTransaction
    PROVE  Ledger!Interrupt(Expired, TimeoutOutcome)
<1>1. /\ ns91' = CleanupReports \cup Abandon(Live)
      /\ pendingStart' = TRUE /\ active' = [r \in Seqs |-> NoTx]
  BY DEF HandleStartTransaction
<1>2. Live \in SUBSET Seqs
  BY DEF Live, Active
<1>3. ReportsIn(ns91)' = Ledger!Report(TimeoutOutcome) \cup Ledger!Abandoned(Active \ Expired)
  <2>1. ReportsIn(CleanupReports \cup Abandon(Live))
          = ReportsIn(CleanupReports) \cup ReportsIn(Abandon(Live))
    BY ReportsInUnion
  <2>2. ReportsIn(ns91') = ReportsIn(CleanupReports) \cup ReportsIn(Abandon(Live))
    BY <1>1, <2>1, Zenon
  <2>3. QED
    BY <2>2, <1>2, ReportsOfCleanup, ReportsOfAbandon DEF SessionInv
<1>4. QED
  BY <1>1, <1>3, ClearedLedger DEF Ledger!Interrupt

\* An end demarcator with a live transaction finishes it in the ledger.
LEMMA FinishStep ==
    ASSUME SessionInv, NEW s \in Seqs, EndOfTransaction(s)
    PROVE  Ledger!Finish(Expired, TimeoutOutcome, s)
<1> DEFINE status == IF active[s].triad THEN "GOOD" ELSE "ABANDONED"
           last == SendToNS91(s, active[s], status)
           o == FinalStatus(active[s], status)
<1>1. /\ ns91' = (CleanupReports \cup Abandon(Live \ {s})) \cup last
      /\ pendingStart' = FALSE /\ active' = [r \in Seqs |-> NoTx]
      /\ s \in Live
  BY DEF EndOfTransaction, IsLatest
<1>2. Live \ {s} \in SUBSET Seqs
  BY DEF Live, Active
<1>3. ReportsIn(last) = {[tx |-> s, status |-> o]}
  BY ReportOfTransaction DEF SessionInv, TypeOK
<1>4. ReportsIn(ns91') = (ReportsIn(CleanupReports) \cup ReportsIn(Abandon(Live \ {s})))
                           \cup ReportsIn(last)
  <2> DEFINE others == CleanupReports \cup Abandon(Live \ {s})
  <2>1. ReportsIn(others) = ReportsIn(CleanupReports) \cup ReportsIn(Abandon(Live \ {s}))
    BY ReportsInUnion
  <2>2. ReportsIn(others \cup last) = ReportsIn(others) \cup ReportsIn(last)
    BY ReportsInUnion
  <2>3. ns91' = others \cup last
    BY <1>1
  <2>4. ReportsIn(ns91') = ReportsIn(others) \cup ReportsIn(last)
    BY <2>2, <2>3, Zenon
  <2> HIDE DEF others
  <2>5. QED
    BY <2>1, <2>4, Zenon
<1>5. ReportsIn(ns91)' = Ledger!Report(TimeoutOutcome)
                           \cup Ledger!Abandoned((Active \ Expired) \ {s})
                           \cup {[tx |-> s, status |-> o]}
  BY <1>2, <1>3, <1>4, ReportsOfCleanup, ReportsOfAbandon DEF SessionInv
<1>6. o \in Ledger!Outcome
  BY DEF FinalStatus, Ledger!Outcome
<1>7. o = "GOOD" => s \in Started
  <2>1. active[s].triad => active[s].cmd
    BY <1>1 DEF SessionInv, WaitsForTriad, TriadRule, Live
  <2>2. o = "GOOD" => active[s].triad
    BY DEF FinalStatus
  <2>3. QED
    BY <2>1, <2>2, <1>1 DEF Started, Live
<1>8. s \in Active \ Expired
  BY <1>1, ReportsOfCleanup DEF SessionInv
<1>9. QED
  BY <1>1, <1>5, <1>6, <1>7, <1>8, ClearedLedger DEF Ledger!Finish

\* An end or another message that finds nothing open is outside the ledger.
LEMMA OutsideStep ==
    ASSUME SessionInv,
           \/ EndOutsideTransaction
           \/ Live = {} /\ \E kind \in Kinds : HandleUnknownEvent(kind)
    PROVE  Ledger!Outside(Expired, TimeoutOutcome)
<1>1. Live = {} /\ Expired = Active
  BY ReportsOfCleanup DEF SessionInv, EndOutsideTransaction
<1>2. active' = [r \in Seqs |-> NoTx] /\ pendingStart' \in {pendingStart, FALSE}
  BY <1>1 DEF EndOutsideTransaction, HandleUnknownEvent
<1>3. ReportsIn(ns91') = ReportsIn(CleanupReports)
  <2>1. CASE EndOutsideTransaction
    <3> DEFINE flushes == UNION {FlushGroup(g) : g \in LiveGroups}
    <3>1. ns91' = CleanupReports \cup flushes
      BY <2>1 DEF EndOutsideTransaction
    <3>2. ReportsIn(flushes) = {}
      BY ReportsOfGroups
    <3> HIDE DEF flushes
    <3>3. ReportsIn(CleanupReports \cup flushes) = ReportsIn(CleanupReports)
      BY <3>2, ReportsInUnion
    <3>4. QED
      BY <3>1, <3>3, Zenon
  <2>2. ASSUME NEW kind \in Kinds, HandleUnknownEvent(kind)
        PROVE  ReportsIn(ns91') = ReportsIn(CleanupReports)
    <3>1. ns91' = CleanupReports
            \cup (IF GroupComplete(Extended(kind)) THEN FlushGroup(Extended(kind)) ELSE {})
      BY <2>2 DEF HandleUnknownEvent
    <3>2. CASE GroupComplete(Extended(kind))
      <4>1. ns91' = CleanupReports \cup FlushGroup(Extended(kind))
        BY <3>1, <3>2
      <4>2. ReportsIn(CleanupReports \cup FlushGroup(Extended(kind)))
              = ReportsIn(CleanupReports)
        BY ReportsInUnion, ReportsOfGroup
      <4>3. QED
        BY <4>1, <4>2, Zenon
    <3>3. CASE ~GroupComplete(Extended(kind))
      <4>1. ns91' = CleanupReports
        BY <3>1, <3>3
      <4>2. QED
        BY <4>1
    <3>4. QED
      BY <3>2, <3>3
  <2>3. QED
    BY <2>1, <2>2
<1>4. ReportsIn(ns91)' = Ledger!Report(TimeoutOutcome)
  BY <1>3, ReportsOfCleanup DEF SessionInv
<1>5. QED
  BY <1>1, <1>2, <1>4, ClearedLedger DEF Ledger!Outside

\* A step that offers nothing and touches no transaction is quiet.
LEMMA QuietStep ==
    ASSUME AddIPESNMapping \/ RemoveESNMappings \/ Tick
    PROVE  Ledger!Quiet
<1>1. ns91' = {} /\ UNCHANGED <<active, pendingStart>>
  BY DEF AddIPESNMapping, RemoveESNMappings, Tick
<1>2. QED
  BY <1>1 DEF Ledger!Quiet, ReportsIn, Active, Started, Ended

\* Every step of the machine is a step of the ledger.
LEMMA NextLedger == SessionInv /\ [Next]_vars => [Ledger!Next]_(Ledger!vars)
<1> SUFFICES ASSUME SessionInv, [Next]_vars PROVE [Ledger!Next]_(Ledger!vars)
  OBVIOUS
<1>1. Expired \in SUBSET Active /\ TimeoutOutcome \in Ledger!TimeoutOutcomes(Expired)
  BY ReportsOfCleanup DEF SessionInv
<1>2. CASE StartEvent
  BY <1>1, <1>2, InterruptStep DEF StartEvent, Ledger!Next
<1>3. CASE EndEvent
  <2>1. CASE EndOutsideTransaction
    BY <1>1, <2>1, OutsideStep DEF Ledger!Next
  <2>2. ASSUME NEW s \in Seqs, EndOfTransaction(s) PROVE Ledger!Next
    BY <1>1, <2>2, FinishStep DEF Ledger!Next
  <2>3. QED
    BY <1>3, <2>1, <2>2 DEF EndEvent, HandleEndTransaction
<1>4. ASSUME NEW s \in Seqs, NEW kind \in Kinds \ Demarcators,
             HandleTransactionEvent(s, kind)
      PROVE  Ledger!Next
  BY <1>1, <1>4, JoinStep DEF Ledger!Next
<1>5. CASE NumberedEvent
  BY <1>4, <1>5 DEF NumberedEvent, Kinds, Demarcators
<1>6. CASE LinkedEvent
  BY <1>4, <1>6, NamesAssumption DEF LinkedEvent
<1>7. CASE UnlinkedEvent
  <2>1. Ledger!Outside(Expired, TimeoutOutcome)
    BY <1>7, OutsideStep, NamesAssumption DEF UnlinkedEvent
  <2>2. QED
    BY <1>1, <2>1 DEF Ledger!Next
<1>8. CASE AddIPESNMapping \/ RemoveESNMappings \/ Tick
  BY <1>8, QuietStep DEF Ledger!Next
<1>9. CASE UNCHANGED vars
  <2>1. UNCHANGED <<active, pendingStart, ns91>>
    BY <1>9 DEF vars
  <2>2. Active' = Active
    BY <2>1 DEF Active
  <2>3. Started' = Started
    BY <2>1, <2>2 DEF Started
  <2>4. ReportsIn(ns91)' = ReportsIn(ns91)
    BY <2>1 DEF ReportsIn
  <2>5. Ended' = Ended
    BY <2>1, <2>2 DEF Ended
  <2>6. QED
    BY <2>1, <2>2, <2>3, <2>4, <2>5 DEF Ledger!vars
<1>10. QED
  BY <1>2, <1>3, <1>5, <1>6, <1>7, <1>8, <1>9 DEF Next, ProcessEvent

\* The machine implements the ledger of transactions: each one that opens is
\* reported exactly in the step that closes it.
THEOREM MachineKeepsLedger == Spec => KeepsLedger
<1>1. Init => SessionInv
  BY InitType DEF Init, SessionInv, StartMarksOne, WaitsForTriad, Active
<1>2. Init => Ledger!Init
  BY DEF Init, Ledger!Init, Active, Started, Ended, ReportsIn
<1>3. QED
  BY <1>1, <1>2, NextSession, NextLedger, PTL DEF Spec, KeepsLedger, Ledger!Spec
=============================================================================
