-------------------------- MODULE ANNTStoreProofs --------------------------
(* Proofs about ANNTStore, for any registers, cameras, requests, queue and   *)
(* database sizes.                                                           *)
EXTENDS ANNTStore, TLAPS

\* What has got to the store.
Arrived == store \cup (UNION {call[c].items : c \in Calls}) \cup Range(fetched)
             \cup drain.items \cup given

\* A creation time names one result, and the clock is not behind it.
CreatedOnce ==
    /\ \A i \in Upstream \cup Arrived : i.at <= made
    /\ \A i, j \in Upstream \cup Arrived : i.at = j.at => i = j

\* A result is in one place of those on the way, and has not arrived there too.
OnOneWay ==
    /\ Upstream \cap Arrived = {}
    /\ \A r \in Registers : \A i \in hand[r] : i.register = r
    /\ \A ns \in Namespaces :
        /\ IsInjective(queue[ns])
        /\ \A i \in Range(queue[ns]) : i.ns = ns
        /\ \A r \in Registers : hand[r] \cap Range(queue[ns]) = {}

\* A request reads one item at most, and what has been answered is neither in
\* the store nor with a request that could still commit.
ReadOnce ==
    /\ \A c \in Calls : \A i, j \in call[c].items : i = j
    /\ (store \cup InHand) \cap Range(fetched) = {}

DrainCounted == drain.open => drains # 0

Inv == TypeOK /\ CreatedOnce /\ OnOneWay /\ ReadOnce /\ DrainCounted /\ ConflictMeansGone

-----------------------------------------------------------------------------
(* Queues *)

LEMMA RangeOfAppend ==
    ASSUME NEW S, NEW s \in Seq(S), NEW e \in S
    PROVE  Append(s, e) \in Seq(S) /\ Range(Append(s, e)) = Range(s) \cup {e}
<1>1. Append(s, e) \in Seq(S) /\ Len(Append(s, e)) = Len(s) + 1 /\ Len(s) \in Nat
  OBVIOUS
<1>2. \A k \in 1 .. Len(s) : Append(s, e)[k] = s[k]
  OBVIOUS
<1>3. Append(s, e)[Len(s) + 1] = e
  OBVIOUS
<1>4. DOMAIN Append(s, e) = 1 .. Len(s) + 1 /\ DOMAIN s = 1 .. Len(s)
  BY <1>1
<1>5. QED
  BY <1>1, <1>2, <1>3, <1>4 DEF Range

\* Only a new element can make a queue repeat itself.
LEMMA InjectiveAppend ==
    ASSUME NEW S, NEW s \in Seq(S), NEW e \in S, IsInjective(s), e \notin Range(s)
    PROVE  IsInjective(Append(s, e))
<1>1. \A k \in 1 .. Len(s) : Append(s, e)[k] = s[k] /\ s[k] # e
  BY DEF Range
<1>2. Append(s, e)[Len(s) + 1] = e /\ Len(s) \in Nat
  OBVIOUS
<1>3. DOMAIN Append(s, e) = 1 .. Len(s) + 1 /\ DOMAIN s = 1 .. Len(s)
  OBVIOUS
<1>4. QED
  BY <1>1, <1>2, <1>3 DEF IsInjective

\* What is left when the head is taken.
LEMMA TailOfQueue ==
    ASSUME NEW S, NEW s \in Seq(S), s # <<>>
    PROVE  /\ Head(s) \in S /\ Head(s) \in Range(s)
           /\ Tail(s) \in Seq(S) /\ Range(Tail(s)) \subseteq Range(s)
           /\ \A k \in DOMAIN Tail(s) : k + 1 \in DOMAIN s /\ Tail(s)[k] = s[k + 1]
           /\ IsInjective(s) => IsInjective(Tail(s)) /\ Head(s) \notin Range(Tail(s))
<1>1. Len(s) \in Nat /\ Len(s) # 0 /\ DOMAIN s = 1 .. Len(s)
  OBVIOUS
<1>2. Head(s) = s[1] /\ Head(s) \in S /\ 1 \in DOMAIN s
  BY <1>1
<1>3. Tail(s) \in Seq(S) /\ DOMAIN Tail(s) = 1 .. Len(s) - 1
  BY <1>1
<1>4. \A k \in DOMAIN Tail(s) : k + 1 \in DOMAIN s /\ Tail(s)[k] = s[k + 1]
  BY <1>1, <1>3
<1>5. Range(Tail(s)) \subseteq Range(s)
  BY <1>4 DEF Range
<1>6. ASSUME IsInjective(s) PROVE IsInjective(Tail(s)) /\ Head(s) \notin Range(Tail(s))
  BY <1>1, <1>2, <1>3, <1>4, <1>6 DEF IsInjective, Range
<1>7. QED
  BY <1>2, <1>3, <1>4, <1>5, <1>6 DEF Range

-----------------------------------------------------------------------------
(* The results on their way *)

LEMMA InitInv == Init => Inv
<1> SUFFICES ASSUME Init PROVE Inv
  OBVIOUS
<1>1. TypeOK
  <2> <<>> \in Seq(Item)
    OBVIOUS
  <2>1. queue \in [Namespaces -> Seq(Item)]
    BY DEF Init, EmptyQueues
  <2>2. call \in [Calls -> [items : SUBSET Item, stale : BOOLEAN]]
    BY DEF Init, NoCall
  <2>3. maintenance \in [step : {"sleep", "age", "aged", "size"}, keys : SUBSET Item]
    BY DEF Init, Asleep
  <2>4. fetched \in Seq(Item)
    BY DEF Init
  <2>5. made \in 0 .. MaxResults /\ drains + restarts <= MaxIncidents
        /\ drains \in Nat /\ restarts \in Nat
        /\ \A ns \in Namespaces : Len(queue[ns]) <= QueueCap
    BY StoreAssumption DEF Init, EmptyQueues
  <2>6. hand \in [Registers -> SUBSET Item] /\ store \subseteq Item /\ given \subseteq Item
        /\ drain \in [open : BOOLEAN, items : SUBSET Item] /\ full \in BOOLEAN
    BY DEF Init, NoDrain
  <2>7. QED
    BY <2>1, <2>2, <2>3, <2>4, <2>5, <2>6 DEF TypeOK
<1>2. Upstream = {}
  BY DEF Init, Upstream, EmptyQueues, Range
<1>3. Arrived = {}
  BY DEF Init, Arrived, NoCall, NoDrain, Range
<1>4. OnOneWay
  BY <1>2 DEF Init, OnOneWay, EmptyQueues, IsInjective, Range
<1>5. QED
  BY <1>1, <1>2, <1>3, <1>4 DEF Init, Inv, CreatedOnce, ReadOnce, DrainCounted,
       ConflictMeansGone, NoCall, NoDrain, Range

\* A new result has a creation time of its own.
LEMMA CreateInv ==
    ASSUME Inv, NEW r \in Registers, NEW ns \in Namespaces, NEW esn \in ESNs,
           Create(r, ns, esn)
    PROVE  Inv'
<1> DEFINE new == [at |-> made + 1, ns |-> ns, esn |-> esn, register |-> r]
<1>1. made' = made + 1 /\ made \in Nat /\ made < MaxResults /\ MaxResults \in Nat
  BY StoreAssumption DEF Create, Inv, TypeOK
<1>2. new \in Item /\ new.at = made + 1 /\ new.register = r
  BY <1>1 DEF Item
<1>3. hand' = [hand EXCEPT ![r] = {new}]
      /\ UNCHANGED <<queue, store, call, drain, maintenance, full, fetched, given, bounds>>
  BY <1>1 DEF Create
<1> HIDE DEF new
<1>4. TypeOK'
  BY <1>1, <1>2, <1>3 DEF Inv, TypeOK, bounds
<1>5. Arrived' = Arrived
  BY <1>3 DEF Arrived
<1>6. Upstream' \subseteq Upstream \cup {new}
  BY <1>3 DEF Upstream, Inv, TypeOK
<1>7. \A i \in Upstream \cup Arrived : i \in Item
  BY DEF Inv, TypeOK, Upstream, Arrived, Range
<1>8. \A i \in Upstream \cup Arrived : i.at <= made /\ i.at \in Nat
  BY <1>1, <1>7 DEF Inv, CreatedOnce, Item
<1>9. new \notin Upstream \cup Arrived
  BY <1>1, <1>2, <1>8
<1>10. CreatedOnce'
  BY <1>1, <1>2, <1>5, <1>6, <1>8 DEF Inv, CreatedOnce
<1>11. OnOneWay'
  <2>1. Upstream' \cap Arrived' = {}
    BY <1>5, <1>6, <1>9 DEF Inv, OnOneWay
  <2>2. \A q \in Registers : \A i \in hand'[q] : i.register = q
    BY <1>2, <1>3 DEF Inv, OnOneWay, TypeOK
  <2>3. \A q \in Registers, n \in Namespaces : hand'[q] \cap Range(queue'[n]) = {}
    BY <1>3, <1>9 DEF Inv, OnOneWay, TypeOK, Upstream
  <2>4. QED
    BY <1>3, <2>1, <2>2, <2>3 DEF Inv, OnOneWay
<1>12. ReadOnce' /\ DrainCounted' /\ ConflictMeansGone'
  BY <1>3 DEF Inv, ReadOnce, InHand, DrainCounted, ConflictMeansGone, bounds
<1>13. QED
  BY <1>4, <1>10, <1>11, <1>12 DEF Inv

\* A result goes from a hand to a queue, or is lost.
LEMMA SendInv == ASSUME Inv, NEW r \in Registers, Send(r) PROVE Inv'
<1>1. PICK i \in hand[r] :
        queue' = IF Len(queue[i.ns]) < QueueCap THEN [queue EXCEPT ![i.ns] = Append(@, i)]
                 ELSE queue
  BY DEF Send
<1>2. hand' = [hand EXCEPT ![r] = {}]
      /\ UNCHANGED <<made, store, call, drain, maintenance, full, fetched, given, bounds>>
  BY DEF Send
<1>3. i \in Item /\ i.ns \in Namespaces /\ i.register = r
  BY DEF Inv, TypeOK, OnOneWay, Item
<1>4. \A n \in Namespaces : queue[n] \in Seq(Item)
  BY DEF Inv, TypeOK
<1>5. /\ queue' \in [Namespaces -> Seq(Item)]
      /\ \A n \in Namespaces : Range(queue'[n]) \subseteq Range(queue[n]) \cup {i}
      /\ \A n \in Namespaces : i \in Range(queue'[n]) => n = i.ns
      /\ \A n \in Namespaces : IsInjective(queue'[n])
  <2>1. i \notin Range(queue[i.ns]) /\ \A n \in Namespaces : i \notin Range(queue[n])
    BY <1>3 DEF Inv, OnOneWay
  <2>2. /\ Append(queue[i.ns], i) \in Seq(Item)
        /\ Range(Append(queue[i.ns], i)) = Range(queue[i.ns]) \cup {i}
    BY <1>3, <1>4, RangeOfAppend
  <2>3. IsInjective(Append(queue[i.ns], i))
    BY <1>3, <1>4, <2>1, InjectiveAppend DEF Inv, OnOneWay
  <2>4. \A n \in Namespaces :
          queue'[n] = queue[n] \/ (n = i.ns /\ queue'[n] = Append(queue[n], i))
    <3>1. queue \in [Namespaces -> Seq(Item)]
      BY DEF Inv, TypeOK
    <3>2. CASE Len(queue[i.ns]) < QueueCap
      <4>1. queue' = [queue EXCEPT ![i.ns] = Append(@, i)]
        BY <1>1, <3>2
      <4>2. QED
        BY <1>3, <3>1, <4>1
    <3>3. CASE ~(Len(queue[i.ns]) < QueueCap)
      BY <1>1, <3>3
    <3>4. QED
      BY <3>2, <3>3
  <2>5. queue' \in [Namespaces -> Seq(Item)]
    <3>1. queue \in [Namespaces -> Seq(Item)]
      BY DEF Inv, TypeOK
    <3>2. CASE queue' = queue
      BY <3>1, <3>2
    <3>3. CASE queue' = [queue EXCEPT ![i.ns] = Append(@, i)]
      BY <1>3, <2>2, <3>1, <3>3
    <3>4. QED
      BY <1>1, <3>2, <3>3
  <2>6. \A n \in Namespaces : IsInjective(queue[n])
    BY DEF Inv, OnOneWay
  <2>7. \A n \in Namespaces : Range(queue'[n]) \subseteq Range(queue[n]) \cup {i}
    BY <2>2, <2>4
  <2>8. \A n \in Namespaces : i \in Range(queue'[n]) => n = i.ns
    BY <2>1, <2>4
  <2>9. \A n \in Namespaces : IsInjective(queue'[n])
    BY <2>3, <2>4, <2>6
  <2>10. QED
    BY <2>5, <2>7, <2>8, <2>9
<1>13. \A n \in Namespaces : Len(queue'[n]) <= QueueCap
  <2>1. queue \in [Namespaces -> Seq(Item)] /\ \A n \in Namespaces : Len(queue[n]) <= QueueCap
    BY DEF Inv, TypeOK
  <2>2. CASE Len(queue[i.ns]) < QueueCap
    <3>1. queue' = [queue EXCEPT ![i.ns] = Append(@, i)]
      BY <1>1, <2>2
    <3>2. Len(Append(queue[i.ns], i)) = Len(queue[i.ns]) + 1 /\ Len(queue[i.ns]) \in Nat
      BY <1>3, <1>4
    <3>3. Len(queue'[i.ns]) <= QueueCap
      BY <1>3, <2>1, <2>2, <3>1, <3>2, StoreAssumption
    <3>4. QED
      BY <1>3, <2>1, <3>1, <3>3
  <2>3. CASE ~(Len(queue[i.ns]) < QueueCap)
    BY <1>1, <2>1, <2>3
  <2>4. QED
    BY <2>2, <2>3
<1>6. Arrived' = Arrived
  BY <1>2 DEF Arrived
<1>7. Upstream' \subseteq Upstream
  BY <1>2, <1>5 DEF Upstream, Inv, TypeOK
<1>8. TypeOK'
  BY <1>2, <1>5, <1>13 DEF Inv, TypeOK, bounds
<1>9. CreatedOnce'
  BY <1>2, <1>6, <1>7 DEF Inv, CreatedOnce
<1>10. OnOneWay'
  <2>1. \A q \in Registers : \A j \in hand'[q] : j \in hand[q] /\ q # r /\ j.register = q
    BY <1>2 DEF Inv, OnOneWay, TypeOK
  <2>2. \A q \in Registers, n \in Namespaces : hand'[q] \cap Range(queue'[n]) = {}
    BY <1>3, <1>5, <2>1 DEF Inv, OnOneWay
  <2>3. \A n \in Namespaces : \A j \in Range(queue'[n]) : j.ns = n
    BY <1>5 DEF Inv, OnOneWay
  <2>4. QED
    BY <1>5, <1>6, <1>7, <2>1, <2>2, <2>3 DEF Inv, OnOneWay
<1>11. ReadOnce' /\ DrainCounted' /\ ConflictMeansGone'
  BY <1>2 DEF Inv, ReadOnce, InHand, DrainCounted, ConflictMeansGone, bounds
<1>12. QED
  BY <1>8, <1>9, <1>10, <1>11 DEF Inv

\* A result goes from a queue to the store, or is lost.
LEMMA ProcessResultInv ==
    ASSUME Inv, NEW ns \in Namespaces, ProcessResult(ns)
    PROVE  Inv'
<1> DEFINE i == Head(queue[ns])
<1>1. queue[ns] \in Seq(Item) /\ queue[ns] # <<>> /\ IsInjective(queue[ns])
  BY DEF ProcessResult, Inv, TypeOK, OnOneWay
<1>2. /\ i \in Item /\ i \in Range(queue[ns])
      /\ Tail(queue[ns]) \in Seq(Item) /\ Range(Tail(queue[ns])) \subseteq Range(queue[ns])
      /\ IsInjective(Tail(queue[ns])) /\ i \notin Range(Tail(queue[ns]))
  BY <1>1, TailOfQueue
<1>3. /\ queue' = [queue EXCEPT ![ns] = Tail(@)]
      /\ store \subseteq store' /\ store' \subseteq store \cup {i}
      /\ UNCHANGED <<made, hand, call, drain, maintenance, full, fetched, given, bounds>>
  BY DEF ProcessResult
<1>14. \A n \in Namespaces : Len(queue'[n]) <= QueueCap
  <2>1. queue \in [Namespaces -> Seq(Item)] /\ \A n \in Namespaces : Len(queue[n]) <= QueueCap
    BY DEF Inv, TypeOK
  <2>2. Len(Tail(queue[ns])) = Len(queue[ns]) - 1 /\ Len(queue[ns]) \in Nat
    BY <1>1
  <2>3. QED
    BY <1>3, <2>1, <2>2, StoreAssumption
<1> HIDE DEF i
<1>4. TypeOK'
  BY <1>2, <1>3, <1>14 DEF Inv, TypeOK, bounds
<1>5. i \in Upstream /\ i \notin Arrived
  BY <1>2 DEF Upstream, Inv, OnOneWay
<1>6. Arrived' \subseteq Arrived \cup {i}
  BY <1>3 DEF Arrived
<1>7. \A n \in Namespaces : Range(queue'[n]) \subseteq Range(queue[n]) /\ i \notin Range(queue'[n])
  <2>1. queue \in [Namespaces -> Seq(Item)]
    BY DEF Inv, TypeOK
  <2>2. queue'[ns] = Tail(queue[ns]) /\ \A n \in Namespaces \ {ns} : queue'[n] = queue[n]
    BY <1>3, <2>1
  <2>3. \A n \in Namespaces \ {ns} : i \notin Range(queue[n])
    BY <1>2 DEF Inv, OnOneWay
  <2>4. QED
    BY <1>2, <2>2, <2>3
<1>8. Upstream' \subseteq Upstream /\ i \notin Upstream'
  BY <1>2, <1>3, <1>7 DEF Upstream, Inv, OnOneWay
<1>9. CreatedOnce'
  BY <1>3, <1>5, <1>6, <1>8 DEF Inv, CreatedOnce
<1>10. OnOneWay'
  <2>1. \A n \in Namespaces : IsInjective(queue'[n])
    BY <1>2, <1>3 DEF Inv, TypeOK, OnOneWay
  <2>2. QED
    BY <1>3, <1>6, <1>7, <1>8, <2>1 DEF Inv, OnOneWay
<1>11. ReadOnce' /\ DrainCounted'
  BY <1>3, <1>5 DEF Inv, ReadOnce, InHand, DrainCounted, Arrived, bounds
<1>12. ConflictMeansGone'
  <2>1. \A c \in Calls : i \notin call[c].items
    BY <1>5 DEF Arrived
  <2>2. QED
    BY <1>3, <2>1 DEF Inv, ConflictMeansGone, bounds
<1>13. QED
  BY <1>4, <1>9, <1>10, <1>11, <1>12 DEF Inv

-----------------------------------------------------------------------------
(* Steps that only take results away *)

\* A step that moves nothing to another place and adds nothing keeps results
\* where they were.
LEMMA TakeAway ==
    ASSUME Inv, made' = made, fetched' = fetched, store' \subseteq store,
           \/ UNCHANGED <<hand, queue>>
           \/ hand' = [r \in Registers |-> {}] /\ queue' = EmptyQueues,
           \A c \in Calls : call'[c].items \subseteq call[c].items \/ call'[c].items \subseteq store,
           \A c \in Calls : \A i, j \in call'[c].items : i = j,
           InHand' \subseteq store \cup InHand,
           drain'.items \subseteq drain.items \cup store, given' \subseteq given \cup drain.items
    PROVE  CreatedOnce' /\ OnOneWay' /\ ReadOnce'
<1>1. \A n \in Namespaces : IsInjective(queue'[n]) /\ Range(queue'[n]) \subseteq Range(queue[n])
  <2>1. CASE queue' = EmptyQueues
    BY <2>1 DEF EmptyQueues, IsInjective, Range
  <2>2. CASE queue' = queue
    BY <2>2 DEF Inv, OnOneWay
  <2>3. QED
    BY <2>1, <2>2
<1>2. \A r \in Registers : hand'[r] \subseteq hand[r]
  OBVIOUS
<1>3. Upstream' \subseteq Upstream
  BY <1>1, <1>2 DEF Upstream
<1>4. Arrived' \subseteq Arrived
  BY DEF Arrived
<1>5. CreatedOnce'
  BY <1>3, <1>4 DEF Inv, CreatedOnce
<1>6. OnOneWay'
  BY <1>1, <1>2, <1>3, <1>4 DEF Inv, OnOneWay
<1>7. ReadOnce'
  BY DEF Inv, ReadOnce
<1>8. QED
  BY <1>5, <1>6, <1>7

\* The oldest of what is pending is one result.
LEMMA OldestIsOne ==
    ASSUME Inv, NEW esn
    PROVE  /\ Oldest(Pending(esn)) \subseteq store
           /\ \A i, j \in Oldest(Pending(esn)) : i = j
<1>1. Oldest(Pending(esn)) \subseteq store
  BY DEF Oldest, Pending
<1>2. \A i, j \in Oldest(Pending(esn)) : i.at <= j.at /\ j.at <= i.at
  BY DEF Oldest
<1>3. \A i \in store : i.at \in Nat /\ i \in Arrived
  BY StoreAssumption DEF Inv, TypeOK, Item, Arrived
<1>4. QED
  BY <1>1, <1>2, <1>3 DEF Inv, CreatedOnce

LEMMA ReadInv == ASSUME Inv, NEW c \in Calls, Read(c) PROVE Inv'
<1>1. PICK esn \in ESNs : call' = [call EXCEPT ![c].items = Oldest(Pending(esn))]
  BY DEF Read
<1>2. call[c] = NoCall
      /\ UNCHANGED <<made, hand, queue, store, drain, maintenance, full, fetched, given, bounds>>
  BY DEF Read
<1>3. call'[c].items = Oldest(Pending(esn)) /\ call'[c].stale = FALSE
      /\ \A d \in Calls \ {c} : call'[d] = call[d]
  <2>1. call \in [Calls -> [items : SUBSET Item, stale : BOOLEAN]]
    BY DEF Inv, TypeOK
  <2>2. call'[c] = [call[c] EXCEPT !.items = Oldest(Pending(esn))]
        /\ \A d \in Calls \ {c} : call'[d] = call[d]
    BY <1>1, <2>1
  <2>3. QED
    BY <1>2, <2>2 DEF NoCall
<1>4. TypeOK'
  <2>1. Oldest(Pending(esn)) \in SUBSET Item
    BY OldestIsOne DEF Inv, TypeOK
  <2>2. call \in [Calls -> [items : SUBSET Item, stale : BOOLEAN]]
    BY DEF Inv, TypeOK
  <2>3. call' \in [Calls -> [items : SUBSET Item, stale : BOOLEAN]]
    BY <1>1, <1>3, <2>1, <2>2
  <2>4. QED
    BY <1>2, <2>3 DEF Inv, TypeOK, bounds
<1>5. CreatedOnce' /\ OnOneWay' /\ ReadOnce'
  <2>1. \A d \in Calls : call'[d].items \subseteq call[d].items \/ call'[d].items \subseteq store
    BY <1>3, OldestIsOne
  <2>2. \A d \in Calls : \A i, j \in call'[d].items : i = j
    BY <1>3, OldestIsOne DEF Inv, ReadOnce
  <2>3. InHand' \subseteq store \cup InHand
    BY <1>3, OldestIsOne DEF InHand
  <2>4. QED
    BY <1>2, <2>1, <2>2, <2>3, TakeAway
<1>6. DrainCounted' /\ ConflictMeansGone'
  BY <1>2, <1>3, OldestIsOne DEF Inv, DrainCounted, ConflictMeansGone, bounds
<1>7. QED
  BY <1>4, <1>5, <1>6 DEF Inv

LEMMA RefuseInv == ASSUME Inv, NEW c \in Calls, Refuse(c) PROVE Inv'
<1>1. call' = [call EXCEPT ![c] = NoCall]
      /\ UNCHANGED <<made, hand, queue, store, drain, maintenance, full, fetched, given, bounds>>
  BY DEF Refuse
<1>2. call'[c] = [items |-> {}, stale |-> FALSE]
      /\ \A d \in Calls \ {c} : call'[d] = call[d]
  BY <1>1 DEF Inv, TypeOK, NoCall
<1>3. TypeOK'
  BY <1>1 DEF Inv, TypeOK, bounds, NoCall
<1>4. CreatedOnce' /\ OnOneWay' /\ ReadOnce'
  <2>1. \A d \in Calls : call'[d].items \subseteq call[d].items
                          /\ \A i, j \in call'[d].items : i = j
    BY <1>2 DEF Inv, ReadOnce
  <2>2. InHand' \subseteq InHand
    BY <1>2 DEF InHand
  <2>3. QED
    BY <1>1, <2>1, <2>2, TakeAway
<1>5. DrainCounted' /\ ConflictMeansGone'
  BY <1>1, <1>2 DEF Inv, DrainCounted, ConflictMeansGone, bounds
<1>6. QED
  BY <1>3, <1>4, <1>5 DEF Inv

\* What the maintenance deletes, requests that have read it do not answer.
LEMMA DeleteInv ==
    ASSUME Inv, NEW next, Delete(next),
           next \in [step : {"sleep", "age", "aged", "size"}, keys : SUBSET Item]
    PROVE  Inv'
<1>1. PICK done \in SUBSET maintenance.keys :
        store' = store \ done /\ call' = Outdate(done, call)
  BY DEF Delete
<1>2. maintenance' = next
      /\ UNCHANGED <<made, hand, queue, drain, full, fetched, given, bounds>>
  BY DEF Delete
<1>3. \A c \in Calls : /\ call'[c].items = call[c].items
                       /\ call'[c].stale = (call[c].stale \/ call[c].items \cap done # {})
                       /\ call'[c] \in [items : SUBSET Item, stale : BOOLEAN]
  BY <1>1 DEF Outdate, Inv, TypeOK
<1>4. TypeOK'
  <2>1. call' \in [Calls -> [items : SUBSET Item, stale : BOOLEAN]]
    BY <1>1, <1>3 DEF Outdate
  <2>2. QED
    BY <1>1, <1>2, <2>1 DEF Inv, TypeOK, bounds
<1>5. CreatedOnce' /\ OnOneWay' /\ ReadOnce'
  <2>1. \A c \in Calls : \A i, j \in call'[c].items : i = j
    BY <1>3 DEF Inv, ReadOnce
  <2>2. InHand' \subseteq InHand
    BY <1>3 DEF InHand
  <2>3. QED
    BY <1>1, <1>2, <1>3, <2>1, <2>2, TakeAway
<1>6. DrainCounted'
  BY <1>2 DEF Inv, DrainCounted, bounds
<1>7. ConflictMeansGone'
  BY <1>1, <1>2, <1>3 DEF Inv, ConflictMeansGone, ReadOnce, bounds
<1>8. QED
  BY <1>4, <1>5, <1>6, <1>7 DEF Inv

LEMMA MaintenanceInv == ASSUME Inv, Maintenance PROVE Inv'
<1>1. maintenance \in [step : {"sleep", "age", "aged", "size"}, keys : SUBSET Item]
      /\ store \subseteq Item
  BY DEF Inv, TypeOK
<1>2. ASSUME NEW next \in [step : {"sleep", "age", "aged", "size"}, keys : SUBSET Item],
             maintenance' = next,
             UNCHANGED <<made, hand, queue, store, call, drain, full, fetched, given, bounds>>
      PROVE  Inv'
  <2>1. TypeOK'
    BY <1>2 DEF Inv, TypeOK, bounds
  <2>2. CreatedOnce' /\ OnOneWay' /\ ReadOnce'
    BY <1>2 DEF Inv, CreatedOnce, Upstream, Arrived, OnOneWay, ReadOnce, InHand
  <2>3. QED
    BY <1>2, <2>1, <2>2 DEF Inv, DrainCounted, ConflictMeansGone, bounds
<1>3. CASE AgeScan
  BY <1>1, <1>2, <1>3 DEF AgeScan
<1>4. CASE AgeDelete
  BY <1>4, DeleteInv DEF AgeDelete
<1>5. CASE SizeScan
  BY <1>1, <1>2, <1>5 DEF SizeScan
<1>6. CASE SizeDelete
  BY <1>6, DeleteInv DEF SizeDelete, Asleep
<1>7. QED
  BY <1>3, <1>4, <1>5, <1>6 DEF Maintenance

\* The start of a drain and the size leave the rest alone.
LEMMA QuietInv ==
    ASSUME Inv, DrainView \/ Measure \/ UNCHANGED vars
    PROVE  Inv'
<1>1. UNCHANGED <<made, hand, queue, store, call, maintenance, fetched, given, restarts>>
  BY DEF DrainView, Measure, vars, bounds
<1>2. (drains' = drains /\ drain' = drain)
        \/ (drains' = drains + 1 /\ drain' = [open |-> TRUE, items |-> store])
  BY DEF DrainView, Measure, vars, bounds
<1>3. TypeOK'
  <2>1. CASE DrainView
    BY <1>1, <2>1, StoreAssumption DEF DrainView, Inv, TypeOK
  <2>2. CASE Measure
    BY <1>1, <2>2 DEF Measure, Inv, TypeOK, bounds
  <2>3. CASE UNCHANGED vars
    BY <2>3 DEF Inv, TypeOK, vars, bounds
  <2>4. QED
    BY <2>1, <2>2, <2>3
<1>4. drains \in Nat /\ (drains' = 0 => drains = 0)
  BY <1>2 DEF Inv, TypeOK
<1>5. CreatedOnce' /\ OnOneWay' /\ ReadOnce'
  <2>1. InHand' = InHand /\ \A c \in Calls : \A i, j \in call'[c].items : i = j
    BY <1>1 DEF InHand, Inv, ReadOnce
  <2>2. drain'.items \subseteq drain.items \cup store
    BY <1>2
  <2>3. QED
    BY <1>1, <2>1, <2>2, TakeAway
<1>6. DrainCounted' /\ ConflictMeansGone'
  BY <1>1, <1>2, <1>4 DEF Inv, DrainCounted, ConflictMeansGone
<1>7. QED
  BY <1>3, <1>5, <1>6 DEF Inv

\* The end of a drain takes away what is stored, never from a request.
LEMMA DrainEndInv == ASSUME Inv, DropPrefix \/ DropFails PROVE Inv'
<1>1. /\ drain.open /\ store' \subseteq store /\ drain' = NoDrain
      /\ given' \subseteq given \cup drain.items
      /\ UNCHANGED <<made, hand, queue, call, maintenance, full, fetched, bounds>>
  BY DEF DropPrefix, DropFails
<1>2. NoDrain \in [open : BOOLEAN, items : SUBSET Item] /\ ~NoDrain.open /\ NoDrain.items = {}
  BY DEF NoDrain
<1>3. TypeOK'
  BY <1>1, <1>2 DEF Inv, TypeOK, bounds
<1>4. CreatedOnce' /\ OnOneWay' /\ ReadOnce'
  <2>1. InHand' = InHand /\ \A c \in Calls : \A i, j \in call'[c].items : i = j
    BY <1>1 DEF InHand, Inv, ReadOnce
  <2>2. QED
    BY <1>1, <1>2, <2>1, TakeAway
<1>5. drains # 0 /\ drains' = drains
  BY <1>1 DEF Inv, DrainCounted, bounds
<1>6. QED
  BY <1>1, <1>2, <1>3, <1>4, <1>5 DEF Inv, DrainCounted, ConflictMeansGone

LEMMA RestartInv == ASSUME Inv, Restart PROVE Inv'
<1>1. /\ hand' = [r \in Registers |-> {}] /\ queue' = EmptyQueues
      /\ call' = [c \in Calls |-> NoCall] /\ drain' = NoDrain /\ maintenance' = Asleep
      /\ restarts' = restarts + 1 /\ drains + restarts < MaxIncidents
      /\ UNCHANGED <<made, store, full, fetched, given, drains>>
  BY DEF Restart
<1>2. TypeOK'
  <2>1. queue' \in [Namespaces -> Seq(Item)]
    <3> <<>> \in Seq(Item)
      OBVIOUS
    <3>1. QED
      BY <1>1 DEF EmptyQueues
  <2>2. call' \in [Calls -> [items : SUBSET Item, stale : BOOLEAN]]
    BY <1>1 DEF NoCall
  <2>3. maintenance' \in [step : {"sleep", "age", "aged", "size"}, keys : SUBSET Item]
    BY <1>1 DEF Asleep
  <2>4. drains' \in Nat /\ restarts' \in Nat /\ drains' + restarts' <= MaxIncidents
    BY <1>1, StoreAssumption DEF Inv, TypeOK
  <2>5. drain' \in [open : BOOLEAN, items : SUBSET Item]
    BY <1>1 DEF NoDrain
  <2>6. \A ns \in Namespaces : Len(queue'[ns]) <= QueueCap
    BY <1>1, StoreAssumption DEF EmptyQueues
  <2>7. QED
    BY <1>1, <2>1, <2>2, <2>3, <2>4, <2>5, <2>6 DEF Inv, TypeOK
<1>3. \A c \in Calls : call'[c].items = {}
  BY <1>1 DEF NoCall
<1>4. CreatedOnce' /\ OnOneWay' /\ ReadOnce'
  <2>1. InHand' = {}
    BY <1>3 DEF InHand
  <2>2. drain'.items = {}
    BY <1>1 DEF NoDrain
  <2>3. QED
    BY <1>1, <1>3, <2>1, <2>2, TakeAway
<1>5. DrainCounted' /\ ConflictMeansGone'
  BY <1>1, <1>3 DEF DrainCounted, ConflictMeansGone, NoDrain
<1>6. QED
  BY <1>2, <1>4, <1>5 DEF Inv

-----------------------------------------------------------------------------
(* The answer *)

\* A commit answers the one item it has read, which can still be answered; a
\* request that has read it too cannot commit any more.
LEMMA CommitEffect ==
    ASSUME Inv, NEW c \in Calls, Commit(c)
    PROVE  \E i \in InHand :
             /\ i \in Item /\ ~call[c].stale /\ call[c].items = {i}
             /\ store' = store \ {i} /\ fetched' = Append(fetched, i)
             /\ Range(fetched') = Range(fetched) \cup {i} /\ fetched' \in Seq(Item)
             /\ call'[c].items = {} /\ ~call'[c].stale
             /\ \A d \in Calls \ {c} :
                    /\ call'[d].items = call[d].items
                    /\ call'[d].stale = (call[d].stale \/ i \in call[d].items)
             /\ call' \in [Calls -> [items : SUBSET Item, stale : BOOLEAN]]
             /\ UNCHANGED <<made, hand, queue, drain, maintenance, full, given, bounds>>
<1>1. PICK i \in call[c].items : fetched' = Append(fetched, i)
  BY DEF Commit
<1>2. /\ ~call[c].stale
      /\ store' = store \ call[c].items
      /\ call' = [Outdate(call[c].items, call) EXCEPT ![c] = NoCall]
      /\ UNCHANGED <<made, hand, queue, drain, maintenance, full, given, bounds>>
  BY DEF Commit
<1>3. call[c].items = {i}
  BY <1>1 DEF Inv, ReadOnce
<1>4. call \in [Calls -> [items : SUBSET Item, stale : BOOLEAN]] /\ fetched \in Seq(Item)
  BY DEF Inv, TypeOK
<1>5. i \in Item /\ i \in InHand
  BY <1>2, <1>3, <1>4 DEF InHand
<1>6. Range(fetched') = Range(fetched) \cup {i} /\ fetched' \in Seq(Item)
  BY <1>1, <1>4, <1>5, RangeOfAppend
<1> DEFINE after == Outdate(call[c].items, call)
<1>7. \A d \in Calls : /\ after[d].items = call[d].items
                       /\ after[d].stale = (call[d].stale \/ i \in call[d].items)
                       /\ after[d] \in [items : SUBSET Item, stale : BOOLEAN]
  BY <1>3, <1>4 DEF Outdate
<1>8. after \in [Calls -> [items : SUBSET Item, stale : BOOLEAN]]
  BY <1>7 DEF Outdate
<1> HIDE DEF after
<1>9. call'[c] = NoCall /\ \A d \in Calls \ {c} : call'[d] = after[d]
  BY <1>2, <1>8 DEF after
<1>10. call' \in [Calls -> [items : SUBSET Item, stale : BOOLEAN]]
  <2>1. NoCall \in [items : SUBSET Item, stale : BOOLEAN]
    BY DEF NoCall
  <2>2. QED
    BY <1>2, <1>8, <2>1 DEF after
<1>11. call'[c].items = {} /\ ~call'[c].stale
  BY <1>9 DEF NoCall
<1>12. \A d \in Calls \ {c} :
          /\ call'[d].items = call[d].items
          /\ call'[d].stale = (call[d].stale \/ i \in call[d].items)
  BY <1>7, <1>9
<1>13. store' = store \ {i}
  BY <1>2, <1>3
<1> HIDE DEF after
<1>14. QED
  BY <1>1, <1>2, <1>3, <1>5, <1>6, <1>10, <1>11, <1>12, <1>13

LEMMA CommitInv == ASSUME Inv, NEW c \in Calls, Commit(c) PROVE Inv'
<1>1. PICK i \in InHand :
        /\ i \in Item /\ ~call[c].stale /\ call[c].items = {i}
        /\ store' = store \ {i} /\ fetched' = Append(fetched, i)
        /\ Range(fetched') = Range(fetched) \cup {i} /\ fetched' \in Seq(Item)
        /\ call'[c].items = {} /\ ~call'[c].stale
        /\ \A d \in Calls \ {c} :
               /\ call'[d].items = call[d].items
               /\ call'[d].stale = (call[d].stale \/ i \in call[d].items)
        /\ call' \in [Calls -> [items : SUBSET Item, stale : BOOLEAN]]
        /\ UNCHANGED <<made, hand, queue, drain, maintenance, full, given, bounds>>
  BY CommitEffect
<1>2. TypeOK'
  BY <1>1 DEF Inv, TypeOK, bounds
<1>3. Upstream' = Upstream
  BY <1>1 DEF Upstream
<1>4. \A d \in Calls : call'[d].items \subseteq call[d].items
  BY <1>1
<1>5. Arrived' \subseteq Arrived
  BY <1>1, <1>4 DEF Arrived
<1>6. CreatedOnce'
  BY <1>1, <1>3, <1>5 DEF Inv, CreatedOnce
<1>7. OnOneWay'
  BY <1>1, <1>3, <1>5 DEF Inv, OnOneWay
<1>8. ReadOnce'
  <2>1. InHand' \subseteq InHand /\ i \notin InHand'
    <3>1. \A d \in Calls : /\ call'[d].items \subseteq call[d].items
                           /\ ~call'[d].stale => ~call[d].stale /\ i \notin call'[d].items
      <4>1. call[c].items = {i} /\ ~call[c].stale /\ call'[c].items = {} /\ c \in Calls
        BY <1>1
      <4>2. ASSUME NEW d \in Calls \ {c}
            PROVE  call'[d].items = call[d].items
                   /\ call'[d].stale = (call[d].stale \/ i \in call[d].items)
        BY <1>1
      <4>3. QED
        BY <4>1, <4>2
    <3>2. ASSUME NEW j \in InHand' PROVE j \in InHand /\ j # i
      <4>1. PICK d \in Calls : ~call'[d].stale /\ j \in call'[d].items
        BY <3>2 DEF InHand
      <4>2. call'[d].items \subseteq call[d].items /\ ~call[d].stale /\ i \notin call'[d].items
        BY <3>1, <4>1
      <4>3. j \in call[d].items /\ j # i
        BY <4>1, <4>2
      <4>4. QED
        BY <4>2, <4>3 DEF InHand
    <3>3. QED
      BY <3>2
  <2>2. \A d \in Calls : \A j, k \in call'[d].items : j = k
    BY <1>4 DEF Inv, ReadOnce
  <2>3. QED
    BY <1>1, <2>1, <2>2 DEF Inv, ReadOnce
<1>9. ConflictMeansGone'
  <2>1. drains' = drains
    BY <1>1 DEF bounds
  <2>2. SUFFICES ASSUME NEW d \in Calls \ {c}, NEW j \in call[d].items
                 PROVE  /\ call'[d].stale => j \notin store'
                        /\ drains = 0 /\ j \notin store' => call'[d].stale
    BY <1>1, <2>1 DEF ConflictMeansGone
  <2>3. i \in call[d].items => i = j
    BY DEF Inv, ReadOnce
  <2>4. QED
    BY <1>1, <2>3 DEF Inv, ConflictMeansGone
<1>10. DrainCounted'
  BY <1>1 DEF Inv, DrainCounted, bounds
<1>11. QED
  BY <1>2, <1>6, <1>7, <1>8, <1>9, <1>10 DEF Inv

LEMMA NextInv == Inv /\ [Next]_vars => Inv'
<1> SUFFICES ASSUME Inv, [Next]_vars PROVE Inv'
  OBVIOUS
<1>1. ASSUME NEW r \in Registers, Send(r) PROVE Inv'
  BY <1>1, SendInv
<1>2. ASSUME NEW r \in Registers, NEW ns \in Namespaces, NEW esn \in ESNs, Create(r, ns, esn)
      PROVE  Inv'
  BY <1>2, CreateInv
<1>3. ASSUME NEW ns \in Namespaces, ProcessResult(ns) PROVE Inv'
  BY <1>3, ProcessResultInv
<1>4. ASSUME NEW c \in Calls, Read(c) \/ Commit(c) \/ Refuse(c) PROVE Inv'
  BY <1>4, ReadInv, CommitInv, RefuseInv
<1>5. CASE DropPrefix \/ DropFails
  BY <1>5, DrainEndInv
<1>6. CASE Maintenance
  BY <1>6, MaintenanceInv
<1>7. CASE Restart
  BY <1>7, RestartInv
<1>8. CASE DrainView \/ Measure \/ UNCHANGED vars
  BY <1>8, QuietInv
<1>9. QED
  BY <1>1, <1>2, <1>3, <1>4, <1>5, <1>6, <1>7, <1>8 DEF Next

LEMMA Invariant == Spec => []Inv
<1>1. Init => Inv
  BY InitInv
<1>2. Inv /\ [Next]_vars => Inv'
  BY NextInv
<1>3. QED
  BY <1>1, <1>2, PTL DEF Spec

-----------------------------------------------------------------------------
(* What the runs check *)

\* Every variable of the store has its type, whatever overlaps.
THEOREM TypeCorrect == Spec => []TypeOK
<1>1. Inv => TypeOK
  BY DEF Inv
<1>2. QED
  BY <1>1, Invariant, PTL

\* ErrConflict loses nothing: what the request had read was answered to another
\* request or deleted, and a request without a conflict has its item in the store.
THEOREM ConflictLosesNothing == Spec => []ConflictMeansGone
<1>1. Inv => ConflictMeansGone
  BY DEF Inv
<1>2. QED
  BY <1>1, Invariant, PTL

-----------------------------------------------------------------------------
(* The mailbox *)

LEMMA Still ==
    ASSUME UNCHANGED <<made, fetched, given, drain, Upstream \cup store, InHand>>
    PROVE  UNCHANGED Mail!mailVars
  BY DEF Mail!mailVars, Created

\* What has been read has arrived, and what has arrived is not on its way.
LEMMA NotUpstream ==
    ASSUME Inv
    PROVE  Upstream \cap (store \cup InHand \cup drain.items) = {}
<1>1. InHand \subseteq Arrived
  BY DEF InHand, Arrived
<1>2. QED
  BY <1>1 DEF Inv, OnOneWay, Arrived

\* What is lost or deleted is no request's to answer.
LEMMA DiscardStep ==
    ASSUME UNCHANGED <<made, fetched, given, drain>>,
           (Upstream \cup store)' \subseteq Upstream \cup store, InHand' \subseteq InHand,
           \A i \in InHand \ InHand' : i \notin (Upstream \cup store)',
           \A i \in InHand' : i \in Upstream \cup store => i \in (Upstream \cup store)'
    PROVE  [Mail!Next]_(Mail!mailVars)
<1> DEFINE gone == ((Upstream \cup store) \ (Upstream \cup store)') \cup (InHand \ InHand')
<1>1. gone \in SUBSET ((Upstream \cup store) \cup InHand)
  OBVIOUS
<1>2. (Upstream \cup store)' = (Upstream \cup store) \ gone /\ InHand' = InHand \ gone
  OBVIOUS
<1>3. Mail!Discard(gone)
  BY <1>2 DEF Mail!Discard, Created
<1>4. QED
  BY <1>1, <1>3 DEF Mail!Next

LEMMA CreateMail ==
    ASSUME Inv, NEW r \in Registers, NEW ns \in Namespaces, NEW esn \in ESNs, Create(r, ns, esn)
    PROVE  [Mail!Next]_(Mail!mailVars)
<1> DEFINE new == [at |-> made + 1, ns |-> ns, esn |-> esn, register |-> r]
<1>1. made' = made + 1 /\ made \in Nat /\ made < MaxResults /\ MaxResults \in Nat
  BY StoreAssumption DEF Create, Inv, TypeOK
<1>2. new \in Item /\ new.at = made + 1
  BY <1>1 DEF Item
<1>3. /\ hand' = [hand EXCEPT ![r] = {new}] /\ hand[r] = {} /\ hand \in [Registers -> SUBSET Item]
      /\ UNCHANGED <<queue, store, call, fetched, given, drain>>
  BY <1>1 DEF Create, Inv, TypeOK
<1> HIDE DEF new
<1>4. Upstream' = Upstream \cup {new}
  <2>1. hand'[r] = {new} /\ \A q \in Registers \ {r} : hand'[q] = hand[q]
    BY <1>3
  <2>2. \A i \in Upstream' : i \in Upstream \cup {new}
    BY <1>3, <2>1 DEF Upstream
  <2>3. new \in Upstream'
    BY <2>1 DEF Upstream
  <2>4. \A i \in Upstream : i \in Upstream'
    BY <1>3, <2>1 DEF Upstream
  <2>5. QED
    BY <2>2, <2>3, <2>4
<1>5. new \notin Created /\ Created \cup {new} \subseteq Created'
  <2>1. \A i \in Item : i.at \in Nat
    BY <1>1 DEF Item
  <2>2. QED
    BY <1>1, <1>2, <2>1 DEF Created
<1>6. InHand' = InHand
  BY <1>3 DEF InHand
<1>7. Mail!Put(new)
  BY <1>3, <1>4, <1>5, <1>6 DEF Mail!Put
<1>8. QED
  BY <1>2, <1>7 DEF Mail!Next

LEMMA SendMail ==
    ASSUME Inv, NEW r \in Registers, Send(r)
    PROVE  [Mail!Next]_(Mail!mailVars)
<1>1. PICK i \in hand[r] :
        queue' = IF Len(queue[i.ns]) < QueueCap THEN [queue EXCEPT ![i.ns] = Append(@, i)]
                 ELSE queue
  BY DEF Send
<1>2. /\ hand' = [hand EXCEPT ![r] = {}]
      /\ hand \in [Registers -> SUBSET Item] /\ queue \in [Namespaces -> Seq(Item)]
      /\ UNCHANGED <<made, store, call, fetched, given, drain>>
  BY DEF Send, Inv, TypeOK
<1>3. i \in Item /\ i.ns \in Namespaces /\ i \in Upstream
  BY <1>1, <1>2 DEF Item, Upstream
<1>4. Range(Append(queue[i.ns], i)) = Range(queue[i.ns]) \cup {i}
  BY <1>2, <1>3, RangeOfAppend
<1>5. \A n \in Namespaces : queue'[n] = queue[n] \/ (n = i.ns /\ queue'[n] = Append(queue[n], i))
  <2>1. CASE queue' = queue
    BY <2>1
  <2>2. CASE queue' = [queue EXCEPT ![i.ns] = Append(@, i)]
    BY <1>2, <1>3, <2>2
  <2>3. QED
    BY <1>1, <2>1, <2>2
<1>6. Upstream' \subseteq Upstream
  <2>1. \A n \in Namespaces : Range(queue'[n]) \subseteq Range(queue[n]) \cup {i}
    BY <1>4, <1>5
  <2>2. \A q \in Registers : hand'[q] \subseteq hand[q]
    BY <1>2
  <2>3. QED
    BY <1>3, <2>1, <2>2 DEF Upstream
<1>7. InHand' = InHand
  BY <1>2 DEF InHand
<1>8. QED
  BY <1>2, <1>6, <1>7, NotUpstream, DiscardStep

LEMMA ProcessResultMail ==
    ASSUME Inv, NEW ns \in Namespaces, ProcessResult(ns)
    PROVE  [Mail!Next]_(Mail!mailVars)
<1> DEFINE i == Head(queue[ns])
<1>1. queue[ns] \in Seq(Item) /\ queue[ns] # <<>> /\ queue \in [Namespaces -> Seq(Item)]
  BY DEF ProcessResult, Inv, TypeOK
<1>2. i \in Range(queue[ns]) /\ Range(Tail(queue[ns])) \subseteq Range(queue[ns])
  BY <1>1, TailOfQueue
<1>3. /\ queue' = [queue EXCEPT ![ns] = Tail(@)]
      /\ store \subseteq store' /\ store' \subseteq store \cup {i}
      /\ UNCHANGED <<made, hand, call, fetched, given, drain>>
  BY DEF ProcessResult
<1> HIDE DEF i
<1>4. i \in Upstream
  BY <1>2 DEF Upstream
<1>5. Upstream' \subseteq Upstream
  <2>1. \A n \in Namespaces : Range(queue'[n]) \subseteq Range(queue[n])
    BY <1>1, <1>2, <1>3
  <2>2. QED
    BY <1>3, <2>1 DEF Upstream
<1>6. InHand' = InHand
  BY <1>3 DEF InHand
<1>7. QED
  BY <1>3, <1>4, <1>5, <1>6, NotUpstream, DiscardStep

LEMMA ReadMail ==
    ASSUME Inv, NEW c \in Calls, Read(c)
    PROVE  [Mail!Next]_(Mail!mailVars)
<1>1. PICK esn \in ESNs : call' = [call EXCEPT ![c].items = Oldest(Pending(esn))]
  BY DEF Read
<1>2. call[c] = NoCall /\ UNCHANGED <<made, hand, queue, store, fetched, given, drain>>
      /\ call \in [Calls -> [items : SUBSET Item, stale : BOOLEAN]]
  BY DEF Read, Inv, TypeOK
<1> DEFINE items == Oldest(Pending(esn))
<1>3. /\ items \subseteq store /\ \A i, j \in items : i = j
      /\ call'[c].items = items /\ call'[c].stale = FALSE
      /\ \A d \in Calls \ {c} : call'[d] = call[d]
  <2>1. call'[c] = [call[c] EXCEPT !.items = items] /\ \A d \in Calls \ {c} : call'[d] = call[d]
    BY <1>1, <1>2
  <2>2. QED
    BY <1>2, <2>1, OldestIsOne DEF NoCall
<1> HIDE DEF items
<1>4. call[c].items = {}
  BY <1>2 DEF NoCall
<1>5. InHand' = InHand \cup items
  <2>1. ASSUME NEW i \in InHand' PROVE i \in InHand \cup items
    <3>1. PICK d \in Calls : ~call'[d].stale /\ i \in call'[d].items
      BY <2>1 DEF InHand
    <3>2. QED
      BY <1>3, <3>1 DEF InHand
  <2>2. ASSUME NEW i \in InHand PROVE i \in InHand'
    <3>1. PICK d \in Calls : ~call[d].stale /\ i \in call[d].items
      BY <2>2 DEF InHand
    <3>2. d # c /\ call'[d] = call[d]
      BY <1>3, <1>4, <3>1
    <3>3. QED
      BY <3>1, <3>2 DEF InHand
  <2>3. items \subseteq InHand'
    BY <1>3 DEF InHand
  <2>4. QED
    BY <2>1, <2>2, <2>3
<1>6. (Upstream \cup store)' = Upstream \cup store
  BY <1>2 DEF Upstream
<1>7. CASE items = {}
  BY <1>2, <1>5, <1>6, <1>7, Still
<1>8. CASE items # {}
  <2>1. PICK i \in store : items = {i}
    BY <1>3, <1>8
  <2>2. Mail!Hold(i)
    BY <1>2, <1>5, <1>6, <2>1 DEF Mail!Hold, Created
  <2>3. QED
    BY <2>1, <2>2 DEF Mail!Next
<1>9. QED
  BY <1>7, <1>8

LEMMA RefuseMail ==
    ASSUME Inv, NEW c \in Calls, Refuse(c)
    PROVE  [Mail!Next]_(Mail!mailVars)
<1>1. call' = [call EXCEPT ![c] = NoCall] /\ UNCHANGED <<made, hand, queue, store, fetched, given, drain>>
      /\ call \in [Calls -> [items : SUBSET Item, stale : BOOLEAN]]
  BY DEF Refuse, Inv, TypeOK
<1>2. call'[c].items = {} /\ \A d \in Calls \ {c} : call'[d] = call[d]
  BY <1>1 DEF NoCall
<1>3. InHand' \subseteq InHand
  BY <1>2 DEF InHand
<1> DEFINE gone == InHand \ InHand'
<1>4. InHand' = InHand \ gone /\ gone \in SUBSET InHand
  BY <1>3
<1>5. (Upstream \cup store)' = Upstream \cup store
  BY <1>1 DEF Upstream
<1> HIDE DEF gone
<1>6. Mail!Release(gone)
  BY <1>1, <1>4, <1>5 DEF Mail!Release, Created
<1>7. QED
  BY <1>4, <1>6 DEF Mail!Next

LEMMA CommitMail ==
    ASSUME Inv, NEW c \in Calls, Commit(c)
    PROVE  [Mail!Next]_(Mail!mailVars)
<1>1. PICK i \in InHand :
        /\ i \in Item /\ ~call[c].stale /\ call[c].items = {i}
        /\ store' = store \ {i} /\ fetched' = Append(fetched, i)
        /\ Range(fetched') = Range(fetched) \cup {i} /\ fetched' \in Seq(Item)
        /\ call'[c].items = {} /\ ~call'[c].stale
        /\ \A d \in Calls \ {c} :
               /\ call'[d].items = call[d].items
               /\ call'[d].stale = (call[d].stale \/ i \in call[d].items)
        /\ call' \in [Calls -> [items : SUBSET Item, stale : BOOLEAN]]
        /\ UNCHANGED <<made, hand, queue, drain, maintenance, full, given, bounds>>
  BY CommitEffect
<1>2. InHand' = InHand \ {i}
  <2>1. ASSUME NEW j \in InHand' PROVE j \in InHand /\ j # i
    <3>1. PICK d \in Calls : ~call'[d].stale /\ j \in call'[d].items
      BY <2>1 DEF InHand
    <3>2. d # c
      BY <1>1, <3>1
    <3>3. j \in call[d].items /\ ~call[d].stale /\ i \notin call[d].items
      BY <1>1, <3>1, <3>2
    <3>4. QED
      BY <3>3 DEF InHand
  <2>2. ASSUME NEW j \in InHand, j # i PROVE j \in InHand'
    <3>1. PICK d \in Calls : ~call[d].stale /\ j \in call[d].items
      BY <2>2 DEF InHand
    <3>2. d # c /\ i \notin call[d].items
      BY <1>1, <2>2, <3>1 DEF Inv, ReadOnce
    <3>3. QED
      BY <1>1, <3>1, <3>2 DEF InHand
  <2>3. QED
    BY <2>1, <2>2
<1>3. (Upstream \cup store)' = (Upstream \cup store) \ {i}
  <2>1. Upstream' = Upstream
    BY <1>1 DEF Upstream
  <2>2. QED
    BY <1>1, <2>1, NotUpstream
<1>4. Created' = Created
  BY <1>1 DEF Created
<1>5. Mail!Fetch(i)
  BY <1>1, <1>2, <1>3, <1>4 DEF Mail!Fetch
<1>6. QED
  BY <1>5 DEF Mail!Next

\* The requests that read what is deleted are stale, and no others.
LEMMA DeleteMail ==
    ASSUME Inv, NEW next, Delete(next)
    PROVE  [Mail!Next]_(Mail!mailVars)
<1>1. PICK done : store' = store \ done /\ call' = Outdate(done, call)
  BY DEF Delete
<1>2. /\ UNCHANGED <<made, hand, queue, fetched, given, drain>>
      /\ call \in [Calls -> [items : SUBSET Item, stale : BOOLEAN]]
  BY DEF Delete, Inv, TypeOK
<1>3. \A d \in Calls : /\ call'[d].items = call[d].items
                       /\ call'[d].stale = (call[d].stale \/ call[d].items \cap done # {})
  BY <1>1, <1>2 DEF Outdate
<1>4. InHand' = InHand \ done
  <2>1. ASSUME NEW i \in InHand' PROVE i \in InHand \ done
    <3>1. PICK d \in Calls : ~call'[d].stale /\ i \in call'[d].items
      BY <2>1 DEF InHand
    <3>2. QED
      BY <1>3, <3>1 DEF InHand
  <2>2. ASSUME NEW i \in InHand, i \notin done PROVE i \in InHand'
    <3>1. PICK d \in Calls : ~call[d].stale /\ i \in call[d].items
      BY <2>2 DEF InHand
    <3>2. call[d].items \cap done = {}
      BY <2>2, <3>1 DEF Inv, ReadOnce
    <3>3. QED
      BY <1>3, <3>1, <3>2 DEF InHand
  <2>3. QED
    BY <2>1, <2>2
<1>5. Upstream' = Upstream
  BY <1>2 DEF Upstream
<1>6. QED
  BY <1>1, <1>2, <1>4, <1>5, NotUpstream, DiscardStep

LEMMA DrainMail ==
    ASSUME Inv, DrainView \/ DropPrefix \/ DropFails
    PROVE  [Mail!Next]_(Mail!mailVars)
<1>1. UNCHANGED <<made, hand, queue, call, fetched>>
  BY DEF DrainView, DropPrefix, DropFails, bounds
<1>2. InHand' = InHand /\ Upstream' = Upstream /\ Created' = Created
  BY <1>1 DEF InHand, Upstream, Created
<1>3. CASE DrainView
  <2>1. drain'.items = store /\ UNCHANGED <<store, given>>
    BY <1>3 DEF DrainView
  <2>2. Mail!List(store)
    BY <1>1, <1>2, <2>1 DEF Mail!List
  <2>3. QED
    BY <2>2 DEF Mail!Next
<1>4. CASE DropPrefix
  <2>1. drain'.items = {} /\ store' = {} /\ given' = given \cup drain.items
    BY <1>4 DEF DropPrefix, NoDrain
  <2>2. drain.items \cap (Upstream \cup store) \subseteq store
        /\ (Upstream \cup store)' = (Upstream \cup store) \ store
    BY <1>2, <2>1, NotUpstream
  <2>3. Mail!Clear(store)
    BY <1>1, <1>2, <2>1, <2>2 DEF Mail!Clear
  <2>4. QED
    BY <2>3 DEF Mail!Next
<1>5. CASE DropFails
  <2> DEFINE gone == store \ store'
  <2>1. drain'.items = {} /\ store' \subseteq store /\ given' = given
    BY <1>5 DEF DropFails, NoDrain
  <2>2. (Upstream \cup store)' = (Upstream \cup store) \ gone
    BY <1>2, <2>1, NotUpstream
  <2>3. Mail!BreakOff(gone, {})
    BY <1>1, <1>2, <2>1, <2>2 DEF Mail!BreakOff
  <2>4. gone \in SUBSET (Upstream \cup store)
    OBVIOUS
  <2>5. QED
    BY <2>3, <2>4 DEF Mail!Next
<1>6. QED
  BY <1>3, <1>4, <1>5

LEMMA RestartMail ==
    ASSUME Inv, Restart
    PROVE  [Mail!Next]_(Mail!mailVars)
<1>1. /\ hand' = [r \in Registers |-> {}] /\ queue' = EmptyQueues
      /\ call' = [c \in Calls |-> NoCall] /\ drain' = NoDrain
      /\ UNCHANGED <<made, store, fetched, given>>
  BY DEF Restart
<1>2. Upstream' = {}
  BY <1>1 DEF Upstream, EmptyQueues, Range
<1>3. InHand' = {} /\ drain'.items = {}
  BY <1>1 DEF InHand, NoCall, NoDrain
<1>4. (Upstream \cup store)' = (Upstream \cup store) \ Upstream
  BY <1>1, <1>2, NotUpstream
<1>5. Mail!BreakOff(Upstream, InHand)
  BY <1>1, <1>3, <1>4 DEF Mail!BreakOff, Created
<1>6. QED
  BY <1>5 DEF Mail!Next

LEMMA MailStep == Inv /\ [Next]_vars => [Mail!Next]_(Mail!mailVars)
<1> SUFFICES ASSUME Inv, [Next]_vars PROVE [Mail!Next]_(Mail!mailVars)
  OBVIOUS
<1>1. ASSUME NEW r \in Registers,
             Send(r) \/ \E ns \in Namespaces, esn \in ESNs : Create(r, ns, esn)
      PROVE  [Mail!Next]_(Mail!mailVars)
  BY <1>1, SendMail, CreateMail
<1>2. ASSUME NEW ns \in Namespaces, ProcessResult(ns) PROVE [Mail!Next]_(Mail!mailVars)
  BY <1>2, ProcessResultMail
<1>3. ASSUME NEW c \in Calls, Read(c) \/ Commit(c) \/ Refuse(c)
      PROVE  [Mail!Next]_(Mail!mailVars)
  BY <1>3, ReadMail, CommitMail, RefuseMail
<1>4. CASE DrainView \/ DropPrefix \/ DropFails
  BY <1>4, DrainMail
<1>5. CASE AgeDelete \/ SizeDelete
  BY <1>5, DeleteMail DEF AgeDelete, SizeDelete
<1>6. CASE Restart
  BY <1>6, RestartMail
<1>7. CASE AgeScan \/ SizeScan \/ Measure \/ UNCHANGED vars
  <2>1. UNCHANGED <<made, hand, queue, store, call, fetched, given, drain>>
    BY <1>7 DEF AgeScan, SizeScan, Measure, vars
  <2>2. UNCHANGED <<Upstream \cup store, InHand>>
    BY <2>1 DEF Upstream, InHand
  <2>3. QED
    BY <2>1, <2>2, Still
<1>8. QED
  BY <1>1, <1>2, <1>3, <1>4, <1>5, <1>6, <1>7 DEF Next, Maintenance

\* The store implements the mailbox for any number of requests, cameras and
\* results: from its creation on, a result is answered to the bridge once at most,
\* through conflicts, failed commits, drains, cleanups and restarts; what a drain
\* has answered is out of the store, and only a request that had read it before
\* the drop still answers it.
THEOREM StoreImplementsMailbox == Spec => KeepsMailbox
<1>1. Init => Mail!Init
  <2> SUFFICES ASSUME Init PROVE Mail!Init
    OBVIOUS
  <2>1. Upstream = {} /\ InHand = {} /\ drain.items = {}
    BY DEF Init, Upstream, EmptyQueues, Range, InHand, NoCall, NoDrain
  <2>2. Created = {}
    <3>1. \A i \in Item : i.at \in 1 .. MaxResults /\ MaxResults \in Nat
      BY StoreAssumption DEF Item
    <3>2. QED
      BY <3>1 DEF Created, Init
  <2>3. QED
    BY <2>1, <2>2 DEF Init, Mail!Init
<1>2. Inv /\ [Next]_vars => [Mail!Next]_(Mail!mailVars)
  BY MailStep
<1>3. QED
  BY <1>1, <1>2, Invariant, PTL DEF Spec, KeepsMailbox, Mail!Spec

-----------------------------------------------------------------------------
(* Order *)

\* The results of one register, for one camera and of one queue.
Alike(i, j) == i.register = j.register /\ i.esn = j.esn /\ i.ns = j.ns

Ahead(S, T) == \A i \in S, j \in T : Alike(i, j) => i.at < j.at

InTurn(s) == \A k, l \in DOMAIN s : k < l /\ Alike(s[k], s[l]) => s[k].at < s[l].at

\* Older results are further along the way, and a request that can still commit
\* has read the oldest of those like it.
Ordered ==
    /\ InTurn(fetched)
    /\ \A ns \in Namespaces : InTurn(queue[ns])
    /\ Ahead(Range(fetched), store \cup Upstream)
    /\ Ahead(store, Upstream)
    /\ \A ns \in Namespaces, r \in Registers : Ahead(Range(queue[ns]), hand[r])
    /\ \A c \in Calls : ~call[c].stale =>
           \A i \in call[c].items, j \in store : Alike(i, j) => i.at <= j.at

OrderedUntilDrained == drains = 0 => Ordered

LEMMA InTurnAppend ==
    ASSUME NEW S, NEW s \in Seq(S), NEW e \in S, InTurn(s), Ahead(Range(s), {e})
    PROVE  InTurn(Append(s, e))
<1>1. \A k \in 1 .. Len(s) : Append(s, e)[k] = s[k] /\ s[k] \in Range(s)
  BY DEF Range
<1>2. Append(s, e)[Len(s) + 1] = e /\ Len(s) \in Nat
  OBVIOUS
<1>3. DOMAIN Append(s, e) = 1 .. Len(s) + 1 /\ DOMAIN s = 1 .. Len(s)
  OBVIOUS
<1>4. QED
  BY <1>1, <1>2, <1>3 DEF InTurn, Ahead

LEMMA InTurnTail ==
    ASSUME NEW S, NEW s \in Seq(S), s # <<>>, InTurn(s)
    PROVE  InTurn(Tail(s)) /\ Ahead({Head(s)}, Range(Tail(s)))
<1>1. Len(s) \in Nat /\ Len(s) # 0 /\ DOMAIN s = 1 .. Len(s) /\ Head(s) = s[1]
  OBVIOUS
<1>2. DOMAIN Tail(s) = 1 .. Len(s) - 1
  BY <1>1
<1>3. \A k \in DOMAIN Tail(s) : Tail(s)[k] = s[k + 1] /\ k + 1 \in DOMAIN s
  BY <1>1, <1>2
<1>4. InTurn(Tail(s))
  BY <1>1, <1>2, <1>3 DEF InTurn
<1>5. Ahead({Head(s)}, Range(Tail(s)))
  BY <1>1, <1>2, <1>3 DEF InTurn, Ahead, Range
<1>6. QED
  BY <1>4, <1>5

\* A step that only takes results away keeps those that are left in order.
LEMMA TakeAwayOrder ==
    ASSUME Ordered, fetched' = fetched, store' \subseteq store,
           \/ UNCHANGED <<hand, queue>>
           \/ hand' = [r \in Registers |-> {}] /\ queue' = EmptyQueues,
           \A c \in Calls : ~call'[c].stale =>
               \A i \in call'[c].items, j \in store' : Alike(i, j) => i.at <= j.at
    PROVE  Ordered'
<1>1. \A ns \in Namespaces : InTurn(queue[ns])' /\ Range(queue'[ns]) \subseteq Range(queue[ns])
  <2>1. CASE queue' = EmptyQueues
    BY <2>1 DEF EmptyQueues, InTurn, Range
  <2>2. CASE queue' = queue
    BY <2>2 DEF Ordered, InTurn
  <2>3. QED
    BY <2>1, <2>2
<1>2. \A r \in Registers : hand'[r] \subseteq hand[r]
  OBVIOUS
<1>3. Upstream' \subseteq Upstream
  BY <1>1, <1>2 DEF Upstream
<1>4. \A c \in Calls : ~call'[c].stale =>
           \A i \in call'[c].items, j \in store' : Alike(i, j)' => i.at <= j.at
  BY DEF Alike
<1>5. QED
  BY <1>1, <1>2, <1>3, <1>4 DEF Ordered, Ahead, InTurn, Alike

LEMMA CreateOrder ==
    ASSUME Inv, Ordered, NEW r \in Registers, NEW ns \in Namespaces, NEW esn \in ESNs,
           Create(r, ns, esn)
    PROVE  Ordered'
<1> DEFINE new == [at |-> made + 1, ns |-> ns, esn |-> esn, register |-> r]
<1>1. made' = made + 1 /\ made \in Nat /\ new.at = made + 1
  BY StoreAssumption DEF Create, Inv, TypeOK
<1>2. hand' = [hand EXCEPT ![r] = {new}]
      /\ UNCHANGED <<queue, store, call, fetched>>
  BY <1>1 DEF Create
<1> HIDE DEF new
<1>3. \A i \in Upstream \cup Arrived : i.at < new.at
  <2>1. \A i \in Upstream \cup Arrived : i \in Item
    BY DEF Inv, TypeOK, Upstream, Arrived, Range
  <2>2. QED
    BY <1>1, <2>1 DEF Inv, CreatedOnce, Item
<1>4. hand \in [Registers -> SUBSET Item]
  BY DEF Inv, TypeOK
<1>5. Upstream' \subseteq Upstream \cup {new}
  BY <1>2, <1>4 DEF Upstream
<1>6. Ahead(Range(fetched), store \cup Upstream)' /\ Ahead(store, Upstream)'
  BY <1>2, <1>3, <1>5 DEF Ordered, Ahead, Arrived, Alike
<1>7. \A n \in Namespaces, q \in Registers : Ahead(Range(queue[n]), hand[q])'
  BY <1>2, <1>3, <1>4 DEF Ordered, Ahead, Upstream, Alike
<1>8. QED
  BY <1>2, <1>6, <1>7 DEF Ordered, InTurn, Alike

LEMMA SendOrder == ASSUME Inv, Ordered, NEW r \in Registers, Send(r) PROVE Ordered'
<1>1. PICK i \in hand[r] :
        queue' = IF Len(queue[i.ns]) < QueueCap THEN [queue EXCEPT ![i.ns] = Append(@, i)]
                 ELSE queue
  BY DEF Send
<1>2. hand' = [hand EXCEPT ![r] = {}] /\ UNCHANGED <<store, call, fetched>>
      /\ hand \in [Registers -> SUBSET Item] /\ queue \in [Namespaces -> Seq(Item)]
  BY DEF Send, Inv, TypeOK
<1>3. i \in Item /\ i.ns \in Namespaces /\ i.register = r
  BY DEF Inv, TypeOK, OnOneWay, Item
<1>4. /\ Range(Append(queue[i.ns], i)) = Range(queue[i.ns]) \cup {i}
      /\ InTurn(Append(queue[i.ns], i))
  <2>1. Ahead(Range(queue[i.ns]), {i})
    BY <1>3 DEF Ordered, Ahead
  <2>2. queue[i.ns] \in Seq(Item) /\ InTurn(queue[i.ns])
    BY <1>2, <1>3 DEF Ordered
  <2>3. QED
    BY <1>3, <2>1, <2>2, RangeOfAppend, InTurnAppend
<1>5. \A n \in Namespaces :
        queue'[n] = queue[n] \/ (n = i.ns /\ queue'[n] = Append(queue[n], i))
  <2>1. CASE queue' = queue
    BY <2>1
  <2>2. CASE queue' = [queue EXCEPT ![i.ns] = Append(@, i)]
    BY <1>2, <1>3, <2>2
  <2>3. QED
    BY <1>1, <2>1, <2>2
<1>6. \A n \in Namespaces : Range(queue'[n]) \subseteq Range(queue[n]) \cup {i} /\ InTurn(queue'[n])
  BY <1>4, <1>5 DEF Ordered
<1>7. \A q \in Registers : \A j \in hand'[q] : j \in hand[q] /\ q # r
  BY <1>2
<1>8. Upstream' \subseteq Upstream
  BY <1>6, <1>7 DEF Upstream
\* What another register holds is not like it.
<1>9. \A n \in Namespaces, q \in Registers : Ahead(Range(queue'[n]), hand'[q])
  <2>1. \A q \in Registers : \A j \in hand'[q] : ~Alike(i, j)
    BY <1>3, <1>7 DEF Alike, Inv, OnOneWay
  <2>2. QED
    BY <1>6, <1>7, <2>1 DEF Ordered, Ahead
<1>10. QED
  BY <1>2, <1>6, <1>8, <1>9 DEF Ordered, Ahead, InTurn, Alike

LEMMA ProcessResultOrder ==
    ASSUME Inv, Ordered, drains = 0, NEW ns \in Namespaces, ProcessResult(ns)
    PROVE  Ordered'
<1> DEFINE i == Head(queue[ns])
<1>1. queue[ns] \in Seq(Item) /\ queue[ns] # <<>> /\ InTurn(queue[ns])
  BY DEF ProcessResult, Inv, TypeOK, Ordered
<1>2. /\ i \in Range(queue[ns]) /\ i.ns = ns
      /\ Range(Tail(queue[ns])) \subseteq Range(queue[ns])
      /\ i \notin Range(Tail(queue[ns]))
  BY <1>1, TailOfQueue DEF Inv, OnOneWay
<1>3. InTurn(Tail(queue[ns])) /\ Ahead({i}, Range(Tail(queue[ns])))
  BY <1>1, InTurnTail
<1>4. /\ queue' = [queue EXCEPT ![ns] = Tail(@)]
      /\ store' \subseteq store \cup {i}
      /\ UNCHANGED <<hand, call, fetched>>
      /\ queue \in [Namespaces -> Seq(Item)]
  BY DEF ProcessResult, Inv, TypeOK
<1> HIDE DEF i
<1>5. i \in Upstream
  BY <1>2 DEF Upstream
<1>6. \A n \in Namespaces : InTurn(queue'[n]) /\ Range(queue'[n]) \subseteq Range(queue[n])
  BY <1>2, <1>3, <1>4 DEF Ordered
<1>7. Upstream' \subseteq Upstream
  BY <1>4, <1>6 DEF Upstream
\* The head of a queue is older than all like it on the way.
<1>8. \A j \in Upstream' : Alike(i, j) => i.at < j.at
  <2>1. ASSUME NEW r \in Registers, NEW j \in hand'[r], Alike(i, j) PROVE i.at < j.at
    BY <1>2, <1>4, <2>1 DEF Ordered, Ahead
  <2>2. ASSUME NEW n \in Namespaces, NEW j \in Range(queue'[n]), Alike(i, j) PROVE i.at < j.at
    <3>1. j.ns = n /\ n = ns
      BY <1>2, <1>6, <2>2 DEF Inv, OnOneWay, Alike
    <3>2. j \in Range(Tail(queue[ns]))
      BY <1>4, <2>2, <3>1
    <3>3. QED
      BY <1>3, <2>2, <3>2 DEF Ahead
  <2>3. QED
    BY <2>1, <2>2 DEF Upstream
<1>9. Ahead(Range(fetched'), store' \cup Upstream') /\ Ahead(store', Upstream')
  BY <1>4, <1>5, <1>7, <1>8 DEF Ordered, Ahead
<1>10. \A c \in Calls : ~call'[c].stale =>
           \A k \in call'[c].items, j \in store' : Alike(k, j) => k.at <= j.at
  <2>1. SUFFICES ASSUME NEW c \in Calls, ~call[c].stale, NEW k \in call[c].items, Alike(k, i)
                 PROVE  k.at <= i.at
    BY <1>4 DEF Ordered
  <2>2. k \in store
    BY <2>1 DEF Inv, ConflictMeansGone
  <2>3. k.at < i.at
    BY <1>5, <2>1, <2>2 DEF Ordered, Ahead
  <2>4. k.at \in Int /\ i.at \in Int
    <3>1. k \in Item /\ i \in Item
      BY <1>1, <1>2, <2>2 DEF Inv, TypeOK, Range
    <3>2. QED
      BY <3>1 DEF Item
  <2>5. QED
    BY <2>3, <2>4
<1>11. \A n \in Namespaces, q \in Registers : Ahead(Range(queue'[n]), hand'[q])
  BY <1>4, <1>6 DEF Ordered, Ahead
<1>12. InTurn(fetched') /\ \A n \in Namespaces : InTurn(queue'[n])
  BY <1>4, <1>6 DEF Ordered
<1>13. QED
  BY <1>9, <1>10, <1>11, <1>12 DEF Ordered, Alike

LEMMA ReadOrder == ASSUME Inv, Ordered, NEW c \in Calls, Read(c) PROVE Ordered'
<1>1. PICK esn \in ESNs : call' = [call EXCEPT ![c].items = Oldest(Pending(esn))]
  BY DEF Read
<1>2. UNCHANGED <<hand, queue, store, fetched>>
      /\ call \in [Calls -> [items : SUBSET Item, stale : BOOLEAN]]
  BY DEF Read, Inv, TypeOK
<1>3. call'[c].items = Oldest(Pending(esn)) /\ \A d \in Calls \ {c} : call'[d] = call[d]
  BY <1>1, <1>2
<1>4. \A i \in Oldest(Pending(esn)), j \in store : Alike(i, j) => i.at <= j.at
  BY DEF Oldest, Pending, Alike
<1>5. QED
  BY <1>2, <1>3, <1>4, TakeAwayOrder DEF Ordered

\* What is answered is the oldest like it.
LEMMA CommitOrder == ASSUME Inv, Ordered, drains = 0, NEW c \in Calls, Commit(c) PROVE Ordered'
<1>1. PICK i \in InHand :
        /\ i \in Item /\ ~call[c].stale /\ call[c].items = {i}
        /\ store' = store \ {i} /\ fetched' = Append(fetched, i)
        /\ Range(fetched') = Range(fetched) \cup {i} /\ fetched' \in Seq(Item)
        /\ call'[c].items = {} /\ ~call'[c].stale
        /\ \A d \in Calls \ {c} :
               /\ call'[d].items = call[d].items
               /\ call'[d].stale = (call[d].stale \/ i \in call[d].items)
        /\ call' \in [Calls -> [items : SUBSET Item, stale : BOOLEAN]]
        /\ UNCHANGED <<made, hand, queue, drain, maintenance, full, given, bounds>>
  BY CommitEffect
<1>2. i \in store
  BY <1>1 DEF Inv, ConflictMeansGone
<1>3. \A j \in store \ {i} : Alike(i, j) => i.at < j.at
  <2>1. SUFFICES ASSUME NEW j \in store, j # i, Alike(i, j) PROVE i.at < j.at
    OBVIOUS
  <2>2. i.at <= j.at
    BY <1>1, <2>1 DEF Ordered
  <2>3. i.at # j.at
    BY <1>2, <2>1 DEF Inv, CreatedOnce, Arrived
  <2>4. i.at \in Int /\ j.at \in Int
    <3>1. i \in Item /\ j \in Item
      BY <1>1 DEF Inv, TypeOK
    <3>2. QED
      BY <3>1 DEF Item
  <2>5. QED
    BY <2>2, <2>3, <2>4
<1>4. Upstream' = Upstream
  BY <1>1 DEF Upstream
<1>5. Ahead(Range(fetched'), store' \cup Upstream') /\ Ahead(store', Upstream')
  BY <1>1, <1>2, <1>3, <1>4 DEF Ordered, Ahead
<1>6. InTurn(fetched')
  <2>1. fetched \in Seq(Item) /\ Ahead(Range(fetched), {i})
    BY <1>2 DEF Inv, TypeOK, Ordered, Ahead
  <2>2. QED
    BY <1>1, <2>1, InTurnAppend DEF Ordered
<1>7. \A d \in Calls : ~call'[d].stale =>
           \A k \in call'[d].items, j \in store' : Alike(k, j) => k.at <= j.at
  BY <1>1 DEF Ordered
<1>8. QED
  BY <1>1, <1>4, <1>5, <1>6, <1>7 DEF Ordered, Ahead, InTurn, Alike

LEMMA NextOrder == Inv /\ OrderedUntilDrained /\ [Next]_vars => OrderedUntilDrained'
<1> SUFFICES ASSUME Inv, OrderedUntilDrained, [Next]_vars, drains' = 0 PROVE Ordered'
  BY DEF OrderedUntilDrained
<1>1. drains = 0
  <2>1. drains' = drains \/ drains' = drains + 1
    BY DEF Next, Send, Create, ProcessResult, Read, Commit, Refuse, DrainView, DropPrefix, DropFails,
           Maintenance, AgeScan, AgeDelete, SizeScan, SizeDelete, Delete, Measure,
           Restart, vars, bounds
  <2>2. QED
    BY <2>1 DEF Inv, TypeOK
<1>2. Ordered
  BY <1>1 DEF OrderedUntilDrained
<1>3. ASSUME NEW r \in Registers,
             Send(r) \/ \E ns \in Namespaces, esn \in ESNs : Create(r, ns, esn)
      PROVE  Ordered'
  BY <1>2, <1>3, SendOrder, CreateOrder
<1>4. ASSUME NEW ns \in Namespaces, ProcessResult(ns) PROVE Ordered'
  BY <1>1, <1>2, <1>4, ProcessResultOrder
<1>5. ASSUME NEW c \in Calls, Read(c) \/ Commit(c) PROVE Ordered'
  BY <1>1, <1>2, <1>5, ReadOrder, CommitOrder
<1>6. ASSUME NEW c \in Calls, Refuse(c) PROVE Ordered'
  <2>1. call' = [call EXCEPT ![c] = NoCall] /\ UNCHANGED <<hand, queue, store, fetched>>
        /\ call \in [Calls -> [items : SUBSET Item, stale : BOOLEAN]]
    BY <1>6 DEF Refuse, Inv, TypeOK
  <2>2. call'[c].items = {} /\ \A d \in Calls \ {c} : call'[d] = call[d]
    BY <2>1 DEF NoCall
  <2>3. QED
    BY <1>2, <2>1, <2>2, TakeAwayOrder DEF Ordered
<1>7. CASE DropPrefix \/ DropFails
  <2>1. store' \subseteq store /\ UNCHANGED <<hand, queue, call, fetched>>
    BY <1>7 DEF DropPrefix, DropFails
  <2>2. QED
    BY <1>2, <2>1, TakeAwayOrder DEF Ordered
<1>8. ASSUME NEW next, Delete(next) PROVE Ordered'
  <2>1. PICK done : store' = store \ done /\ call' = Outdate(done, call)
    BY <1>8 DEF Delete
  <2>2. UNCHANGED <<hand, queue, fetched>>
        /\ call \in [Calls -> [items : SUBSET Item, stale : BOOLEAN]]
    BY <1>8 DEF Delete, Inv, TypeOK
  <2>3. \A d \in Calls : call'[d].items = call[d].items /\ (call[d].stale => call'[d].stale)
    BY <2>1, <2>2 DEF Outdate
  <2>4. QED
    BY <1>2, <2>1, <2>2, <2>3, TakeAwayOrder DEF Ordered
<1>9. CASE Restart
  <2>1. hand' = [r \in Registers |-> {}] /\ queue' = EmptyQueues
        /\ call' = [c \in Calls |-> NoCall] /\ UNCHANGED <<store, fetched>>
    BY <1>9 DEF Restart
  <2>2. \A c \in Calls : call'[c].items = {}
    BY <2>1 DEF NoCall
  <2>3. QED
    BY <1>2, <2>1, <2>2, TakeAwayOrder
<1>10. CASE AgeScan \/ SizeScan \/ DrainView \/ Measure \/ UNCHANGED vars
  <2>1. UNCHANGED <<hand, queue, store, call, fetched>>
    BY <1>10 DEF AgeScan, SizeScan, DrainView, Measure, vars
  <2>2. QED
    BY <1>2, <2>1, TakeAwayOrder DEF Ordered
<1>11. QED
  BY <1>3, <1>4, <1>5, <1>6, <1>7, <1>8, <1>9, <1>10
     DEF Next, Maintenance, AgeDelete, SizeDelete

\* What a register causes for a camera reaches the bridge in the order of its
\* creation, queue by queue, whatever overlaps but a drain.
THEOREM AnswersInOrder == Spec => []FetchedInOrder
<1>1. Init => OrderedUntilDrained
  <2>1. SUFFICES ASSUME Init PROVE Ordered
    BY DEF OrderedUntilDrained
  <2>2. Upstream = {} /\ \A c \in Calls : call[c].items = {}
    BY <2>1 DEF Init, Upstream, EmptyQueues, Range, NoCall
  <2>3. QED
    BY <2>1, <2>2 DEF Init, EmptyQueues, Ordered, InTurn, Ahead, Range
<1>2. Inv /\ OrderedUntilDrained /\ [Next]_vars => OrderedUntilDrained'
  BY NextOrder
<1>3. OrderedUntilDrained => FetchedInOrder
  BY DEF OrderedUntilDrained, Ordered, InTurn, Alike, FetchedInOrder
<1>4. QED
  BY <1>1, <1>2, <1>3, Invariant, PTL DEF Spec
=============================================================================
