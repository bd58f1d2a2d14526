---------------------------- MODULE MailboxProofs ----------------------------
(* What every store that is a Mailbox delivers.                              *)
EXTENDS Mailbox, Integers, TLAPS

\* What was fetched is out of reach; what was drained is not in the box.
Inv == /\ fetched \in Seq(Items) /\ box \cup held \subseteq Items
       /\ IsInjective(fetched)
       /\ box \cup held \cup listed \cup given \cup Range(fetched) \subseteq used
       /\ (box \cup held) \cap Range(fetched) = {}
       /\ (box \cup listed) \cap given = {}

LEMMA FetchOnce ==
    ASSUME Inv, NEW i \in box \cup held, Fetch(i)
    PROVE  Inv'
<1>1. /\ box' = box \ {i} /\ held' = held \ {i} /\ fetched' = Append(fetched, i)
      /\ i \in Items /\ i \in used /\ UNCHANGED <<used, listed, given>>
  BY DEF Fetch, Inv
<1>2. fetched \in Seq(Items) /\ Len(fetched) \in Nat /\ DOMAIN fetched = 1 .. Len(fetched)
  BY DEF Inv
<1>3. fetched' \in Seq(Items) /\ DOMAIN fetched' = 1 .. Len(fetched) + 1
  BY <1>1, <1>2
<1>4. /\ \A k \in 1 .. Len(fetched) : fetched'[k] = fetched[k] /\ fetched[k] # i
      /\ fetched'[Len(fetched) + 1] = i
  BY <1>1, <1>2 DEF Inv, Range
<1>5. IsInjective(fetched')
  BY <1>2, <1>3, <1>4 DEF Inv, IsInjective
<1>6. Range(fetched') \subseteq Range(fetched) \cup {i}
  BY <1>2, <1>3, <1>4 DEF Range
<1>7. QED
  BY <1>1, <1>3, <1>5, <1>6 DEF Inv

LEMMA Invariant == Spec => []Inv
<1>1. Init => Inv
  <2> <<>> \in Seq(Items)
    OBVIOUS
  <2>1. QED
    BY DEF Init, Inv, IsInjective, Range
<1>2. Inv /\ [Next]_mailVars => Inv'
  <2> SUFFICES ASSUME Inv, [Next]_mailVars PROVE Inv'
    OBVIOUS
  <2>1. ASSUME NEW i \in Items, Put(i) PROVE Inv'
    BY <2>1 DEF Put, Inv
  <2>2. ASSUME NEW i \in box, Hold(i) PROVE Inv'
    BY <2>2 DEF Hold, Inv
  <2>3. ASSUME NEW i \in box \cup held, Fetch(i) PROVE Inv'
    BY <2>3, FetchOnce
  <2>4. ASSUME NEW S \in SUBSET (box \cup held), Discard(S) PROVE Inv'
    BY <2>4 DEF Discard, Inv
  <2>5. ASSUME NEW S \in SUBSET held, Release(S) PROVE Inv'
    BY <2>5 DEF Release, Inv
  <2>6. ASSUME NEW S \in SUBSET box, List(S) \/ Clear(S) PROVE Inv'
    BY <2>6 DEF List, Clear, Inv
  <2>7. ASSUME NEW S \in SUBSET box, NEW T \in SUBSET held, BreakOff(S, T) PROVE Inv'
    BY <2>7 DEF BreakOff, Inv
  <2>8. CASE UNCHANGED mailVars
    BY <2>8 DEF mailVars, Inv
  <2>9. QED
    BY <2>1, <2>2, <2>3, <2>4, <2>5, <2>6, <2>7, <2>8 DEF Next
<1>3. QED
  BY <1>1, <1>2, PTL DEF Spec

\* "fetched by bridge = delivered": nothing is answered to the bridge twice, for
\* any items.
THEOREM NothingTwice == Spec => []FetchedOnce
<1>1. Inv => FetchedOnce
  BY DEF Inv, FetchedOnce
<1>2. QED
  BY <1>1, Invariant, PTL

\* DrainAllANNTs: what one drain has answered is in no other drain's answer, and
\* a request answers it only if it had read it before the drop.
THEOREM DrainedIsGone == Spec => GivenIsGone
<1> DEFINE Gone == \A i \in given :
        /\ i \notin listed'
        /\ i \notin held =>
            i \notin held' /\ (i \in Range(fetched') => i \in Range(fetched))
<1>1. Inv /\ [Next]_mailVars => [Gone]_mailVars
  <2> SUFFICES ASSUME Inv, Next, NEW i \in given
               PROVE  /\ i \notin listed'
                      /\ i \notin held =>
                          i \notin held' /\ (i \in Range(fetched') => i \in Range(fetched))
    OBVIOUS
  <2>1. i \notin box /\ i \notin listed
    BY DEF Inv
  <2>2. ASSUME NEW j \in Items, Put(j) PROVE UNCHANGED <<held, fetched, listed>>
    BY <2>2 DEF Put
  <2>3. ASSUME NEW j \in box, Hold(j)
        PROVE  held' = held \cup {j} /\ UNCHANGED <<fetched, listed>>
    BY <2>3 DEF Hold
  <2>4. ASSUME NEW j \in box \cup held, Fetch(j)
        PROVE  /\ held' \subseteq held /\ listed' = listed
               /\ Range(fetched') \subseteq Range(fetched) \cup {j}
    <3>1. fetched' = Append(fetched, j) /\ fetched \in Seq(Items)
      BY <2>4 DEF Fetch, Inv
    <3>2. /\ DOMAIN fetched' = 1 .. Len(fetched) + 1 /\ Len(fetched) \in Nat
          /\ DOMAIN fetched = 1 .. Len(fetched)
          /\ \A k \in 1 .. Len(fetched) : fetched'[k] = fetched[k]
          /\ fetched'[Len(fetched) + 1] = j
      BY <3>1
    <3>3. Range(fetched') \subseteq Range(fetched) \cup {j}
      BY <3>2 DEF Range
    <3>4. QED
      BY <2>4, <3>3 DEF Fetch
  <2>5. ASSUME NEW S \in SUBSET box, NEW T \in SUBSET held,
               Release(T) \/ List(S) \/ Clear(S) \/ BreakOff(S, T)
        PROVE  held' \subseteq held /\ fetched' = fetched /\ listed' \subseteq listed \cup box
    BY <2>5 DEF Release, List, Clear, BreakOff
  <2>6. ASSUME NEW S \in SUBSET (box \cup held), Discard(S)
        PROVE  held' \subseteq held /\ UNCHANGED <<fetched, listed>>
    BY <2>6 DEF Discard
  <2>7. QED
    BY <2>1, <2>2, <2>3, <2>4, <2>5, <2>6 DEF Next
<1>2. QED
  BY <1>1, Invariant, PTL DEF Spec, GivenIsGone
=============================================================================
