------------------------------- MODULE Mailbox -------------------------------
(***************************************************************************)
(* What the store of pending results promises ("fetched by bridge =        *)
(* delivered", internal/core/annt_store.go).  A result is put in once and  *)
(* answered to the bridge once at most, or discarded.  A drain answers     *)
(* what it has listed and takes it out; from then on only a request that   *)
(* had read an item before answers it.  Nothing is said of transactions,   *)
(* conflicts or sizes.                                                     *)
(***************************************************************************)
EXTENDS Sequences, Functions

CONSTANT Items      \* everything that may be put in

VARIABLES
    used,           \* what was put in, or never will be
    box,            \* what is pending
    held,           \* what requests have read and may still answer
    fetched,        \* what was answered to the bridge, in order
    listed,         \* what a drain under way has read
    given           \* what drains have answered

mailVars == <<used, box, held, fetched, listed, given>>

Init ==
    /\ used = {} /\ box = {} /\ held = {} /\ listed = {} /\ given = {}
    /\ fetched = <<>>

\* Nothing is put in a second time.
Put(i) ==
    /\ i \notin used
    /\ used \cup {i} \subseteq used'
    /\ box' = box \cup {i}
    /\ UNCHANGED <<held, fetched, listed, given>>

Hold(i) ==
    /\ i \in box
    /\ held' = held \cup {i}
    /\ UNCHANGED <<used, box, fetched, listed, given>>

Fetch(i) ==
    /\ i \in box \cup held
    /\ box' = box \ {i}
    /\ held' = held \ {i}
    /\ fetched' = Append(fetched, i)
    /\ UNCHANGED <<used, listed, given>>

\* A request that had read it cannot answer it any more either.
Discard(S) ==
    /\ box' = box \ S
    /\ held' = held \ S
    /\ UNCHANGED <<used, fetched, listed, given>>

\* Requests end without an answer.
Release(S) ==
    /\ held' = held \ S
    /\ UNCHANGED <<used, box, fetched, listed, given>>

List(S) ==
    /\ S \subseteq box
    /\ listed' = S
    /\ UNCHANGED <<used, box, held, fetched, given>>

\* The drain's answer; S may hold more than was listed.
Clear(S) ==
    /\ listed \cap box \subseteq S
    /\ box' = box \ S
    /\ given' = given \cup listed
    /\ listed' = {}
    /\ UNCHANGED <<used, held, fetched>>

\* A drain breaks off, alone or with everything else.
BreakOff(S, T) ==
    /\ box' = box \ S
    /\ held' = held \ T
    /\ listed' = {}
    /\ UNCHANGED <<used, fetched, given>>

Next ==
    \/ \E i \in Items : Put(i)
    \/ \E i \in box : Hold(i)
    \/ \E i \in box \cup held : Fetch(i)
    \/ \E S \in SUBSET (box \cup held) : Discard(S)
    \/ \E S \in SUBSET held : Release(S)
    \/ \E S \in SUBSET box : List(S) \/ Clear(S)
    \/ \E S \in SUBSET box, T \in SUBSET held : BreakOff(S, T)

Spec == Init /\ [][Next]_mailVars

\* No item is answered to the bridge twice: "fetched by bridge = delivered".
FetchedOnce == IsInjective(fetched)

\* What a drain has answered, no drain answers again, no request reads, and only
\* a request that had read it before answers it.
GivenIsGone ==
    [][\A i \in given :
        /\ i \notin listed'
        /\ i \notin held =>
            i \notin held' /\ (i \in Range(fetched') => i \in Range(fetched))]_mailVars
=============================================================================
