--------------------------- MODULE FilteringProofs ---------------------------
(* What a filtered list holds, for lists of any length.  The facts are about *)
(* a recursive function and are proved by induction on a number, which the   *)
(* library gives as the well-foundedness of the order of the numbers.        *)
EXTENDS Filtering, TLAPS, WellFoundedInduction

LEMMA LeastNumber ==
    ASSUME NEW S \in SUBSET Nat, S # {}
    PROVE  \E m \in S : \A k \in S : m <= k
<1>1. \E x \in S : \A y \in S : ~(<<y, x>> \in OpToRel(<, Nat))
  BY NatLessThanWellFounded, WFMin
<1>2. \A k \in Nat, m \in Nat : k < m => <<k, m>> \in OpToRel(<, Nat)
  BY Zenon DEF OpToRel
<1>3. PICK m \in S : \A k \in S : ~(k < m)
  BY <1>1, <1>2, Zenon
<1>4. QED
  BY <1>3

\* Induction over a set: a statement about all numbers is the set of the
\* numbers it holds of.
LEMMA NumberInduction ==
    ASSUME NEW S, 0 \in S, \A n \in Nat : n \in S => n + 1 \in S
    PROVE  Nat \subseteq S
<1> SUFFICES ASSUME Nat \ S # {} PROVE FALSE
  OBVIOUS
<1>1. PICK m \in Nat \ S : \A k \in Nat \ S : m <= k
  BY LeastNumber
<1>2. m # 0 /\ m - 1 \in Nat
  BY <1>1
<1>3. m - 1 \in S
  BY <1>1, <1>2
<1>4. QED
  BY <1>1, <1>2, <1>3

-----------------------------------------------------------------------------
(* The recursive function *)

KeptStep(list, stays, f, n) ==
    IF n = 0 THEN <<>>
    ELSE IF list[n] \in stays THEN Append(f[n - 1], list[n]) ELSE f[n - 1]

IsKept(list, stays, f, m) == f = [n \in 0 .. m |-> KeptStep(list, stays, f, n)]

\* There is such a function up to any number: one up to n gives one up to n + 1.
LEMMA KeptExists ==
    ASSUME NEW list, NEW stays
    PROVE  \A m \in Nat : \E f : IsKept(list, stays, f, m)
<1> DEFINE S == {m \in Nat : \E f : IsKept(list, stays, f, m)}
<1>1. 0 \in S
  <2>1. IsKept(list, stays, [n \in 0 .. 0 |-> <<>>], 0)
    BY DEF IsKept, KeptStep
  <2>2. QED
    BY <2>1
<1>2. ASSUME NEW m \in Nat, m \in S PROVE m + 1 \in S
  <2>1. PICK f : IsKept(list, stays, f, m)
    BY <1>2
  <2> DEFINE g == [n \in 0 .. m + 1 |-> IF n <= m THEN f[n] ELSE KeptStep(list, stays, f, n)]
  <2>2. ASSUME NEW n \in 0 .. m + 1 PROVE g[n] = KeptStep(list, stays, g, n)
    <3>1. CASE n = 0
      <4>1. g[n] = f[0]
        BY <3>1
      <4>2. f[0] = <<>>
        BY <2>1 DEF IsKept, KeptStep
      <4>3. QED
        BY <3>1, <4>1, <4>2 DEF KeptStep
    <3>2. CASE n # 0
      <4>1. n - 1 \in 0 .. m /\ g[n - 1] = f[n - 1]
        BY <3>2
      <4>2. g[n] = KeptStep(list, stays, f, n)
        <5>1. CASE n <= m
          <6>1. n \in 0 .. m
            BY <5>1
          <6>2. f[n] = KeptStep(list, stays, f, n)
            BY <2>1, <6>1 DEF IsKept
          <6>3. QED
            BY <5>1, <6>2
        <5>2. CASE n > m
          BY <5>2
        <5>3. QED
          BY <5>1, <5>2
      <4>3. QED
        BY <3>2, <4>1, <4>2 DEF KeptStep
    <3>3. QED
      BY <3>1, <3>2
  <2>3. IsKept(list, stays, g, m + 1)
    BY <2>2 DEF IsKept
  <2>4. QED
    BY <2>3
<1>3. Nat \subseteq S
  <2> HIDE DEF S
  <2>1. QED
    BY <1>1, <1>2, NumberInduction
<1>4. QED
  BY <1>3

\* A filtered list is what such a function is at the length of the list.
LEMMA FilteredIsKept ==
    ASSUME NEW T, NEW list \in Seq(T), NEW stays
    PROVE  \E f : IsKept(list, stays, f, Len(list)) /\ Filtered(list, stays) = f[Len(list)]
<1> DEFINE kept == CHOOSE f : IsKept(list, stays, f, Len(list))
<1>1. Len(list) \in Nat
  OBVIOUS
<1>2. IsKept(list, stays, kept, Len(list))
  BY <1>1, KeptExists
<1>3. Filtered(list, stays) = kept[Len(list)]
  BY DEF Filtered, IsKept, KeptStep
<1>4. QED
  BY <1>2, <1>3

-----------------------------------------------------------------------------
(* What a filtered list holds *)

LEMMA KeptValues ==
    ASSUME NEW T, NEW list \in Seq(T), NEW stays, NEW f,
           IsKept(list, stays, f, Len(list)), NEW n \in 0 .. Len(list)
    PROVE  f[n] = KeptStep(list, stays, f, n)
  BY DEF IsKept

\* The elements of a filtered list are the list's that stay.
THEOREM FilteredHolds ==
    ASSUME NEW T, NEW list \in Seq(T), NEW stays
    PROVE  /\ Filtered(list, stays) \in Seq(T)
           /\ Range(Filtered(list, stays)) = Range(list) \cap stays
<1>1. PICK f : IsKept(list, stays, f, Len(list)) /\ Filtered(list, stays) = f[Len(list)]
  BY FilteredIsKept
<1> DEFINE Holds(n) == /\ f[n] \in Seq(T)
                       /\ Range(f[n]) = {list[i] : i \in 1 .. n} \cap stays
           S == {n \in Nat : n <= Len(list) => Holds(n)}
<1>2. 0 \in S
  <2>1. f[0] = <<>>
    <3>1. 0 \in 0 .. Len(list)
      OBVIOUS
    <3>2. QED
      BY <1>1, <3>1, KeptValues DEF KeptStep
  <2>2. Range(<<>>) = {} /\ <<>> \in Seq(T)
    BY DEF Range
  <2>3. {list[i] : i \in 1 .. 0} = {}
    OBVIOUS
  <2>4. Holds(0)
    BY <2>1, <2>2, <2>3
  <2>5. QED
    BY <2>4
<1>3. ASSUME NEW n \in Nat, n \in S PROVE n + 1 \in S
  <2> SUFFICES ASSUME n + 1 <= Len(list) PROVE Holds(n + 1)
    OBVIOUS
  <2>1. Holds(n)
    BY <1>3
  <2>2. f[n + 1] = IF list[n + 1] \in stays THEN Append(f[n], list[n + 1]) ELSE f[n]
    <3>1. n + 1 \in 0 .. Len(list) /\ n + 1 # 0 /\ (n + 1) - 1 = n
      OBVIOUS
    <3>2. QED
      BY <1>1, <3>1, KeptValues DEF KeptStep
  <2>3. list[n + 1] \in T
    OBVIOUS
  <2>4. {list[i] : i \in 1 .. n + 1} = {list[i] : i \in 1 .. n} \cup {list[n + 1]}
    <3>1. 1 .. n + 1 = (1 .. n) \cup {n + 1}
      OBVIOUS
    <3>2. QED
      BY <3>1
  <2>5. Range(Append(f[n], list[n + 1])) = Range(f[n]) \cup {list[n + 1]}
    <3>1. f[n] \in Seq(T)
      BY <2>1
    <3> DEFINE g == Append(f[n], list[n + 1])
    <3>2. DOMAIN g = 1 .. Len(f[n]) + 1 /\ DOMAIN f[n] = 1 .. Len(f[n])
      BY <2>3, <3>1
    <3>3. (\A i \in 1 .. Len(f[n]) : g[i] = f[n][i]) /\ g[Len(f[n]) + 1] = list[n + 1]
      BY <2>3, <3>1
    <3> HIDE DEF g
    <3>4. Len(f[n]) \in Nat
      BY <3>1
    <3>5. Range(g) = Range(f[n]) \cup {list[n + 1]}
      BY <3>2, <3>3, <3>4 DEF Range
    <3>6. QED
      BY <3>5 DEF g
  <2>6. CASE list[n + 1] \in stays
    <3>1. f[n + 1] = Append(f[n], list[n + 1])
      BY <2>2, <2>6
    <3>2. f[n + 1] \in Seq(T)
      BY <2>1, <2>3, <3>1
    <3>3. Range(f[n + 1]) = {list[i] : i \in 1 .. n + 1} \cap stays
      BY <2>1, <2>4, <2>5, <2>6, <3>1
    <3>4. QED
      BY <3>2, <3>3
  <2>7. CASE list[n + 1] \notin stays
    BY <2>1, <2>2, <2>4, <2>7
  <2>8. QED
    BY <2>6, <2>7
<1>4. Nat \subseteq S
  <2> HIDE DEF S
  <2>1. QED
    BY <1>2, <1>3, NumberInduction
<1>5. Holds(Len(list))
  <2>1. Len(list) \in Nat /\ Len(list) <= Len(list)
    OBVIOUS
  <2>2. Len(list) \in S
    BY <1>4, <2>1
  <2>3. QED
    BY <2>1, <2>2
<1>6. Range(list) = {list[i] : i \in 1 .. Len(list)}
  BY DEF Range
<1>7. QED
  BY <1>1, <1>5, <1>6

\* Appending what a list does not hold keeps its elements apart.
LEMMA AppendedInjective ==
    ASSUME NEW T, NEW list \in Seq(T), NEW e \in T, IsInjective(list), e \notin Range(list)
    PROVE  IsInjective(Append(list, e))
<1> DEFINE new == Append(list, e)
<1>1. DOMAIN new = 1 .. Len(list) + 1 /\ DOMAIN list = 1 .. Len(list) /\ Len(list) \in Nat
  OBVIOUS
<1>2. (\A i \in 1 .. Len(list) : new[i] = list[i]) /\ new[Len(list) + 1] = e
  OBVIOUS
<1> HIDE DEF new
<1>3. \A i, j \in 1 .. Len(list) : list[i] = list[j] => i = j
  BY <1>1 DEF IsInjective
<1>4. \A i \in 1 .. Len(list) : list[i] # e
  BY <1>1 DEF Range
<1>5. \A i, j \in 1 .. Len(list) + 1 : new[i] = new[j] => i = j
  BY <1>1, <1>2, <1>3, <1>4
<1>6. IsInjective(new)
  BY <1>1, <1>5 DEF IsInjective
<1>7. QED
  BY <1>6 DEF new

\* What is left of a list without repetitions has none.
THEOREM FilteredInjective ==
    ASSUME NEW T, NEW list \in Seq(T), NEW stays, IsInjective(list)
    PROVE  IsInjective(Filtered(list, stays))
<1>1. PICK f : IsKept(list, stays, f, Len(list)) /\ Filtered(list, stays) = f[Len(list)]
  BY FilteredIsKept
<1> DEFINE Holds(n) == /\ f[n] \in Seq(T) /\ IsInjective(f[n])
                       /\ \A x \in Range(f[n]) : \E i \in 1 .. n : x = list[i]
           S == {n \in Nat : n <= Len(list) => Holds(n)}
<1>2. 0 \in S
  <2>1. f[0] = <<>>
    <3>1. 0 \in 0 .. Len(list)
      OBVIOUS
    <3>2. QED
      BY <1>1, <3>1, KeptValues DEF KeptStep
  <2>2. Range(<<>>) = {} /\ <<>> \in Seq(T) /\ IsInjective(<<>>)
    BY DEF Range, IsInjective
  <2>3. Holds(0)
    BY <2>1, <2>2
  <2>4. QED
    BY <2>3
<1>3. ASSUME NEW n \in Nat, n \in S PROVE n + 1 \in S
  <2> SUFFICES ASSUME n + 1 <= Len(list) PROVE Holds(n + 1)
    OBVIOUS
  <2>1. Holds(n)
    BY <1>3
  <2>2. f[n + 1] = IF list[n + 1] \in stays THEN Append(f[n], list[n + 1]) ELSE f[n]
    <3>1. n + 1 \in 0 .. Len(list) /\ n + 1 # 0 /\ (n + 1) - 1 = n
      OBVIOUS
    <3>2. QED
      BY <1>1, <3>1, KeptValues DEF KeptStep
  <2>3. list[n + 1] \in T /\ n + 1 \in DOMAIN list /\ \A i \in 1 .. n : i \in DOMAIN list
    OBVIOUS
  <2>4. list[n + 1] \notin Range(f[n])
    BY <2>1, <2>3 DEF IsInjective
  <2>5. CASE list[n + 1] \in stays
    <3>1. f[n + 1] = Append(f[n], list[n + 1])
      BY <2>2, <2>5
    <3>2. f[n + 1] \in Seq(T) /\ IsInjective(f[n + 1])
      BY <2>1, <2>3, <2>4, <3>1, AppendedInjective
    <3>3. \A x \in Range(f[n + 1]) : x \in Range(f[n]) \/ x = list[n + 1]
      <4> DEFINE g == Append(f[n], list[n + 1])
      <4>1. /\ DOMAIN g = 1 .. Len(f[n]) + 1 /\ DOMAIN f[n] = 1 .. Len(f[n])
            /\ \A i \in 1 .. Len(f[n]) : g[i] = f[n][i]
            /\ g[Len(f[n]) + 1] = list[n + 1] /\ Len(f[n]) \in Nat
        BY <2>1, <2>3
      <4> HIDE DEF g
      <4>2. \A x \in Range(g) : x \in Range(f[n]) \/ x = list[n + 1]
        BY <4>1 DEF Range
      <4>3. QED
        BY <3>1, <4>2 DEF g
    <3>4. \A x \in Range(f[n + 1]) : \E i \in 1 .. n + 1 : x = list[i]
      BY <2>1, <3>3
    <3>5. QED
      BY <3>2, <3>4
  <2>6. CASE list[n + 1] \notin stays
    BY <2>1, <2>2, <2>6
  <2>7. QED
    BY <2>5, <2>6
<1>4. Nat \subseteq S
  <2> HIDE DEF S
  <2>1. QED
    BY <1>2, <1>3, NumberInduction
<1>5. IsInjective(f[Len(list)])
  BY <1>4
<1>6. QED
  BY <1>1, <1>5

\* A list of which every element stays is left as it is.
THEOREM FilteredAll ==
    ASSUME NEW T, NEW list \in Seq(T), NEW stays, Range(list) \subseteq stays
    PROVE  Filtered(list, stays) = list
<1>1. PICK f : IsKept(list, stays, f, Len(list)) /\ Filtered(list, stays) = f[Len(list)]
  BY FilteredIsKept
<1> DEFINE S == {n \in Nat : n <= Len(list) => f[n] = SubSeq(list, 1, n)}
<1>2. 0 \in S
  <2>1. f[0] = <<>>
    <3>1. 0 \in 0 .. Len(list)
      OBVIOUS
    <3>2. QED
      BY <1>1, <3>1, KeptValues DEF KeptStep
  <2>2. SubSeq(list, 1, 0) = <<>>
    OBVIOUS
  <2>3. QED
    BY <2>1, <2>2
<1>3. ASSUME NEW n \in Nat, n \in S PROVE n + 1 \in S
  <2> SUFFICES ASSUME n + 1 <= Len(list) PROVE f[n + 1] = SubSeq(list, 1, n + 1)
    OBVIOUS
  <2>1. list[n + 1] \in stays
    BY DEF Range
  <2>2. f[n + 1] = Append(f[n], list[n + 1])
    <3>1. n + 1 \in 0 .. Len(list) /\ n + 1 # 0 /\ (n + 1) - 1 = n
      OBVIOUS
    <3>2. f[n + 1] = KeptStep(list, stays, f, n + 1)
      BY <1>1, <3>1, KeptValues
    <3>3. QED
      BY <2>1, <3>1, <3>2 DEF KeptStep
  <2>3. f[n] = SubSeq(list, 1, n)
    BY <1>3
  <2>4. Append(SubSeq(list, 1, n), list[n + 1]) = SubSeq(list, 1, n + 1)
    OBVIOUS
  <2>5. QED
    BY <2>2, <2>3, <2>4
<1>4. Nat \subseteq S
  <2> HIDE DEF S
  <2>1. QED
    BY <1>2, <1>3, NumberInduction
<1>5. f[Len(list)] = SubSeq(list, 1, Len(list))
  BY <1>4
<1>6. SubSeq(list, 1, Len(list)) = list
  OBVIOUS
<1>7. QED
  BY <1>1, <1>5, <1>6
=============================================================================
