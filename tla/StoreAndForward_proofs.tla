---------------------- MODULE StoreAndForward_proofs ----------------------
(* What every implementation of StoreAndForward inherits. *)
EXTENDS StoreAndForward, TLAPS

\* A held item the receiver has never had is younger than all it has.
HeldAreYounger ==
    Ordered => \A i \in held \ got : \A j \in got : j < i

Inv == TypeOK /\ Accounted /\ HeldAreYounger

LEMMA InitInv == Init => Inv
  BY SMT DEF Init, Inv, TypeOK, Accounted, HeldAreYounger

LEMMA MakeInv == Inv /\ Make => Inv'
<1> SUFFICES ASSUME Inv, Make PROVE Inv'
  OBVIOUS
<1> USE DEF Inv, Make
<1>1. made \in Nat /\ 1..made + 1 = (1..made) \cup {made + 1}
  BY DEF TypeOK
<1>2. TypeOK'
  BY <1>1 DEF TypeOK
<1>3. Accounted'
  <2>1. (1..made)' = (held \cup got \cup lost)'
    BY <1>1, Zenon DEF Accounted
  <2>2. made + 1 \notin lost
    BY <1>1 DEF TypeOK
  <2>3. ((held \cup got) \cap lost = {})'
    BY <2>2, Zenon DEF Accounted
  <2> QED
    BY <2>1, <2>3 DEF Accounted
<1>4. HeldAreYounger'
  BY <1>1 DEF TypeOK, HeldAreYounger
<1> QED
  BY <1>2, <1>3, <1>4

LEMMA HandOverInv ==
  ASSUME NEW S \in SUBSET held, Inv, HandOver(S)
  PROVE  Inv' /\ (Ordered => \A i \in got' \ got : \A j \in got : j < i)
<1> USE DEF Inv, HandOver
<1>1. TypeOK'
  BY DEF TypeOK
<1>2. Accounted'
  BY DEF TypeOK, Accounted
<1>3. ASSUME Ordered, NEW i \in got' \ got, NEW j \in got
      PROVE  j < i
  BY <1>3 DEF HeldAreYounger
<1>4. ASSUME Ordered, NEW i \in (held \ got)', NEW j \in got'
      PROVE  j < i
  <2>1. CASE j \in got
    BY <1>4, <2>1 DEF HeldAreYounger
  <2>2. CASE j \in S
    <3>1. i \in held /\ i \notin S /\ i \in Nat /\ j \in Nat
      BY <1>4, <2>2 DEF TypeOK
    <3>2. ~(i < j) /\ i # j
      BY <3>1, <1>4, <2>2
    <3> QED
      BY <3>1, <3>2
  <2> QED
    BY <1>4, <2>1, <2>2
<1> QED
  BY <1>1, <1>2, <1>3, <1>4 DEF HeldAreYounger

LEMMA ReleaseInv ==
  ASSUME NEW S \in SUBSET held, Inv, Release(S) PROVE Inv'
  BY SMT DEF Release, Inv, TypeOK, Accounted, HeldAreYounger

LEMMA MishapInv ==
  ASSUME NEW S \in SUBSET held, Inv, Mishap(S) PROVE Inv'
<1> USE DEF Inv, Mishap
<1>1. TypeOK'
  BY DEF TypeOK
<1>2. Accounted'
  <2>1. (1..made = held \cup got \cup lost)'
    BY Zenon DEF Accounted
  <2>2. ((held \cup got) \cap lost = {})'
    BY Zenon DEF Accounted
  <2>3. safe' = FALSE
    BY DEF TypeOK
  <2> QED
    BY <2>1, <2>2, <2>3 DEF Accounted
<1>3. HeldAreYounger'
  BY DEF HeldAreYounger
<1> QED
  BY <1>1, <1>2, <1>3

LEMMA NextInv == Inv /\ [Next]_vars => Inv'
<1> SUFFICES ASSUME Inv, [Next]_vars PROVE Inv'
  OBVIOUS
<1>1. CASE Make
  BY <1>1, MakeInv
<1>2. ASSUME NEW S \in SUBSET held, HandOver(S) PROVE Inv'
  BY <1>2, HandOverInv
<1>3. ASSUME NEW S \in SUBSET held, Release(S) PROVE Inv'
  BY <1>3, ReleaseInv
<1>4. ASSUME NEW S \in SUBSET held, Mishap(S) PROVE Inv'
  BY <1>4, MishapInv
<1>5. CASE UNCHANGED vars
  BY <1>5 DEF vars, Inv, TypeOK, Accounted, HeldAreYounger
<1> QED
  BY <1>1, <1>2, <1>3, <1>4, <1>5 DEF Next

\* No item is ever unaccounted for, and none is lost without a mishap.
THEOREM EveryItemAccounted == Spec => []Accounted
<1>1. Inv => Accounted
  BY DEF Inv
<1> QED
  BY <1>1, InitInv, NextInv, PTL DEF Spec

\* An ordered buffer delivers in order of making, whatever is retried,
\* repeated or lost in between.
THEOREM DeliveredInOrder == Spec => Chronological
<1> DEFINE A == Ordered => \A i \in got' \ got : \A j \in got : j < i
<1>1. Inv /\ [Next]_vars => [A]_vars
  <2> SUFFICES ASSUME Inv, Next PROVE A
    OBVIOUS
  <2>1. ASSUME NEW S \in SUBSET held, HandOver(S) PROVE A
    BY <2>1, HandOverInv
  <2>2. CASE got' = got
    BY <2>2
  <2> QED
    BY <2>1, <2>2 DEF Next, Make, Release, Mishap
<1> QED
  BY <1>1, InitInv, NextInv, PTL DEF Spec, Chronological
=============================================================================
