-------------------------- MODULE StoreAndForward --------------------------
(***************************************************************************)
(* What a store-and-forward buffer of this firmware promises, whatever it  *)
(* is made of: an item is held from the moment it is made until it has     *)
(* been handed over; it may be handed over more than once; it is lost only *)
(* in a mishap; and, where the buffer is Ordered, no item is handed over   *)
(* while an older one is held that has not been.                           *)
(*                                                                         *)
(* UplinkBuffers and LoRaNode implement it.                                *)
(***************************************************************************)
EXTENDS Naturals

CONSTANT Ordered        \* whether the receiver gets the items oldest first

VARIABLES
    made,       \* items made so far: an item is its number
    held,       \* items the device still has
    got,        \* items the receiver has
    lost,       \* items that neither has
    safe        \* no mishap so far: no power failure, restart, flash fault
                \* or full partition

vars == <<made, held, got, lost, safe>>

TypeOK ==
    /\ made \in Nat
    /\ held \subseteq 1..made
    /\ got \subseteq 1..made
    /\ lost \subseteq 1..made
    /\ safe \in BOOLEAN

Init ==
    /\ made = 0
    /\ held = {} /\ got = {} /\ lost = {}
    /\ safe = TRUE

Make ==
    /\ made' = made + 1
    /\ held' = held \cup {made'}
    /\ UNCHANGED <<got, lost, safe>>

\* The receiver gets the batch S; the device need not learn of it.
HandOver(S) ==
    /\ S \subseteq held
    /\ Ordered => \A i \in S : \A j \in held : j < i => j \in S
    /\ got' = got \cup S
    /\ UNCHANGED <<made, held, lost, safe>>

Release(S) ==
    /\ S \subseteq held \cap got
    /\ held' = held \ S
    /\ UNCHANGED <<made, got, lost, safe>>

\* A mishap may cost what is held, nothing at all included.
Mishap(S) ==
    /\ S \subseteq held
    /\ held' = held \ S
    /\ lost' = lost \cup (S \ got)
    /\ safe' = FALSE
    /\ UNCHANGED <<made, got>>

Next ==
    \/ Make
    \/ \E S \in SUBSET held : HandOver(S) \/ Release(S) \/ Mishap(S)

Spec == Init /\ [][Next]_vars

-----------------------------------------------------------------------------
\* Every item is with the device, with the receiver or counted as lost, and
\* nothing is lost without a mishap.
Accounted ==
    /\ 1..made = held \cup got \cup lost
    /\ (held \cup got) \cap lost = {}
    /\ safe => lost = {}

\* An ordered receiver gets an item for the first time only when it has none
\* that is younger: rows arrive in the order they were made.
Chronological ==
    [][Ordered => \A i \in got' \ got : \A j \in got : j < i]_vars
=============================================================================
