---------------------------- MODULE BatchPlaces ----------------------------
(***************************************************************************)
(* What the radio promises about the position batches it gives the phone:  *)
(* a bounded number of places; a batch holds one from before it is handed  *)
(* over until its end is booked, and it is booked once, as what it was:    *)
(* read by the phone, or lost.  PhoneLane implements it.                   *)
(***************************************************************************)
EXTENDS Naturals, FiniteSets

CONSTANTS
    Batches,     \* batch numbers
    MaxInFlight  \* MAX_BATCHES_IN_FLIGHT

VARIABLES
    places,  \* the batches that hold a place
    fate,    \* what became of each batch: "none" yet, "read" or "lost"
    booked   \* what the radio has counted it as

vars == <<places, fate, booked>>

Init ==
    /\ places = {}
    /\ fate = [b \in Batches |-> "none"] /\ booked = fate

\* A batch never seen before takes a place.
Hand(b) ==
    /\ fate[b] = "none" /\ b \notin places
    /\ Cardinality(places) < MaxInFlight
    /\ places' = places \union {b}
    /\ UNCHANGED <<fate, booked>>

\* Batches that hold a place come to an end.
Leave(ended, how) ==
    /\ \A b \in ended : b \in places /\ fate[b] = "none"
    /\ fate' = [b \in Batches |-> IF b \in ended THEN how ELSE fate[b]]
    /\ UNCHANGED <<places, booked>>

\* The end of some is booked, and their places come free.
Book(ended) ==
    /\ \A b \in ended : b \in places /\ fate[b] # "none"
    /\ booked' = [b \in Batches |-> IF b \in ended THEN fate[b] ELSE booked[b]]
    /\ places' = places \ ended
    /\ UNCHANGED fate

\* Read and booked in one step.
LeaveBooked(b) ==
    /\ b \in places /\ fate[b] = "none"
    /\ fate' = [fate EXCEPT ![b] = "read"]
    /\ booked' = [booked EXCEPT ![b] = "read"]
    /\ places' = places \ {b}

Next ==
    \/ \E b \in Batches : Hand(b) \/ LeaveBooked(b)
    \/ \E ended \in SUBSET Batches :
          Book(ended) \/ \E how \in {"read", "lost"} : Leave(ended, how)

Spec == Init /\ [][Next]_vars
=============================================================================
