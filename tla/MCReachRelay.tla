---------------------------- MODULE MCReachRelay ----------------------------
(* Instances of ReachRelay for TLC. *)
EXTENDS ReachRelay, TLC

CONSTANTS o1, r1, f1
RideCars == {o1, r1, f1}
ByRank == (o1 :> 0) @@ (r1 :> 1) @@ (f1 :> 2)

\* Three cars in a line.  "far": the far car may stop hearing the origin, and the relay may lose its
\* summaries.  "near": the two ends never hear each other, and the relay may
\* stop hearing it.  "back": the same as far, but the relay may be restarted.
AllSettings == {"far", "near", "back"}
FarOnly == {"far"}
RideRiders == [far |-> RideCars, near |-> RideCars, back |-> RideCars]
RideUnlinked == [far |-> {}, near |-> {<<o1, f1>>, <<f1, o1>>}, back |-> {}]
RideFaulty == [far |-> {<<o1, f1>>}, near |-> {<<o1, r1>>}, back |-> {<<o1, f1>>}]
RideLossy == [far |-> {<<f1, r1>>}, near |-> {<<f1, r1>>}, back |-> {}]
RideRestarting == [far |-> {}, near |-> {}, back |-> {r1}]
RideAging == [far |-> {}, near |-> {o1}, back |-> {}]
=============================================================================
