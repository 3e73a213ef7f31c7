---------------------------- MODULE MCPhoneLane ----------------------------
(* Instances of PhoneLane for TLC. *)
EXTENDS PhoneLane

\* No car is special to a property or to a step.
CarSymmetry == Permutations(Cars)
=============================================================================
