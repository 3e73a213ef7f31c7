---------------------------- MODULE MCFrameFlood ----------------------------
(* Instances of FrameFlood for TLC. *)
EXTENDS FrameFlood

FourCars == 1 .. 4
TwoFrames == {"f", "g"}
FirstTwo == [f \in Frames |-> IF f = "f" THEN 1 ELSE 2]

\* A line of four in which the third hears the first, but not the other way.
LongEar == {<<1, 2>>, <<2, 1>>, <<2, 3>>, <<3, 2>>, <<1, 3>>, <<3, 4>>, <<4, 3>>}

CarTwo == {2}
Waits == <<{2}, {0, 2}, {2}, {0}>>
=============================================================================
