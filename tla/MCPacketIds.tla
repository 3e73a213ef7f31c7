---------------------------- MODULE MCPacketIds ----------------------------
(* Instances of PacketIds for TLC. *)
EXTENDS PacketIds

SaveFaults == {"open", "write"}
AllFaults == {"boot", "open", "write"}
=============================================================================
