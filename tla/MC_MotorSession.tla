--------------------------- MODULE MC_MotorSession ---------------------------
(* Small instance of MotorSession: client threads, the SDK thread and the    *)
(* two ends of the tilt range, so that a wrong belief about the start of a   *)
(* travel is the difference between no travel and a full one.                *)
EXTENDS MotorSession, TLC

MCAngles == {-27, 27}
Symm     == Permutations(Clients)
=============================================================================
