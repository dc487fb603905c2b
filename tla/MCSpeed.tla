------------------------------ MODULE MCSpeed ------------------------------
(***************************************************************************)
(* A small instance of Speed for TLC: two commands, fewer workers than     *)
(* profiles.                                                               *)
(***************************************************************************)
EXTENDS SpeedProps

CONSTANTS c1, c2

MCCommands == {c1, c2}
TwoProfiles == 1 .. 2
=============================================================================
