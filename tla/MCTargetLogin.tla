--------------------------- MODULE MCTargetLogin ---------------------------
(* Instances of TargetLogin for TLC. *)
EXTENDS TargetLogin

TwoCalls      == 1 .. 2
TwoModes      == {"twitch", "youtube"}
=============================================================================
