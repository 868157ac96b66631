----------------------- MODULE MCStreamControlsDock -----------------------
(* Instances of StreamControlsDock for TLC. *)
EXTENDS StreamControlsDock

CONSTANTS t1, t2

TwoTargets == {t1, t2}
First      == {t1}
=============================================================================
