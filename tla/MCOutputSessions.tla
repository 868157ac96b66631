-------------------------- MODULE MCOutputSessions --------------------------
(* Instances of OutputSessions for TLC. *)
EXTENDS OutputSessions

CONSTANTS t1, p1, p2

OneTarget   == {t1}
OneProfile  == {p1}
TwoProfiles == {p1, p2}

AllKinds    == {"program", "scene"}
SceneOnly   == {"scene"}

=============================================================================
