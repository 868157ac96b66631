------------------------- MODULE MCVerticalScenes -------------------------
(* Instances of VerticalScenes for TLC. *)
EXTENDS VerticalScenes

CONSTANTS s1, s2, i1, i2, o1

TwoScenes  == {s1, s2}
TwoItems   == {i1, i2}
\* The second item is there for its place among the rows.
FormsOfTwo == [i \in TwoItems |-> IF i = i1 THEN {0, 1} ELSE {0}]
ObsOne     == {o1}

\* A file of an earlier version: its link knows OBS's scene by name only.
OldFile ==
  [scenes |-> <<s1, s2>>, active |-> s1, follow |-> FALSE,
   layout |-> [s \in TwoScenes |-> IF s = s1 THEN <<[id |-> i1, form |-> 0]>> ELSE << >>],
   links |-> [o \in ObsScenes |-> IF o = o1 THEN [scene |-> s2, uuid |-> FALSE] ELSE None]]
=============================================================================
