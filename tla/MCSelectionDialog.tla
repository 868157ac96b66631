------------------------- MODULE MCSelectionDialog -------------------------
(* Instances of SelectionDialog for TLC. *)
EXTENDS SelectionDialog, TLC

CONSTANTS t1, t2

TwoTargets == {t1, t2}

Symmetry == Permutations(Targets)

\* Kept is SelectSeq, on every sequence of three values that is not too long.
ASSUME KeptIsSelectSeq ==
  \A n \in 0 .. 5 : \A s \in [1 .. n -> 1 .. 3], T \in SUBSET (1 .. 3) :
    Kept(s, {i \in 1 .. n : s[i] \in T}) = SelectSeq(s, LAMBDA x : x \in T)
=============================================================================
