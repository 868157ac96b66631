------------------------- MODULE BroadcastSelection -------------------------
(***************************************************************************)
(* selectYouTubeBroadcast: which of the listed broadcasts is the one the   *)
(* target streams to.  An entry of the list is a snapshot of a broadcast,  *)
(* [id, life, auto, stream, listing], as it was when the listing of        *)
(* upcoming or that of active broadcasts was answered.  The upcoming ones  *)
(* come first, and a broadcast is at most once in each listing: no other   *)
(* order of the list matters, and it is a set here.                        *)
(***************************************************************************)
EXTENDS Naturals, FiniteSets

CONSTANT NoBroadcast   \* no preferred broadcast, or none selected

Transitionable == {"ready", "testing", "testStarting", "liveStarting", "live"}

\* The entries that YouTube is receiving a signal for.
Active(list, receiving) == {e \in list : e.life \in Transitionable /\ e.stream \in receiving}

\* Faulty variant: the stream key is only looked at when several broadcasts
\* receive a signal.
EligibleIfAlone(list, receiving, ours, keyed) ==
  {e \in Active(list, receiving) :
     keyed /\ Cardinality(Active(list, receiving)) > 1 => e.stream \in ours}

\* ... and, when the target has a stream key, whose stream has that key.
Eligible(list, receiving, ours, keyed) ==
  {e \in Active(list, receiving) : keyed => e.stream \in ours}

WithId(list, id) == {e \in list : e.id = id}

First(list) ==
  CHOOSE e \in list : e.listing = "upcoming" \/ \A f \in list : f.listing # "upcoming"

NothingSelected == [id |-> NoBroadcast]

\* Faulty variant: the broadcast the target streams to is forgotten once it no
\* longer receives a signal.
SelectFromAny(eligible, active, keyed, preferred) ==
  CASE WithId(eligible, preferred) # {} ->
         [state |-> "selected", broadcast |-> First(WithId(eligible, preferred))]
    [] WithId(eligible, preferred) = {} /\ Cardinality(eligible) = 1 ->
         [state |-> "selected", broadcast |-> First(eligible)]
    [] OTHER -> [state |-> "none", broadcast |-> NothingSelected]

SelectFrom(eligible, active, keyed, preferred) ==
  CASE preferred # NoBroadcast /\ WithId(eligible, preferred) # {} ->
         [state |-> "selected", broadcast |-> First(WithId(eligible, preferred))]
    [] preferred # NoBroadcast /\ WithId(eligible, preferred) = {} ->
         [state |-> "unavailable", broadcast |-> NothingSelected]
    [] preferred = NoBroadcast /\ Cardinality(eligible) = 1 ->
         [state |-> "selected", broadcast |-> First(eligible)]
    [] preferred = NoBroadcast /\ Cardinality(eligible) > 1 ->
         [state |-> "multiple", broadcast |-> NothingSelected]
    [] preferred = NoBroadcast /\ eligible = {} /\ keyed /\ active # {} ->
         [state |-> "mismatch", broadcast |-> NothingSelected]
    [] OTHER -> [state |-> "none", broadcast |-> NothingSelected]

Select(list, receiving, ours, keyed, preferred) ==
  SelectFrom(Eligible(list, receiving, ours, keyed), Active(list, receiving),
             keyed, preferred)

=============================================================================
