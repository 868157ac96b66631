-------------------------- MODULE SelectionDialog --------------------------
(***************************************************************************)
(* The dialog in which the user chooses a YouTube broadcast.  The manager  *)
(* asks when a target's automatic start finds several; the question        *)
(* travels to the dock as a queued signal, waits there while another       *)
(* dialog is open, and may be out of date by the time it is answered: the  *)
(* target has reconnected, stopped, started again, or asked again.         *)
(*                                                                         *)
(* A question is [target, serial, generation].  What is chosen from is left*)
(* out.  YouTubeStart has the automatic start in full; here an operation   *)
(* of it is in flight, has asked, or has ended otherwise.                  *)
(*                                                                         *)
(* Bounds: MaxSessions sessions in all; once a session's generation is     *)
(* MaxGeneration no operation begins, no output reconnects and no answer is*)
(* taken.                                                                  *)
(***************************************************************************)
EXTENDS Naturals, FiniteSets, SequencesExt, FiniteSetsExt

CONSTANTS Targets, None, MaxSessions, MaxGeneration

Questions == [target : Targets, serial : Nat, generation : Nat]
Versions  == [serial : Nat, generation : Nat]

ASSUME DialogAssumption ==
  /\ None \notin Questions \cup Versions
  /\ MaxSessions \in Nat /\ MaxGeneration \in Nat

VARIABLES
  session,   \* of each target: [serial, phase, required, inFlight, generation]
  asked,     \* youtubeBroadcastSelectionRequired signals that are queued
  dock,      \* [latest, pending, active, posted]: the last question known of each
             \* target, those that wait, the dialog's, and a posted look at the next
  visible,
  changed,   \* a targetRuntimeChanged is queued
  dirty, scheduled   \* refreshGate_, refreshScheduled_

gate == <<visible, changed, dirty, scheduled>>
vars == <<session, asked, dock, gate>>

\* runtimeTransportIsRunning, canContinuePlatformStart
Transporting == {"starting", "sending", "reconnecting"}

Question(t) == [target |-> t, serial |-> session[t].serial, generation |-> session[t].generation]

-----------------------------------------------------------------------------
(* The dock *)

\* isYouTubeBroadcastSessionCurrent
SessionCurrent(t, serial) == session[t].serial = serial /\ session[t].phase \in Transporting

\* isYouTubeBroadcastRequestCurrent
RequestCurrent(d, q) ==
  /\ SessionCurrent(q.target, q.serial) /\ session[q.target].required
  /\ d.latest[q.target] = [serial |-> q.serial, generation |-> q.generation]

\* The places in the queue whose question is current
CurrentPlaces(d) == {n \in DOMAIN d.pending : RequestCurrent(d, d.pending[n])}

\* The elements of s at the places in I, in their order: what SelectSeq selects,
\* in a form without recursion.  Rank counts the places up to i.
Rank(i, I) == Cardinality({j \in I : j <= i})
Kept(s, I) == [n \in 1 .. Cardinality(I) |-> s[CHOOSE i \in I : Rank(i, I) = n]]

\* Faulty variant: a dialog that is open is left to the user.
DiscardedPending(d) ==
  LET known == [t \in Targets |-> IF d.latest[t] # None /\ ~SessionCurrent(t, d.latest[t].serial)
                                  THEN None ELSE d.latest[t]]
      e     == [d EXCEPT !.latest = known]
  IN [e EXCEPT !.pending = Kept(@, CurrentPlaces(e))]

\* discardStaleYouTubeBroadcastSelections; a dialog it rejects posts the next look.
Discarded(d) ==
  LET known == [t \in Targets |-> IF d.latest[t] # None /\ ~SessionCurrent(t, d.latest[t].serial)
                                  THEN None ELSE d.latest[t]]
      e     == [d EXCEPT !.latest = known]
      stale == e.active # None /\ ~RequestCurrent(e, e.active)
  IN [e EXCEPT !.pending = Kept(@, CurrentPlaces(e)),
               !.active  = IF stale THEN None ELSE @,
               !.posted  = @ \/ stale]

\* showNextYouTubeBroadcastSelection: the first that is current, and none before it is kept.
ShowNext(d) ==
  LET current == CurrentPlaces(d)
  IN CASE d.active # None                  -> d
       [] d.active = None /\ current = {}  -> [d EXCEPT !.pending = << >>]
       [] d.active = None /\ current # {}  ->
            [d EXCEPT !.active = d.pending[Min(current)],
                      !.pending = SubSeq(@, Min(current) + 1, Len(@))]

SameSession(p, q) == p.target = q.target /\ p.serial = q.serial

\* What handleYouTubeBroadcastSelection does not take up.
Outdated(d, q) ==
  LET known == d.latest[q.target]
  IN \/ ~SessionCurrent(q.target, q.serial)
     \/ known # None /\ known.serial = q.serial /\ q.generation <= known.generation

\* ... and what it does with the rest, where e knows q as the latest.
\* Faulty variant: a question that waits is not replaced by the session's next one.
TakenUpOnce(e, q) ==
  CASE e.active # None /\ SameSession(e.active, q) -> [e EXCEPT !.active = q]
    [] ~(e.active # None /\ SameSession(e.active, q)) ->
         IF \E p \in ToSet(e.pending) : SameSession(p, q)
         THEN ShowNext(e)
         ELSE ShowNext([e EXCEPT !.pending = Append(@, q)])

TakenUp(e, q) ==
  CASE e.active # None /\ SameSession(e.active, q) -> [e EXCEPT !.active = q]
    [] ~(e.active # None /\ SameSession(e.active, q)) ->
         IF \E p \in ToSet(e.pending) : SameSession(p, q)
         THEN ShowNext([e EXCEPT !.pending = [n \in DOMAIN @ |-> IF SameSession(@[n], q) THEN q ELSE @[n]]])
         ELSE ShowNext([e EXCEPT !.pending = Append(@, q)])

\* handleYouTubeBroadcastSelection
HandleYouTubeBroadcastSelection ==
  LET q == Head(asked)
      d == Discarded(dock)
  IN /\ asked # << >> /\ asked' = Tail(asked)
     /\ dock' = IF Outdated(d, q) THEN ShowNext(d)
                ELSE TakenUp([d EXCEPT !.latest[q.target] = [serial |-> q.serial, generation |-> q.generation]], q)
     /\ UNCHANGED <<session, gate>>

\* The look that a dialog's end posts; several of them do what one does.
RunPosted ==
  /\ dock.posted
  /\ dock' = ShowNext(Discarded([dock EXCEPT !.posted = FALSE]))
  /\ UNCHANGED <<session, asked, gate>>

DeliverChange ==
  /\ changed /\ changed' = FALSE
  /\ dirty' = TRUE /\ scheduled' = (scheduled \/ visible)
  /\ UNCHANGED <<session, asked, dock, visible>>

\* refresh begins with the dialog.
Refresh == dock' = ShowNext(Discarded(dock))

RunScheduled ==
  /\ scheduled /\ scheduled' = FALSE
  /\ dirty' = (dirty /\ ~visible)
  /\ IF visible /\ dirty THEN Refresh ELSE UNCHANGED dock
  /\ UNCHANGED <<session, asked, visible, changed>>

Show ==
  /\ ~visible /\ visible' = TRUE /\ dirty' = FALSE
  /\ IF dirty THEN Refresh ELSE UNCHANGED dock
  /\ UNCHANGED <<session, asked, changed, scheduled>>

Hide ==
  /\ visible /\ visible' = FALSE
  /\ UNCHANGED <<session, asked, dock, changed, dirty, scheduled>>

-----------------------------------------------------------------------------
(* The manager *)

\* Target t's status has changed.
Moves(t, s) ==
  /\ session' = [session EXCEPT ![t] = s]
  /\ changed' = TRUE
  /\ UNCHANGED <<visible, dirty, scheduled>>

Begun(s) == [s EXCEPT !.generation = @ + 1, !.inFlight = TRUE, !.required = FALSE]

\* Serials count the sessions of all targets.
LastSerial == Max({session[t].serial : t \in Targets})

Starts(t) ==
  /\ session[t].phase = "idle" /\ LastSerial < MaxSessions
  /\ Moves(t, [serial |-> LastSerial + 1, phase |-> "starting", required |-> FALSE,
               inFlight |-> FALSE, generation |-> 0])
  /\ UNCHANGED <<asked, dock>>

\* The output connects or has reconnected, and the automatic start goes on.
Connects(t) ==
  /\ session[t].phase \in {"starting", "reconnecting"}
  /\ \/ session[t].generation < MaxGeneration /\ Moves(t, [Begun(session[t]) EXCEPT !.phase = "sending"])
     \/ Moves(t, [session[t] EXCEPT !.phase = "sending", !.required = FALSE])  \* given up
  /\ UNCHANGED <<asked, dock>>

\* The status stays what it was; the operation is superseded.
Reconnects(t) ==
  /\ session[t].phase = "sending" /\ session[t].generation < MaxGeneration
  /\ Moves(t, [session[t] EXCEPT !.phase = "reconnecting", !.inFlight = FALSE, !.generation = @ + 1])
  /\ UNCHANGED <<asked, dock>>

PollBegins(t) ==
  /\ session[t].phase = "sending" /\ ~session[t].inFlight /\ ~session[t].required
  /\ session[t].generation < MaxGeneration
  /\ Moves(t, Begun(session[t]))
  /\ UNCHANGED <<asked, dock>>

\* processYouTubeBroadcastSelection finds several, or not the one that was chosen;
\* then it asks only if there is another to choose.
AsksUser(t) ==
  /\ session[t].phase = "sending" /\ session[t].inFlight
  /\ Moves(t, [session[t] EXCEPT !.inFlight = FALSE, !.required = TRUE])
  /\ asked' \in {asked, Append(asked, Question(t))}
  /\ UNCHANGED dock

EndsOtherwise(t) ==
  /\ session[t].phase = "sending" /\ session[t].inFlight
  /\ Moves(t, [session[t] EXCEPT !.inFlight = FALSE])
  /\ UNCHANGED <<asked, dock>>

\* stopTarget, or the output stops by itself.
Stops(t) ==
  /\ session[t].phase \in Transporting
  /\ Moves(t, [session[t] EXCEPT !.phase = "closing"])
  /\ UNCHANGED <<asked, dock>>

Released(t) ==
  /\ session[t].phase = "closing"
  /\ Moves(t, [session[t] EXCEPT !.phase = "idle", !.required = FALSE, !.inFlight = FALSE])
  /\ UNCHANGED <<asked, dock>>

\* Faulty variant: any question of the session will do.
AnswersSession(q) ==
  LET s == session[q.target]
  IN s.serial = q.serial /\ s.phase \in Transporting /\ ~s.inFlight

\* The guards of applyYouTubeBroadcastSelection.
AnswersQuestion(q) ==
  LET s == session[q.target]
  IN s.serial = q.serial /\ s.phase \in Transporting /\ ~s.inFlight /\ s.generation = q.generation

-----------------------------------------------------------------------------
(* The user *)

Closed == [dock EXCEPT !.active = None, !.posted = TRUE]

Cancel ==
  /\ dock.active # None
  /\ dock' = Closed
  /\ UNCHANGED <<session, asked, gate>>

\* The dialog asks whether its question is current, the manager whether it is its own.
\* Then the automatic start begins anew, or has nothing to begin with.
Accept ==
  LET q == dock.active
      s == session[q.target]
      answered == RequestCurrent(dock, q) /\ AnswersQuestion(q)
  IN /\ q # None
     /\ dock' = Closed
     /\ answered => s.generation < MaxGeneration
     /\ \/ answered /\ Moves(q.target, Begun([s EXCEPT !.generation = @ + 1]))
        \/ answered /\ Moves(q.target, [s EXCEPT !.generation = @ + 1, !.required = FALSE])
        \/ ~answered /\ UNCHANGED <<session, gate>>
     /\ UNCHANGED asked

-----------------------------------------------------------------------------
Init ==
  /\ session = [t \in Targets |-> [serial |-> 0, phase |-> "idle", required |-> FALSE,
                                   inFlight |-> FALSE, generation |-> 0]]
  /\ asked = << >>
  /\ dock = [latest |-> [t \in Targets |-> None], pending |-> << >>, active |-> None, posted |-> FALSE]
  /\ visible = FALSE /\ changed = FALSE /\ dirty = TRUE /\ scheduled = FALSE

SessionStep(t) ==
  \/ Starts(t) \/ Connects(t) \/ Reconnects(t) \/ PollBegins(t)
  \/ AsksUser(t) \/ EndsOtherwise(t) \/ Stops(t) \/ Released(t)

DockStep ==
  \/ HandleYouTubeBroadcastSelection \/ RunPosted \/ DeliverChange \/ RunScheduled
  \/ Show \/ Hide

Next == DockStep \/ Cancel \/ Accept \/ \E t \in Targets : SessionStep(t)

Spec == Init /\ [][Next]_vars

-----------------------------------------------------------------------------
(* Properties *)

Sessions ==
  [serial : 0 .. MaxSessions, phase : Transporting \cup {"idle", "closing"},
   required : BOOLEAN, inFlight : BOOLEAN, generation : Nat]

\* Types: what is asked and what the dock holds are questions, of any session.
TypeOK ==
  /\ session \in [Targets -> Sessions]
  /\ asked \in Seq(Questions)
  /\ dock \in [latest : [Targets -> Versions \cup {None}], pending : Seq(Questions),
               active : Questions \cup {None}, posted : BOOLEAN]
  /\ {visible, changed, dirty, scheduled} \subseteq BOOLEAN

\* A target that has asked goes on, while its output sends, by nothing but an answer to
\* the very question it asked last: not to an earlier one, which the dialog may still
\* show and take for current, and not to another target's
\* (isYouTubeBroadcastRequestCurrent, applyYouTubeBroadcastSelection).
OnlyItsAnswer ==
  [][\A t \in Targets :
       /\ session[t].phase = "sending" /\ session[t].required
       /\ session'[t].phase = "sending" /\ ~session'[t].required
       => dock.active = Question(t)]_vars

\* The question of each target, if it still waits for its answer.
Awaited == {Question(t) : t \in {u \in Targets : session[u].phase = "sending" /\ session[u].required}}

OnItsWay == ToSet(asked) \cup ToSet(dock.pending) \cup {dock.active}

\* A question that is awaited and on its way to the user, in the signal, in the queue or in
\* the dialog, stays so until it has been answered or dismissed: no refresh, no
\* other target's dialog and no question that comes at the same time loses it.
QuestionsAreNotLost ==
  [][\A q \in OnItsWay : q \in Awaited' => q \in OnItsWay' \/ (q = dock.active /\ (Accept \/ Cancel))]_vars

\* With no refresh or other event on its way, a dialog that a visible dock has open asks
\* for what is still awaited, and questions wait only for that dialog
\* (discardStaleYouTubeBroadcastSelections, showNextYouTubeBroadcastSelection).
DialogIsCurrent ==
  (visible /\ ~changed /\ ~scheduled /\ asked = << >>) =>
    /\ dock.active # None => RequestCurrent(dock, dock.active)
    /\ dock.active = None /\ ~dock.posted => dock.pending = << >>
=============================================================================
