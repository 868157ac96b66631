---------------------- MODULE StreamControlsDockProofs ----------------------
(***************************************************************************)
(* Proofs about StreamControlsDock: the dock's suppression of the next     *)
(* automatic start or stop belongs to its transition, and what a visible   *)
(* dock shows is current, for any targets, settings, numbers of            *)
(* transitions and of events that wait.                                    *)
(***************************************************************************)
EXTENDS StreamControlsDock, TLAPS

-----------------------------------------------------------------------------
(* The inductive invariant *)

StartedWaits == \E i \in DOMAIN obsEvents : obsEvents[i] = "started"

\* While the dock waits for a stop OBS streams or has an event on its way, and
\* when OBS streams while the dock waits for a start, that start is on its way.
EventIsDue ==
  transitioning =>
    /\ ~expected => ObsActive \/ obsEvents # << >>
    /\ expected /\ ObsActive => StartedWaits

RefreshIsDue == visible /\ dirty => scheduled

\* Hidden or shown, scheduled or not: a dock that is not out of date shows what
\* is the case.
ShownAsLastAsked ==
  ~dirty /\ ~changed /\ obsEvents = << >> =>
    \/ shown = Controls
    \/ transitioning /\ shown = [Controls EXCEPT !.all.enabled = FALSE]

DockInv == TypeOK /\ SuppressionIsOfTransition /\ EventIsDue /\ RefreshIsDue /\ ShownAsLastAsked

-----------------------------------------------------------------------------
(* OBS's events *)

LEMMA PostedIs ==
  ASSUME TypeOK, NEW event \in Events, PostObs(event)
  PROVE  /\ obsEvents' \in Seq(Events) /\ Len(obsEvents') <= MaxObsEvents /\ obsEvents' # << >>
         /\ StartedWaits => StartedWaits'
         /\ event = "started" => StartedWaits'
<1>1. obsEvents \in Seq(Events) /\ obsEvents' = Append(obsEvents, event) /\ Len(obsEvents) < MaxObsEvents
  BY DEF TypeOK, PostObs, Events
<1>2. /\ obsEvents' \in Seq(Events) /\ Len(obsEvents') = Len(obsEvents) + 1
      /\ \A i \in 1 .. Len(obsEvents) : obsEvents'[i] = obsEvents[i]
      /\ obsEvents'[Len(obsEvents) + 1] = event
  BY <1>1
<1>3. DOMAIN obsEvents = 1 .. Len(obsEvents) /\ DOMAIN obsEvents' = 1 .. Len(obsEvents) + 1
  BY <1>1, <1>2
<1>4. Len(obsEvents') <= MaxObsEvents
  BY <1>1, <1>2, DockAssumption
<1>5. Len(obsEvents) \in Nat /\ Len(obsEvents) + 1 \in DOMAIN obsEvents'
  BY <1>1, <1>3
<1>6. obsEvents' # << >>
  BY <1>2, <1>5
<1>7. StartedWaits => StartedWaits'
  BY <1>2, <1>3, <1>5 DEF StartedWaits
<1>8. event = "started" => StartedWaits'
  BY <1>2, <1>5 DEF StartedWaits
<1> QED BY <1>2, <1>4, <1>6, <1>7, <1>8

LEMMA HandledIs ==
  ASSUME TypeOK, obsEvents # << >>, obsEvents' = Tail(obsEvents)
  PROVE  /\ Head(obsEvents) \in Events
         /\ obsEvents' \in Seq(Events) /\ Len(obsEvents') <= MaxObsEvents
         /\ StartedWaits /\ Head(obsEvents) # "started" => StartedWaits'
<1>1. obsEvents \in Seq(Events) /\ Len(obsEvents) <= MaxObsEvents /\ Len(obsEvents) \in Nat
  BY DEF TypeOK
<1>2. /\ Head(obsEvents) = obsEvents[1] /\ Len(obsEvents) > 0
      /\ obsEvents' \in Seq(Events) /\ Len(obsEvents') = Len(obsEvents) - 1
      /\ \A i \in 1 .. Len(obsEvents) - 1 : obsEvents'[i] = obsEvents[i + 1]
  BY <1>1
<1>3. Len(obsEvents') <= MaxObsEvents /\ Head(obsEvents) \in Events
  BY <1>1, <1>2, DockAssumption
<1>4. ASSUME StartedWaits, Head(obsEvents) # "started"
      PROVE  StartedWaits'
  <2>1. PICK i \in 1 .. Len(obsEvents) : obsEvents[i] = "started"
    BY <1>1, <1>4 DEF StartedWaits
  <2>2. i - 1 \in 1 .. Len(obsEvents) - 1
    BY <1>1, <1>2, <1>4, <2>1
  <2>3. obsEvents'[i - 1] = "started" /\ i - 1 \in DOMAIN obsEvents'
    BY <1>2, <2>1, <2>2
  <2> QED BY <2>3 DEF StartedWaits
<1> QED BY <1>2, <1>3, <1>4

-----------------------------------------------------------------------------
(* What is shown *)

LEMMA ControlsAre ==
  ASSUME run' = run, ObsActive' = ObsActive, UNCHANGED <<transitioning, expected, probeReady>>
  PROVE  Controls' = Controls
<1>1. AllControl' = AllControl
  BY DEF AllControl, StartAllAllowed, CanStartNative, CanStartWithAll, BlocksStartAll, Running, Busy
<1>2. NativeRow' = NativeRow
  BY DEF NativeRow, NativeRowShown
<1> QED BY <1>1, <1>2 DEF Controls

LEMMA ControlsType ==
  /\ Controls \in Controllable
  /\ Controls.all = AllControl
<1>1. AllControl \in [stops : BOOLEAN, enabled : BOOLEAN]
  <2>1. PICK a, b : /\ a = (ObsActive \/ (transitioning /\ expected) \/ (\E t \in Targets : Running(t))
                            \/ \E t \in Targets : run[t] = "stopping")
                    /\ b = (~(transitioning /\ expected) /\ (ObsActive \/ \E t \in Targets : Running(t)))
    OBVIOUS
  <2>2. AllControl = IF a THEN [stops |-> TRUE, enabled |-> b] ELSE [stops |-> FALSE, enabled |-> StartAllAllowed]
    BY <2>1 DEF AllControl
  <2>3. a \in BOOLEAN /\ b \in BOOLEAN /\ StartAllAllowed \in BOOLEAN
    BY <2>1 DEF StartAllAllowed
  <2> QED BY <2>2, <2>3
<1>2. NativeRow \in {"none", "disabled", "enabled"}
  BY DEF NativeRow
<1> QED BY <1>1, <1>2 DEF Controls, Controllable

\* Nothing the controls depend on changes without a refresh on its way.
LEMMA SameIsShown ==
  ASSUME DockInv, run' = run, ObsActive' = ObsActive, UNCHANGED <<transitioning, expected, probeReady, shown>>,
         dirty => dirty', changed => changed' \/ dirty', obsEvents # << >> => obsEvents' # << >> \/ dirty'
  PROVE  ShownAsLastAsked'
<1>1. Controls' = Controls
  BY ControlsAre
<1>2. ShownAsLastAsked
  BY DEF DockInv
<1> QED BY <1>1, <1>2 DEF ShownAsLastAsked

LEMMA StopAllIsShown ==
  ASSUME TypeOK, shown = Controls, shown.all.enabled, shown.all.stops, \A t \in Targets : run[t] = "stopped"
  PROVE  ObsActive
<1>1. \A t \in Targets : ~Running(t)
  BY DEF Running
<1>2. AllControl.enabled /\ AllControl.stops
  BY ControlsType
<1>3. PICK a, b : /\ a = (ObsActive \/ (transitioning /\ expected) \/ (\E t \in Targets : Running(t))
                          \/ \E t \in Targets : run[t] = "stopping")
                  /\ b = (~(transitioning /\ expected) /\ (ObsActive \/ \E t \in Targets : Running(t)))
  OBVIOUS
<1>4. AllControl = IF a THEN [stops |-> TRUE, enabled |-> b] ELSE [stops |-> FALSE, enabled |-> StartAllAllowed]
  BY <1>3 DEF AllControl
<1>5. a /\ b
  BY <1>2, <1>4
<1> QED BY <1>1, <1>3, <1>5
-----------------------------------------------------------------------------
(* Parts of handlers *)

LEMMA StartTargetsIs ==
  ASSUME TypeOK, NEW S \in SUBSET Targets, StartTargets(S)
  PROVE  /\ run' \in [Targets -> RunStates] /\ changed' \in BOOLEAN
         /\ changed => changed'
         /\ run' = run \/ changed'
<1>1. PICK idle : idle = {t \in S : run[t] = "stopped"}
  OBVIOUS
<1>2. PICK how \in [idle -> {"starting", "stopped", "stopping"}] :
         run' = [t \in Targets |-> IF t \in idle THEN how[t] ELSE run[t]]
  BY <1>1 DEF StartTargets
<1>3. changed' = (changed \/ idle # {})
  BY <1>1 DEF StartTargets
<1>4. run \in [Targets -> RunStates] /\ changed \in BOOLEAN
  BY DEF TypeOK
<1>5. run' \in [Targets -> RunStates]
  BY <1>2, <1>4 DEF RunStates
<1>6. idle = {} => run' = run
  BY <1>2, <1>4
<1> QED BY <1>3, <1>4, <1>5, <1>6

LEMMA StopTargetsIs ==
  ASSUME TypeOK, NEW S \in SUBSET Targets, StopTargets(S)
  PROVE  /\ run' \in [Targets -> RunStates] /\ changed' \in BOOLEAN
         /\ changed => changed'
         /\ run' = run \/ changed'
         /\ (\E t \in S : run[t] # "stopped") => changed'
<1>1. PICK busy : busy = {t \in S : run[t] # "stopped"}
  OBVIOUS
<1>2. PICK how \in [busy -> {"stopping", "stopped"}] :
         run' = [t \in Targets |-> IF t \in busy THEN how[t] ELSE run[t]]
  BY <1>1 DEF StopTargets
<1>3. changed' = (changed \/ busy # {})
  BY <1>1 DEF StopTargets
<1>4. run \in [Targets -> RunStates] /\ changed \in BOOLEAN
  BY DEF TypeOK
<1>5. run' \in [Targets -> RunStates]
  BY <1>2, <1>4 DEF RunStates
<1>6. busy = {} => run' = run
  BY <1>2, <1>4
<1> QED BY <1>1, <1>3, <1>4, <1>5, <1>6

LEMMA ScheduleRefreshIs ==
  ASSUME TypeOK, ScheduleRefresh, visible' = visible
  PROVE  dirty' /\ dirty' \in BOOLEAN /\ scheduled' \in BOOLEAN /\ RefreshIsDue'
BY DEF ScheduleRefresh, TypeOK, RefreshIsDue

LEMMA BeginIs ==
  ASSUME TypeOK, NEW active \in BOOLEAN, BeginObsNativeTransition(active)
  PROVE  /\ transitioning' = TRUE /\ expected' = active
         /\ generation' \in Nat /\ timers' \subseteq 1 .. MaxGeneration
         /\ ScheduleRefresh
<1>1. generation \in Nat /\ generation < MaxGeneration /\ timers \subseteq 1 .. MaxGeneration
  BY DEF TypeOK, BeginObsNativeTransition
<1>2. generation + 1 \in 1 .. MaxGeneration
  BY <1>1, DockAssumption
<1> QED BY <1>1, <1>2 DEF BeginObsNativeTransition

\* A start that the dock asks for, while OBS does not stream.
LEMMA StartNativeIs ==
  ASSUME DockInv, ~transitioning, ~ObsActive, StartNative, UNCHANGED <<obsEvents, visible>>
  PROVE  /\ obs' \in {"off", "connecting", "active", "ending"} /\ suppress' \in Suppressions
         /\ transitioning' = TRUE /\ expected' = TRUE
         /\ generation' \in Nat /\ timers' \subseteq 1 .. MaxGeneration
         /\ dirty' = TRUE /\ scheduled' \in BOOLEAN /\ RefreshIsDue'
         /\ SuppressionIsOfTransition' /\ EventIsDue'
<1>1. TypeOK /\ suppress \in Suppressions /\ ~suppress.stop
      /\ obs \in {"off", "connecting", "active", "ending"}
  BY DEF DockInv, TypeOK, SuppressionIsOfTransition
<1>2. /\ transitioning' = TRUE /\ expected' = TRUE
      /\ generation' \in Nat /\ timers' \subseteq 1 .. MaxGeneration
      /\ ScheduleRefresh
  BY <1>1, BeginIs DEF StartNative
<1>3. suppress' = [suppress EXCEPT !.start = TRUE]
  BY DEF StartNative
<1>4. suppress' \in Suppressions /\ ~suppress'.stop
  BY <1>1, <1>3 DEF Suppressions
<1>5. obs' \in {"off", "connecting", "active", "ending"} /\ ~ObsActive'
  BY <1>1 DEF StartNative, ObsStart, ObsActive
<1>6. dirty' = TRUE
  BY <1>2 DEF ScheduleRefresh
<1> QED BY <1>1, <1>2, <1>4, <1>5, <1>6, ScheduleRefreshIs DEF SuppressionIsOfTransition, EventIsDue

\* A stop that it asks for, while OBS streams: a start it had asked for before
\* has its event on the way.
LEMMA StopNativeIs ==
  ASSUME DockInv, ObsActive, StopNative, UNCHANGED <<obsEvents, visible>>
  PROVE  /\ obs' \in {"off", "connecting", "active", "ending"} /\ suppress' \in Suppressions
         /\ transitioning' = TRUE /\ expected' = FALSE
         /\ generation' \in Nat /\ timers' \subseteq 1 .. MaxGeneration
         /\ dirty' = TRUE /\ scheduled' \in BOOLEAN /\ RefreshIsDue'
         /\ SuppressionIsOfTransition' /\ EventIsDue'
<1>1. TypeOK /\ suppress \in Suppressions /\ (suppress.start => StartedWaits)
  BY DEF DockInv, TypeOK, SuppressionIsOfTransition, EventIsDue, StartedWaits
<1>2. /\ transitioning' = TRUE /\ expected' = FALSE
      /\ generation' \in Nat /\ timers' \subseteq 1 .. MaxGeneration
      /\ ScheduleRefresh
  BY <1>1, BeginIs DEF StopNative
<1>3. suppress' = [suppress EXCEPT !.stop = TRUE]
  BY DEF StopNative
<1>4. suppress' \in Suppressions /\ suppress'.stop /\ suppress'.start = suppress.start
  BY <1>1, <1>3 DEF Suppressions
<1>5. obs' = "ending" /\ ObsActive'
  BY DEF StopNative, ObsStop, ObsActive
<1>6. dirty' = TRUE
  BY <1>2 DEF ScheduleRefresh
<1>7. StartedWaits' = StartedWaits
  BY DEF StartedWaits
<1> QED BY <1>1, <1>2, <1>4, <1>5, <1>6, <1>7, ScheduleRefreshIs DEF SuppressionIsOfTransition, EventIsDue, StartedWaits

-----------------------------------------------------------------------------
(* Every step *)

\* The dock's own bookkeeping, and the targets'.
LEMMA BookkeepingSteps ==
  ASSUME DockInv,
         \/ DeliverChange \/ RunScheduled \/ Show \/ Hide \/ ProbeReady
         \/ \E t \in Targets : TargetMoves(t) \/ HandleButtonClicked(t)
  PROVE  DockInv'
<1>0. TypeOK /\ SuppressionIsOfTransition /\ EventIsDue /\ RefreshIsDue /\ ShownAsLastAsked
  BY DEF DockInv
<1>1. UNCHANGED <<obs, obsEvents, suppress, native>>
  BY DEF DeliverChange, RunScheduled, Show, Hide, ProbeReady, TargetMoves, HandleButtonClicked
<1>2. SuppressionIsOfTransition' /\ EventIsDue' /\ ObsActive' = ObsActive
  BY <1>0, <1>1 DEF SuppressionIsOfTransition, EventIsDue, ObsActive, StartedWaits, native
<1>3. CASE DeliverChange
  <2>1. ScheduleRefresh /\ changed' = FALSE /\ UNCHANGED <<run, probeReady, visible, shown>>
    BY <1>3 DEF DeliverChange
  <2>2. dirty' /\ dirty' \in BOOLEAN /\ scheduled' \in BOOLEAN /\ RefreshIsDue'
    BY <1>0, <2>1, ScheduleRefreshIs
  <2>3. TypeOK'
    BY <1>0, <1>1, <2>1, <2>2 DEF TypeOK, native
  <2> QED BY <1>2, <2>2, <2>3 DEF DockInv, ShownAsLastAsked
<1>4. CASE RunScheduled \/ Show
  <2>1. UNCHANGED <<run, probeReady, changed>> /\ shown' \in {shown, Controls}
    BY <1>4 DEF RunScheduled, Show, Refresh
  <2>2. Controls' = Controls
    BY <1>1, <1>2, <2>1, ControlsAre DEF native
  <2>3. TypeOK'
    <3>1. shown' \in Controllable
      BY <1>0, <2>1, ControlsType DEF TypeOK
    <3>2. dirty' \in BOOLEAN /\ scheduled' \in BOOLEAN /\ visible' \in BOOLEAN
      BY <1>0, <1>4 DEF TypeOK, RunScheduled, Show
    <3> QED BY <1>0, <1>1, <2>1, <3>1, <3>2 DEF TypeOK, native
  <2>4. RefreshIsDue'
    BY <1>0, <1>4 DEF RefreshIsDue, RunScheduled, Show
  <2>5. ShownAsLastAsked'
    <3>1. CASE shown' = Controls
      BY <2>2, <3>1 DEF ShownAsLastAsked
    <3>2. CASE shown' = shown /\ (dirty => dirty')
      BY <1>0, <1>1, <2>1, <2>2, <3>2 DEF ShownAsLastAsked, native
    <3>3. (shown' = Controls) \/ (shown' = shown /\ (dirty => dirty'))
      BY <1>0, <1>4 DEF RunScheduled, Show, Refresh, TypeOK
    <3> QED BY <3>1, <3>2, <3>3
  <2> QED BY <1>2, <2>3, <2>4, <2>5 DEF DockInv
<1>5. CASE Hide
  <2>1. UNCHANGED <<run, probeReady, changed, gate, shown>> /\ visible' = FALSE
    BY <1>5 DEF Hide
  <2>2. TypeOK'
    <3>1. dirty' \in BOOLEAN /\ scheduled' \in BOOLEAN /\ visible' \in BOOLEAN
      BY <1>0, <2>1 DEF TypeOK, gate
    <3> QED BY <1>0, <1>1, <2>1, <3>1 DEF TypeOK, native
  <2>4. RefreshIsDue'
    BY <2>1 DEF RefreshIsDue
  <2>3. ShownAsLastAsked'
    BY <1>1, <1>2, <2>1, SameIsShown DEF native, gate
  <2> QED BY <1>2, <2>2, <2>3, <2>4 DEF DockInv
<1>6. CASE ProbeReady
  <2>1. ScheduleRefresh /\ probeReady' = TRUE /\ UNCHANGED <<run, changed, visible, shown>>
    BY <1>6 DEF ProbeReady
  <2>2. dirty' /\ dirty' \in BOOLEAN /\ scheduled' \in BOOLEAN /\ RefreshIsDue'
    BY <1>0, <2>1, ScheduleRefreshIs
  <2>3. TypeOK'
    BY <1>0, <1>1, <2>1, <2>2 DEF TypeOK, native
  <2> QED BY <1>2, <2>2, <2>3 DEF DockInv, ShownAsLastAsked
<1>7. ASSUME NEW t \in Targets, TargetMoves(t) \/ HandleButtonClicked(t)
      PROVE  DockInv'
  <2>1. UNCHANGED <<probeReady, visible, gate, shown>>
    BY <1>7 DEF TargetMoves, HandleButtonClicked
  <2>2. /\ run' \in [Targets -> RunStates] /\ changed' \in BOOLEAN
        /\ changed => changed'
        /\ run' = run \/ changed'
    <3>1. CASE TargetMoves(t)
      BY <1>0, <3>1 DEF TargetMoves, TypeOK, RunStates
    <3>2. CASE HandleButtonClicked(t)
      <4>1. {t} \in SUBSET Targets /\ (StartTargets({t}) \/ StopTargets({t}))
        BY <3>2 DEF HandleButtonClicked
      <4> QED BY <1>0, <4>1, StartTargetsIs, StopTargetsIs
    <3> QED BY <1>7, <3>1, <3>2
  <2>3. TypeOK' /\ RefreshIsDue'
    BY <1>0, <1>1, <2>1, <2>2 DEF TypeOK, native, gate, RefreshIsDue
  <2>4. ShownAsLastAsked'
    <3>1. CASE changed'
      BY <3>1 DEF ShownAsLastAsked
    <3>2. CASE run' = run
      BY <1>1, <1>2, <2>1, <2>2, <3>2, SameIsShown DEF native, gate
    <3> QED BY <2>2, <3>1, <3>2
  <2> QED BY <1>2, <2>3, <2>4 DEF DockInv
<1> QED BY <1>3, <1>4, <1>5, <1>6, <1>7
\* OBS's own steps: what changes its activity leaves an event.
LEMMA ObsSteps ==
  ASSUME DockInv, ObsStep
  PROVE  DockInv'
<1>0. TypeOK /\ SuppressionIsOfTransition /\ EventIsDue /\ RefreshIsDue /\ ShownAsLastAsked
  BY DEF DockInv
<1>1. UNCHANGED <<run, suppress, native, probeReady, visible, changed, gate, shown>>
  BY DEF ObsStep, ObsOwnButton, ObsConnects, ObsConnectFails, ObsEnds, ObsOnly
<1>2. RefreshIsDue'
  BY <1>0, <1>1 DEF RefreshIsDue, gate
<1>3. /\ run' = run /\ suppress' = suppress /\ transitioning' = transitioning /\ expected' = expected
      /\ generation' = generation /\ timers' = timers /\ probeReady' = probeReady /\ visible' = visible
      /\ changed' = changed /\ dirty' = dirty /\ scheduled' = scheduled /\ shown' = shown
  BY <1>1 DEF native, gate
<1>4. CASE ObsOwnButton
  <2>1. /\ obs' \in {"off", "connecting", "active", "ending"} /\ ObsActive' = ObsActive
        /\ obsEvents' = obsEvents
    BY <1>0, <1>4 DEF ObsOwnButton, ObsStart, ObsStop, ObsActive, TypeOK
  <2>2. TypeOK'
    BY <1>0, <1>3, <2>1 DEF TypeOK
  <2>3. SuppressionIsOfTransition' /\ EventIsDue'
    BY <1>0, <1>3, <2>1 DEF SuppressionIsOfTransition, EventIsDue, StartedWaits
  <2>4. ShownAsLastAsked'
    BY <1>3, <2>1, SameIsShown
  <2> QED BY <1>2, <2>2, <2>3, <2>4 DEF DockInv
<1>5. CASE ObsConnects \/ ObsConnectFails \/ ObsEnds
  <2>1. PICK event \in Events : /\ PostObs(event)
                                /\ obs' \in {"active", "off"} /\ (obs' = "active" => event = "started")
    BY <1>5 DEF ObsConnects, ObsConnectFails, ObsEnds, Events
  <2>2. /\ obsEvents' \in Seq(Events) /\ Len(obsEvents') <= MaxObsEvents /\ obsEvents' # << >>
        /\ StartedWaits => StartedWaits'
        /\ event = "started" => StartedWaits'
    BY <1>0, <2>1, PostedIs
  <2>3. TypeOK'
    BY <1>0, <1>3, <2>1, <2>2 DEF TypeOK
  <2>4. SuppressionIsOfTransition'
    BY <1>0, <1>3, <2>2 DEF SuppressionIsOfTransition, StartedWaits
  <2>5. EventIsDue'
    BY <1>3, <2>1, <2>2 DEF EventIsDue, ObsActive
  <2>6. ShownAsLastAsked'
    BY <2>2 DEF ShownAsLastAsked
  <2> QED BY <1>2, <2>3, <2>4, <2>5, <2>6 DEF DockInv
<1> QED BY <1>4, <1>5 DEF ObsStep

LEMMA ReloadKeeps ==
  ASSUME DockInv, ReloadForCurrentProfile
  PROVE  DockInv'
<1>0. TypeOK /\ SuppressionIsOfTransition /\ EventIsDue /\ RefreshIsDue /\ ShownAsLastAsked
  BY DEF DockInv
<1>1. /\ obs = "off" /\ obsEvents = << >> /\ run' = [t \in Targets |-> "stopped"]
      /\ suppress' = [start |-> FALSE, stop |-> FALSE] /\ changed' = TRUE
      /\ obs' = obs /\ obsEvents' = obsEvents /\ transitioning' = transitioning /\ expected' = expected
      /\ generation' = generation /\ timers' = timers /\ probeReady' = probeReady /\ visible' = visible
      /\ dirty' = dirty /\ scheduled' = scheduled /\ shown' = shown
  BY DEF ReloadForCurrentProfile, native, gate
<1>2. transitioning => expected
  BY <1>0, <1>1 DEF EventIsDue, ObsActive
<1>3. SuppressionIsOfTransition'
  BY <1>1, <1>2 DEF SuppressionIsOfTransition
<1>4. EventIsDue' /\ RefreshIsDue' /\ ShownAsLastAsked'
  BY <1>0, <1>1 DEF EventIsDue, ObsActive, StartedWaits, RefreshIsDue, ShownAsLastAsked
<1>5. run' \in [Targets -> RunStates] /\ suppress' \in Suppressions
  BY <1>1 DEF RunStates, Suppressions
<1>6. TypeOK'
  BY <1>0, <1>1, <1>5 DEF TypeOK
<1> QED BY <1>3, <1>4, <1>6 DEF DockInv

\* The buttons that start or stop OBS's stream.
LEMMA ClickKeeps ==
  ASSUME DockInv, HandleObsNativeClicked
  PROVE  DockInv'
<1>0. TypeOK
  BY DEF DockInv
<1>1. /\ ~transitioning
      /\ UNCHANGED <<run, obsEvents, probeReady, visible, changed, shown>>
  BY DEF HandleObsNativeClicked
<1>2. /\ obs' \in {"off", "connecting", "active", "ending"} /\ suppress' \in Suppressions
      /\ transitioning' = TRUE /\ expected' \in BOOLEAN
      /\ generation' \in Nat /\ timers' \subseteq 1 .. MaxGeneration
      /\ dirty' = TRUE /\ scheduled' \in BOOLEAN /\ RefreshIsDue'
      /\ SuppressionIsOfTransition' /\ EventIsDue'
  BY <1>1, StartNativeIs, StopNativeIs DEF HandleObsNativeClicked
<1>3. TypeOK'
  BY <1>0, <1>1, <1>2 DEF TypeOK
<1> QED BY <1>2, <1>3 DEF DockInv, ShownAsLastAsked

LEMMA StartEnabledKeeps ==
  ASSUME DockInv, HandleStartEnabled
  PROVE  DockInv'
<1>0. TypeOK /\ SuppressionIsOfTransition /\ EventIsDue /\ RefreshIsDue
  BY DEF DockInv
<1>1. /\ run' \in [Targets -> RunStates] /\ changed' \in BOOLEAN
      /\ changed => changed'
      /\ run' = run \/ changed'
  <2>1. {t \in Targets : CanStartWithAll(t)} \in SUBSET Targets
    OBVIOUS
  <2> QED BY <1>0, <2>1, StartTargetsIs DEF HandleStartEnabled
<1>2. UNCHANGED <<obsEvents, probeReady, visible, shown>>
  BY DEF HandleStartEnabled
<1>3. CASE CanStartNative /\ StartNative
  <2>1. /\ obs' \in {"off", "connecting", "active", "ending"} /\ suppress' \in Suppressions
        /\ transitioning' = TRUE /\ expected' = TRUE
        /\ generation' \in Nat /\ timers' \subseteq 1 .. MaxGeneration
        /\ dirty' = TRUE /\ scheduled' \in BOOLEAN /\ RefreshIsDue'
        /\ SuppressionIsOfTransition' /\ EventIsDue'
    BY <1>2, <1>3, StartNativeIs DEF CanStartNative
  <2>2. TypeOK'
    BY <1>0, <1>1, <1>2, <2>1 DEF TypeOK
  <2> QED BY <2>1, <2>2 DEF DockInv, ShownAsLastAsked
<1>4. CASE UNCHANGED <<obs, suppress, native, gate>>
  <2>1. /\ obs' = obs /\ suppress' = suppress /\ transitioning' = transitioning /\ expected' = expected
        /\ generation' = generation /\ timers' = timers /\ dirty' = dirty /\ scheduled' = scheduled
        /\ obsEvents' = obsEvents /\ probeReady' = probeReady /\ visible' = visible /\ shown' = shown
    BY <1>2, <1>4 DEF native, gate
  <2>2. TypeOK'
    BY <1>0, <1>1, <2>1 DEF TypeOK
  <2>3. ObsActive' = ObsActive
    BY <2>1 DEF ObsActive
  <2>4. SuppressionIsOfTransition' /\ EventIsDue' /\ RefreshIsDue'
    BY <1>0, <2>1, <2>3 DEF SuppressionIsOfTransition, EventIsDue, StartedWaits, RefreshIsDue
  <2>5. ShownAsLastAsked'
    <3>1. CASE changed'
      BY <3>1 DEF ShownAsLastAsked
    <3>2. CASE run' = run
      BY <1>1, <2>1, <2>3, <3>2, SameIsShown
    <3> QED BY <1>1, <3>1, <3>2
  <2> QED BY <2>2, <2>4, <2>5 DEF DockInv
<1> QED BY <1>3, <1>4 DEF HandleStartEnabled

LEMMA StopAllKeeps ==
  ASSUME DockInv, HandleStopAll
  PROVE  DockInv'
<1>0. TypeOK /\ SuppressionIsOfTransition /\ EventIsDue /\ RefreshIsDue /\ ShownAsLastAsked
  BY DEF DockInv
<1>1. /\ run' \in [Targets -> RunStates] /\ changed' \in BOOLEAN
      /\ changed => changed'
      /\ run' = run \/ changed'
      /\ (\E t \in Targets : run[t] # "stopped") => changed'
  <2>1. Targets \in SUBSET Targets
    OBVIOUS
  <2> QED BY <1>0, <2>1, StopTargetsIs DEF HandleStopAll
<1>2. /\ UNCHANGED <<obsEvents, probeReady, visible>>
      /\ shown.all.enabled /\ shown.all.stops /\ shown' = [shown EXCEPT !.all.enabled = FALSE]
  BY DEF HandleStopAll
<1>3. shown' \in Controllable
  <2>1. shown \in Controllable
    BY <1>0 DEF TypeOK
  <2> QED BY <1>2, <2>1 DEF Controllable
<1>4. CASE ObsActive /\ StopNative
  <2>1. /\ obs' \in {"off", "connecting", "active", "ending"} /\ suppress' \in Suppressions
        /\ transitioning' = TRUE /\ expected' = FALSE
        /\ generation' \in Nat /\ timers' \subseteq 1 .. MaxGeneration
        /\ dirty' = TRUE /\ scheduled' \in BOOLEAN /\ RefreshIsDue'
        /\ SuppressionIsOfTransition' /\ EventIsDue'
    BY <1>2, <1>4, StopNativeIs
  <2>2. TypeOK'
    BY <1>0, <1>1, <1>2, <1>3, <2>1 DEF TypeOK
  <2> QED BY <2>1, <2>2 DEF DockInv, ShownAsLastAsked
<1>5. CASE (ObsActive => transitioning) /\ UNCHANGED <<obs, suppress, native, gate>>
  <2>1. /\ obs' = obs /\ suppress' = suppress /\ transitioning' = transitioning /\ expected' = expected
        /\ generation' = generation /\ timers' = timers /\ dirty' = dirty /\ scheduled' = scheduled
        /\ obsEvents' = obsEvents /\ probeReady' = probeReady /\ visible' = visible
    BY <1>2, <1>5 DEF native, gate
  <2>2. TypeOK'
    BY <1>0, <1>1, <1>3, <2>1 DEF TypeOK
  <2>3. ObsActive' = ObsActive
    BY <2>1 DEF ObsActive
  <2>4. SuppressionIsOfTransition' /\ EventIsDue' /\ RefreshIsDue'
    BY <1>0, <2>1, <2>3 DEF SuppressionIsOfTransition, EventIsDue, StartedWaits, RefreshIsDue
  <2>5. ASSUME ~dirty', ~changed', obsEvents' = << >>
        PROVE  transitioning' /\ shown' = [Controls' EXCEPT !.all.enabled = FALSE]
    <3>1. run' = run /\ ~changed /\ ~dirty /\ \A t \in Targets : run[t] = "stopped"
      BY <1>1, <2>1, <2>5
    <3>2. Controls' = Controls
      BY <2>1, <2>3, <3>1, ControlsAre
    <3>3. shown # [Controls EXCEPT !.all.enabled = FALSE]
      <4>1. Controls \in Controllable
        BY ControlsType
      <4>2. [Controls EXCEPT !.all.enabled = FALSE].all.enabled = FALSE
        BY <4>1 DEF Controllable
      <4> QED BY <1>2, <4>2
    <3>4. shown = Controls
      BY <1>0, <2>1, <2>5, <3>1, <3>3 DEF ShownAsLastAsked
    <3>5. ObsActive
      BY <1>0, <1>2, <3>1, <3>4, StopAllIsShown
    <3> QED BY <1>2, <1>5, <2>1, <3>2, <3>4, <3>5
  <2>6. ShownAsLastAsked'
    BY <2>5 DEF ShownAsLastAsked
  <2> QED BY <2>2, <2>4, <2>6 DEF DockInv
<1> QED BY <1>4, <1>5 DEF HandleStopAll

LEMMA TimerKeeps ==
  ASSUME DockInv, NEW g, TimerFires(g)
  PROVE  DockInv'
<1>0. TypeOK /\ SuppressionIsOfTransition /\ EventIsDue /\ RefreshIsDue /\ ShownAsLastAsked
      /\ suppress \in Suppressions
  BY DEF DockInv, TypeOK
<1>1. /\ timers' = timers \ {g}
      /\ UNCHANGED <<run, obs, obsEvents, expected, generation, probeReady, visible, changed, shown>>
  BY DEF TimerFires
<1>2. ObsActive' = ObsActive
  BY <1>1 DEF ObsActive
<1>3. CASE transitioning /\ suppress' = Cleared(expected) /\ transitioning' = FALSE /\ ScheduleRefresh
  <2>1. dirty' /\ dirty' \in BOOLEAN /\ scheduled' \in BOOLEAN /\ RefreshIsDue'
    BY <1>0, <1>1, <1>3, ScheduleRefreshIs
  <2>2. /\ suppress' \in Suppressions /\ ~suppress'.stop
        /\ suppress'.start => suppress.start /\ ~expected
    BY <1>0, <1>3 DEF Cleared, SuppressionIsOfTransition, Suppressions
  <2>3. SuppressionIsOfTransition' /\ EventIsDue'
    BY <1>0, <1>1, <1>3, <2>2 DEF SuppressionIsOfTransition, EventIsDue
  <2>4. TypeOK'
    <3>1. timers' \subseteq 1 .. MaxGeneration /\ transitioning' \in BOOLEAN
      BY <1>0, <1>1, <1>3 DEF TypeOK
    <3>2. /\ run' = run /\ obs' = obs /\ obsEvents' = obsEvents /\ expected' = expected
          /\ generation' = generation /\ probeReady' = probeReady /\ visible' = visible
          /\ changed' = changed /\ shown' = shown
      BY <1>1
    <3> QED BY <1>0, <2>1, <2>2, <3>1, <3>2 DEF TypeOK
  <2> QED BY <2>1, <2>3, <2>4 DEF DockInv, ShownAsLastAsked
<1>4. CASE UNCHANGED <<suppress, transitioning, gate>>
  <2>1. suppress' = suppress /\ transitioning' = transitioning /\ dirty' = dirty /\ scheduled' = scheduled
    BY <1>4 DEF gate
  <2>2. TypeOK'
    BY <1>0, <1>1, <2>1 DEF TypeOK
  <2>3. SuppressionIsOfTransition' /\ EventIsDue' /\ RefreshIsDue'
    BY <1>0, <1>1, <1>2, <2>1 DEF SuppressionIsOfTransition, EventIsDue, StartedWaits, RefreshIsDue
  <2>4. ShownAsLastAsked'
    BY <1>1, <1>2, <2>1, SameIsShown
  <2> QED BY <2>2, <2>3, <2>4 DEF DockInv
<1> QED BY <1>3, <1>4 DEF TimerFires

\* An event of OBS ends the transition, whether it is the one expected or not.
LEMMA EventKeeps ==
  ASSUME DockInv, HandleObsEvent
  PROVE  DockInv'
<1>0. TypeOK /\ SuppressionIsOfTransition /\ EventIsDue /\ RefreshIsDue /\ ShownAsLastAsked
      /\ suppress \in Suppressions /\ expected \in BOOLEAN /\ generation \in Nat
  BY DEF DockInv, TypeOK
<1>1. PICK event : event = Head(obsEvents)
  OBVIOUS
<1>2. /\ obsEvents # << >> /\ obsEvents' = Tail(obsEvents)
      /\ UNCHANGED <<obs, timers, probeReady, visible, shown>>
      /\ ManagerHandles(event)
      /\ HandleObsNativeStreamingStateChanged(event = "started")
  BY <1>1 DEF HandleObsEvent
<1>3. /\ event \in Events
      /\ obsEvents' \in Seq(Events) /\ Len(obsEvents') <= MaxObsEvents
      /\ StartedWaits /\ event # "started" => StartedWaits'
  BY <1>0, <1>1, <1>2, HandledIs
<1>4. run' \in [Targets -> RunStates] /\ changed' \in BOOLEAN
  <2>1. AutoStart \in SUBSET Targets /\ AutoStop \in SUBSET Targets
    BY DockAssumption
  <2>2. UNCHANGED <<run, changed>> \/ StartTargets(AutoStart) \/ StopTargets(AutoStop)
    BY <1>2 DEF ManagerHandles
  <2>3. CASE UNCHANGED <<run, changed>>
    BY <1>0, <2>3 DEF TypeOK
  <2> QED BY <1>0, <2>1, <2>2, <2>3, StartTargetsIs, StopTargetsIs
<1>5. PICK consumed : consumed = Consumed(event)
  OBVIOUS
<1>6. /\ consumed \in Suppressions
      /\ consumed.start => suppress.start /\ event # "started"
      /\ consumed.stop => suppress.stop /\ event = "started"
  BY <1>0, <1>3, <1>5 DEF Consumed, Events, Suppressions
<1>7. /\ suppress' = IF transitioning /\ (event = "started") # expected
                     THEN [start |-> consumed.start /\ ~expected, stop |-> consumed.stop /\ expected]
                     ELSE consumed
      /\ expected' = (event = "started") /\ transitioning' = FALSE
      /\ generation' = (IF transitioning THEN generation + 1 ELSE generation) /\ ScheduleRefresh
  BY <1>1, <1>2, <1>5 DEF HandleObsNativeStreamingStateChanged
<1>8. dirty' /\ dirty' \in BOOLEAN /\ scheduled' \in BOOLEAN /\ RefreshIsDue'
  BY <1>0, <1>2, <1>7, ScheduleRefreshIs
<1>9. /\ suppress' \in Suppressions
      /\ suppress'.stop => consumed.stop
      /\ suppress'.start => consumed.start
      /\ transitioning /\ (event = "started") # expected =>
           (suppress'.start => ~expected) /\ (suppress'.stop => expected)
  BY <1>0, <1>6, <1>7 DEF Suppressions
<1>10. suppress'.stop = FALSE
  <2>1. suppress'.stop => transitioning /\ ~expected /\ event = "started"
    BY <1>0, <1>6, <1>9 DEF SuppressionIsOfTransition
  <2> QED BY <1>9, <2>1 DEF Suppressions
<1>11. suppress'.start => StartedWaits'
  <2>1. suppress'.start => suppress.start /\ event # "started"
    BY <1>6, <1>9
  <2>2. suppress'.start => ~(transitioning /\ expected)
    BY <1>9, <2>1
  <2> QED BY <1>0, <1>3, <2>1, <2>2 DEF SuppressionIsOfTransition, StartedWaits
<1>12. SuppressionIsOfTransition' /\ EventIsDue'
  BY <1>7, <1>10, <1>11 DEF SuppressionIsOfTransition, EventIsDue, StartedWaits
<1>13. TypeOK'
  <2>1. generation' \in Nat
    <3>1. generation' = generation + 1 \/ generation' = generation
      BY <1>7
    <3> QED BY <1>0, <3>1
  <2>2. expected' \in BOOLEAN /\ transitioning' \in BOOLEAN
    BY <1>7
  <2> QED BY <1>0, <1>2, <1>3, <1>4, <1>8, <1>9, <2>1, <2>2 DEF TypeOK
<1> QED BY <1>8, <1>12, <1>13 DEF DockInv, ShownAsLastAsked
LEMMA StepsKeep ==
  ASSUME DockInv, [Next]_vars
  PROVE  DockInv'
<1>1. CASE UserStep
  BY <1>1, BookkeepingSteps, ClickKeeps, StartEnabledKeeps, StopAllKeeps, ReloadKeeps DEF UserStep
<1>2. CASE ObsStep
  BY <1>2, ObsSteps
<1>3. CASE GuiStep
  BY <1>3, BookkeepingSteps, EventKeeps, TimerKeeps DEF GuiStep
<1>4. CASE \E t \in Targets : TargetMoves(t)
  BY <1>4, BookkeepingSteps
<1>5. CASE UNCHANGED vars
  <2>1. /\ run' = run /\ obs' = obs /\ obsEvents' = obsEvents /\ suppress' = suppress
        /\ transitioning' = transitioning /\ expected' = expected /\ generation' = generation /\ timers' = timers
        /\ probeReady' = probeReady /\ visible' = visible /\ changed' = changed
        /\ dirty' = dirty /\ scheduled' = scheduled /\ shown' = shown
    BY <1>5 DEF vars, native, gate
  <2>2. TypeOK /\ SuppressionIsOfTransition /\ EventIsDue /\ RefreshIsDue /\ ShownAsLastAsked
    BY DEF DockInv
  <2>3. ObsActive' = ObsActive
    BY <2>1 DEF ObsActive
  <2>4. SuppressionIsOfTransition' /\ EventIsDue' /\ RefreshIsDue'
    BY <2>1, <2>2, <2>3 DEF SuppressionIsOfTransition, EventIsDue, StartedWaits, RefreshIsDue
  <2>5. ShownAsLastAsked'
    BY <2>1, <2>3, SameIsShown
  <2>6. TypeOK'
    BY <2>1, <2>2 DEF TypeOK
  <2> QED BY <2>4, <2>5, <2>6 DEF DockInv
<1> QED BY <1>1, <1>2, <1>3, <1>4, <1>5 DEF Next

LEMMA StartsInInv ==
  ASSUME Init
  PROVE  DockInv
<1>1. /\ run \in [Targets -> RunStates]
      /\ suppress \in Suppressions /\ ~suppress.start /\ ~suppress.stop
      /\ shown \in Controllable
  BY DEF Init, RunStates, Suppressions, Controllable
<1>2. obsEvents \in Seq(Events) /\ Len(obsEvents) <= MaxObsEvents
  BY DockAssumption DEF Init
<1>3. TypeOK
  BY <1>1, <1>2 DEF Init, TypeOK
<1> QED BY <1>1, <1>3 DEF Init, DockInv, SuppressionIsOfTransition, EventIsDue, RefreshIsDue, ShownAsLastAsked

\* The dock's invariant holds in every behaviour.
THEOREM DockInvariance == Spec => []DockInv
<1>1. Init => DockInv
  BY StartsInInv
<1>2. DockInv /\ [Next]_vars => DockInv'
  BY StepsKeep
<1> QED BY <1>1, <1>2, PTL DEF Spec

\* Every variable keeps its type, OBS's queue its bound and the timers their
\* generations.
THEOREM TypeCorrect == Spec => []TypeOK
<1>1. DockInv => TypeOK
  BY DEF DockInv
<1> QED BY <1>1, DockInvariance, PTL

\* A stop of OBS's stream passes the manager by exactly while the dock waits for
\* the one it asked for, and a start only until its event is handled.
THEOREM SuppressionFollowsTransition == Spec => []SuppressionIsOfTransition
<1>1. DockInv => SuppressionIsOfTransition
  BY DEF DockInv
<1> QED BY <1>1, DockInvariance, PTL

\* A visible dock with no refresh on its way shows what is the case.
THEOREM VisibleDockIsCurrent == Spec => []ShownIsCurrent
<1>1. DockInv => ShownIsCurrent
  BY DEF DockInv, RefreshIsDue, ShownAsLastAsked, ShownIsCurrent
<1> QED BY <1>1, DockInvariance, PTL

=============================================================================
