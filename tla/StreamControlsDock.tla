------------------------ MODULE StreamControlsDock ------------------------
(***************************************************************************)
(* The dock's buttons: one per target, one for OBS's own stream, and one   *)
(* that starts or stops all.  OBS answers a start or stop of its stream    *)
(* with an event, later or never; frontendEvent hands it first to the      *)
(* manager, which starts and stops targets along with OBS, unless the dock *)
(* asked it to let the next event pass, and then to the dock.              *)
(* What the dock shows is brought up to date by refreshes that are posted. *)
(*                                                                         *)
(* A target is reduced to what the dock tells apart; OutputSessions is the *)
(* detail.  Bounds: MaxGeneration, MaxObsEvents.                           *)
(***************************************************************************)
EXTENDS Naturals, Sequences, FiniteSets

CONSTANTS
  Targets,
  WithAll,       \* enabled and startWithAll
  AutoStart,     \* enabled and autoStartWithObs
  AutoStop,      \* autoStopWithObs
  Configured,    \* OBS has a streaming service
  MaxGeneration, \* of transitions that the dock begins
  MaxObsEvents   \* that wait for the GUI thread

ASSUME DockAssumption ==
  /\ WithAll \subseteq Targets /\ AutoStart \subseteq Targets /\ AutoStop \subseteq Targets
  /\ Configured \in BOOLEAN
  /\ MaxGeneration \in Nat /\ MaxObsEvents \in Nat

VARIABLES
  run,           \* of each target: "stopped", "starting", "live", "stopping"
  obs,           \* OBS's stream: "off", "connecting", "active", "ending"
  obsEvents,     \* its events that the GUI thread has not handled
  suppress,      \* OutputManager's suppressNextObsAutoStart_ and ..AutoStop_
  transitioning, expected, generation,  \* obsNativeTransitioning_, ..ExpectedActive_, ..Generation_
  timers,        \* generations whose 15 seconds run
  probeReady,    \* obsNativeProbeReady_
  visible,
  changed,       \* a signal of the manager is queued for the dock
  dirty, scheduled,  \* refreshGate_, refreshScheduled_
  shown          \* the controls as last refreshed

native  == <<transitioning, expected, generation, timers>>
gate    == <<dirty, scheduled>>
vars    == <<run, obs, obsEvents, suppress, native, probeReady, visible, changed, gate, shown>>

ObsActive == obs \in {"active", "ending"}

-----------------------------------------------------------------------------
(* stream-controls-state.hpp *)

Busy(t)    == run[t] \in {"starting", "stopping"}
Running(t) == run[t] \in {"starting", "live"}

CanStartWithAll(t) == t \in WithAll /\ ~Running(t) /\ ~Busy(t)
BlocksStartAll(t)  == t \in WithAll /\ Busy(t)

NativeRowShown == ObsActive \/ transitioning \/ (probeReady /\ Configured)
CanStartNative == probeReady /\ Configured /\ ~ObsActive /\ ~transitioning

StartAllAllowed ==
  /\ \A t \in Targets : ~BlocksStartAll(t)
  /\ CanStartNative \/ \E t \in Targets : CanStartWithAll(t)

\* allControlState
AllControl ==
  LET startingNative == transitioning /\ expected
      someRunning    == \E t \in Targets : Running(t)
  IN IF ObsActive \/ startingNative \/ someRunning \/ \E t \in Targets : run[t] = "stopping"
     THEN [stops |-> TRUE, enabled |-> ~startingNative /\ (ObsActive \/ someRunning)]
     ELSE [stops |-> FALSE, enabled |-> StartAllAllowed]

NativeRow == IF ~NativeRowShown THEN "none" ELSE IF transitioning THEN "disabled" ELSE "enabled"

Controls == [all |-> AllControl, native |-> NativeRow]

-----------------------------------------------------------------------------
(* Refreshing *)

\* Faulty variant: a dock that is hidden does not note that it is out of date.
ScheduleRefreshIfVisible ==
  dirty' = (dirty \/ visible) /\ scheduled' = (scheduled \/ visible)

ScheduleRefresh == dirty' = TRUE /\ scheduled' = (scheduled \/ visible)

Refresh == shown' = Controls

\* The manager's queued targetsChanged or targetRuntimeChanged; several of them
\* with nothing in between do what one does.
DeliverChange ==
  /\ changed /\ changed' = FALSE
  /\ ScheduleRefresh
  /\ UNCHANGED <<run, obs, obsEvents, suppress, native, probeReady, visible, shown>>

RunScheduled ==
  /\ scheduled /\ scheduled' = FALSE
  /\ dirty' = (dirty /\ ~visible)
  /\ IF visible /\ dirty THEN Refresh ELSE UNCHANGED shown
  /\ UNCHANGED <<run, obs, obsEvents, suppress, native, probeReady, visible, changed>>

Show ==
  /\ ~visible /\ visible' = TRUE
  /\ dirty' = FALSE
  /\ IF dirty THEN Refresh ELSE UNCHANGED shown
  /\ UNCHANGED <<run, obs, obsEvents, suppress, native, probeReady, changed, scheduled>>

Hide ==
  /\ visible /\ visible' = FALSE
  /\ UNCHANGED <<run, obs, obsEvents, suppress, native, probeReady, changed, gate, shown>>

ProbeReady ==
  /\ ~probeReady /\ probeReady' = TRUE
  /\ ScheduleRefresh
  /\ UNCHANGED <<run, obs, obsEvents, suppress, native, visible, changed, shown>>

-----------------------------------------------------------------------------
(* OutputManager *)

\* startTarget on each of S: one whose session still ends is only marked Stopping.
StartTargets(S) ==
  LET idle == {t \in S : run[t] = "stopped"}
  IN /\ \E how \in [idle -> {"starting", "stopped", "stopping"}] :
           run' = [t \in Targets |-> IF t \in idle THEN how[t] ELSE run[t]]
     /\ changed' = (changed \/ idle # {})

\* stopTarget on each of S
StopTargets(S) ==
  LET busy == {t \in S : run[t] # "stopped"}
  IN /\ \E how \in [busy -> {"stopping", "stopped"}] :
           run' = [t \in Targets |-> IF t \in busy THEN how[t] ELSE run[t]]
     /\ changed' = (changed \/ busy # {})

\* An output connects, fails, ends or is released.
TargetMoves(t) ==
  /\ \/ run[t] = "starting" /\ \E s \in {"live", "stopped"} : run' = [run EXCEPT ![t] = s]
     \/ run[t] \in {"live", "stopping"} /\ run' = [run EXCEPT ![t] = "stopped"]
  /\ changed' = TRUE
  /\ UNCHANGED <<obs, obsEvents, suppress, native, probeReady, visible, gate, shown>>

\* handleObsStreamingStarted, handleObsStreamingStopped
ManagerHandles(event) ==
  IF event = "started"
  THEN IF suppress.start THEN UNCHANGED <<run, changed>> ELSE StartTargets(AutoStart)
  ELSE IF suppress.stop THEN UNCHANGED <<run, changed>> ELSE StopTargets(AutoStop)

\* shouldSuppressObsAutoStart, shouldSuppressObsAutoStop: the flag is for one event.
Consumed(event) ==
  IF event = "started" THEN [suppress EXCEPT !.start = FALSE] ELSE [suppress EXCEPT !.stop = FALSE]

\* reloadForCurrentProfile; OBS changes profiles only while it does not stream.
ReloadForCurrentProfile ==
  /\ obs = "off" /\ obsEvents = << >>
  /\ run' = [t \in Targets |-> "stopped"]
  /\ suppress' = [start |-> FALSE, stop |-> FALSE]
  /\ changed' = TRUE
  /\ UNCHANGED <<obs, obsEvents, native, probeReady, visible, gate, shown>>

-----------------------------------------------------------------------------
(* OBS's stream *)

ObsOnly == UNCHANGED <<run, suppress, native, probeReady, visible, changed, gate, shown>>

PostObs(event) ==
  /\ Len(obsEvents) < MaxObsEvents
  /\ obsEvents' = Append(obsEvents, event)

\* obs_frontend_streaming_start may refuse, and says nothing then.
ObsStart == obs' \in (IF obs = "off" THEN {"off", "connecting"} ELSE {obs})

\* obs_frontend_streaming_stop
ObsStop == obs' = (IF ObsActive THEN "ending" ELSE obs)

ObsOwnButton == (ObsStart \/ ObsStop) /\ ObsOnly /\ UNCHANGED obsEvents

ObsConnects      == obs = "connecting" /\ obs' = "active" /\ PostObs("started") /\ ObsOnly
ObsConnectFails  == obs = "connecting" /\ obs' = "off" /\ PostObs("stopped") /\ ObsOnly
ObsEnds          == ObsActive /\ obs' = "off" /\ PostObs("stopped") /\ ObsOnly

-----------------------------------------------------------------------------
(* The dock's handlers *)

Cleared(active) == IF active THEN [suppress EXCEPT !.start = FALSE] ELSE [suppress EXCEPT !.stop = FALSE]

\* Faulty variant: the timer is set for the transition before.
BeginWithOldTimer(active) ==
  /\ generation < MaxGeneration
  /\ transitioning' = TRUE /\ expected' = active
  /\ generation' = generation + 1
  /\ timers' = timers \cup {generation}
  /\ ScheduleRefresh

BeginObsNativeTransition(active) ==
  /\ generation < MaxGeneration
  /\ transitioning' = TRUE /\ expected' = active
  /\ generation' = generation + 1
  /\ timers' = timers \cup {generation + 1}
  /\ ScheduleRefresh

StartNative ==
  BeginObsNativeTransition(TRUE) /\ suppress' = [suppress EXCEPT !.start = TRUE] /\ ObsStart
StopNative ==
  BeginObsNativeTransition(FALSE) /\ suppress' = [suppress EXCEPT !.stop = TRUE] /\ ObsStop

HandleObsNativeClicked ==
  /\ visible /\ shown.native = "enabled" /\ ~transitioning
  /\ IF ObsActive THEN StopNative ELSE StartNative
  /\ UNCHANGED <<run, obsEvents, probeReady, visible, changed, shown>>

HandleButtonClicked(t) ==
  /\ visible /\ run[t] # "stopping"
  /\ IF Running(t) THEN StopTargets({t}) ELSE StartTargets({t})
  /\ UNCHANGED <<obs, obsEvents, suppress, native, probeReady, visible, gate, shown>>

HandleStartEnabled ==
  /\ visible /\ shown.all.enabled /\ ~shown.all.stops
  /\ StartAllAllowed
  /\ StartTargets({t \in Targets : CanStartWithAll(t)})
  /\ IF CanStartNative THEN StartNative ELSE UNCHANGED <<obs, suppress, native, gate>>
  /\ UNCHANGED <<obsEvents, probeReady, visible, shown>>

HandleStopAll ==
  LET stopPending == transitioning /\ ~expected
  IN /\ visible /\ shown.all.enabled /\ shown.all.stops
     /\ shown' = [shown EXCEPT !.all.enabled = FALSE]
     /\ StopTargets(Targets)
     /\ IF ObsActive /\ ~stopPending THEN StopNative ELSE UNCHANGED <<obs, suppress, native, gate>>
     /\ UNCHANGED <<obsEvents, probeReady, visible>>

\* Faulty variant: it only ends the transition that it expected.
HandleOnlyExpected(active) ==
  /\ expected' = active
  /\ transitioning' = FALSE
  /\ generation' = IF transitioning THEN generation + 1 ELSE generation
  /\ suppress' = Consumed(Head(obsEvents))
  /\ ScheduleRefresh

\* handleObsNativeStreamingStateChanged
HandleObsNativeStreamingStateChanged(active) ==
  LET consumed == Consumed(Head(obsEvents))
  IN /\ suppress' = IF transitioning /\ active # expected
                    THEN [start |-> consumed.start /\ ~expected, stop |-> consumed.stop /\ expected]
                    ELSE consumed
     /\ expected' = active
     /\ transitioning' = FALSE
     /\ generation' = IF transitioning THEN generation + 1 ELSE generation
     /\ ScheduleRefresh

\* frontendEvent: the manager, then the dock
HandleObsEvent ==
  /\ obsEvents # << >> /\ obsEvents' = Tail(obsEvents)
  /\ ManagerHandles(Head(obsEvents))
  /\ HandleObsNativeStreamingStateChanged(Head(obsEvents) = "started")
  /\ UNCHANGED <<obs, timers, probeReady, visible, shown>>

TimerFires(g) ==
  /\ g \in timers /\ timers' = timers \ {g}
  /\ IF transitioning /\ generation = g
     THEN suppress' = Cleared(expected) /\ transitioning' = FALSE /\ ScheduleRefresh
     ELSE UNCHANGED <<suppress, transitioning, gate>>
  /\ UNCHANGED <<run, obs, obsEvents, expected, generation, probeReady, visible, changed, shown>>

-----------------------------------------------------------------------------
Init ==
  /\ run = [t \in Targets |-> "stopped"]
  /\ obs = "off" /\ obsEvents = << >>
  /\ suppress = [start |-> FALSE, stop |-> FALSE]
  /\ transitioning = FALSE /\ expected = FALSE /\ generation = 0 /\ timers = {}
  /\ probeReady = FALSE /\ visible = FALSE
  /\ changed = FALSE /\ dirty = TRUE /\ scheduled = FALSE
  /\ shown = [all |-> [stops |-> FALSE, enabled |-> TRUE], native |-> "none"]

UserStep ==
  \/ Show \/ Hide
  \/ HandleObsNativeClicked \/ HandleStartEnabled \/ HandleStopAll
  \/ \E t \in Targets : HandleButtonClicked(t)
  \/ ReloadForCurrentProfile

ObsStep == ObsOwnButton \/ ObsConnects \/ ObsConnectFails \/ ObsEnds

GuiStep ==
  \/ DeliverChange \/ RunScheduled \/ ProbeReady \/ HandleObsEvent
  \/ \E g \in 1 .. MaxGeneration : TimerFires(g)

Next == UserStep \/ ObsStep \/ GuiStep \/ \E t \in Targets : TargetMoves(t)

Spec == Init /\ [][Next]_vars

\* The GUI thread handles what is posted to it, and its timers fire.
FairSpec ==
  /\ Spec
  /\ WF_vars(DeliverChange) /\ WF_vars(RunScheduled) /\ WF_vars(HandleObsEvent)
  /\ \A g \in 1 .. MaxGeneration : WF_vars(TimerFires(g))

-----------------------------------------------------------------------------
RunStates    == {"stopped", "starting", "live", "stopping"}
Events       == {"started", "stopped"}
Suppressions == [start : BOOLEAN, stop : BOOLEAN]
Controllable == [all : [stops : BOOLEAN, enabled : BOOLEAN], native : {"none", "disabled", "enabled"}]

\* Every variable has its type.
TypeOK ==
  /\ run \in [Targets -> RunStates]
  /\ obs \in {"off", "connecting", "active", "ending"}
  /\ obsEvents \in Seq(Events) /\ Len(obsEvents) <= MaxObsEvents
  /\ suppress \in Suppressions
  /\ transitioning \in BOOLEAN /\ expected \in BOOLEAN
  /\ generation \in Nat /\ timers \subseteq 1 .. MaxGeneration
  /\ probeReady \in BOOLEAN /\ visible \in BOOLEAN /\ changed \in BOOLEAN
  /\ dirty \in BOOLEAN /\ scheduled \in BOOLEAN
  /\ shown \in Controllable

\* The manager lets a stop of OBS's stream pass exactly while the dock waits for the
\* stop that it asked for, and a start only while the dock waits for one or the
\* event of one is still to come: a suppression neither outlives its
\* transition nor is lost before it (OutputManager::suppressNextObsAutoStart,
\* beginObsNativeTransition and its timer, handleObsNativeStreamingStateChanged).
SuppressionIsOfTransition ==
  /\ suppress.stop <=> (transitioning /\ ~expected)
  /\ suppress.start =>
       (transitioning /\ expected) \/ \E i \in DOMAIN obsEvents : obsEvents[i] = "started"

\* A visible dock with no refresh on its way shows what is the case: no handler
\* changes what the controls depend on without asking for a refresh, and none that
\* was asked for is lost when the dock is hidden and shown (scheduleRefresh,
\* VisibleRefreshGate).  Stop All disables its button at once, and the button may
\* stay disabled while a transition lasts.
ShownIsCurrent ==
  (visible /\ ~scheduled /\ ~changed /\ obsEvents = << >>) =>
    /\ ~dirty
    /\ \/ shown = Controls
       \/ transitioning /\ shown = [Controls EXCEPT !.all.enabled = FALSE]

\* Starting and stopping OBS's stream never leaves the dock waiting for good,
\* whether OBS answers, refuses or answers something else (the 15-second timer of
\* beginObsNativeTransition).
TransitionEnds == transitioning ~> ~transitioning
=============================================================================
