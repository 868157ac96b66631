--------------------------- MODULE OutputSessions ---------------------------
(***************************************************************************)
(* The output manager's sessions: a target is started, its OBS output      *)
(* connects, sends, reconnects, stops by itself or on request, and the     *)
(* session that owns the output is released once OBS reports the output    *)
(* inactive.  All handlers run on the GUI thread, so each is one action.   *)
(* OBS's threads only post signals, which wait in the GUI thread's event   *)
(* queue and may be handled long after the session they name has gone.     *)
(* Once prepareForUnload has run no row of the UI is left to call the       *)
(* operations, so they are guarded by ~shuttingDown.                       *)
(*                                                                         *)
(* Bounds: MaxSerial sessions are started, and OBS opens or reopens a      *)
(* connection only while fewer than MaxSignals signals wait.               *)
(***************************************************************************)
EXTENDS Naturals, Sequences

CONSTANTS
  Ids,               \* ids a target may have
  NoTarget,          \* the id of no target
  Kinds,             \* what targets need from OBS's scenes: "program" or "scene"
  Profiles,          \* OBS profiles, each with a settings file of its own
  MaxSerial,         \* bound on the serials given out
  MaxSignals,        \* bound on the signals that wait while OBS connects
  ReleasePollLimit   \* polls of an active output before it is force-stopped

ASSUME SessionsAssumption ==
  /\ NoTarget \notin Ids
  /\ Kinds \subseteq {"program", "scene"}
  /\ Profiles # {}
  /\ MaxSerial \in Nat /\ MaxSignals \in Nat
  /\ ReleasePollLimit \in Nat \ {0}

Serials == 1 .. MaxSerial

\* A target sends the program video or, "scene", a canvas that holds one of
\* OBS's scenes.  An absent target has no kind.
Absent == "absent"

States     == {"Stopped", "Starting", "Live", "Stopping", "Error"}
Running    == {"Starting", "Connected", "Active", "Reconnecting"}
Transports == Running \cup {"Idle", "Stopping", "Failed"}

NoStatus  == [sessionSerial |-> 0, transport |-> "Idle"]
NoSession == [targetId |-> NoTarget, kind |-> Absent,
              pendingRelease |-> FALSE, releasePolls |-> 0]
NoOutput  == [phase |-> "none", stop |-> "no"]

VARIABLES
  config,            \* targets_: the kind of each target, Absent if there is none
  runtimeTargetIds,  \* targets that are never saved
  state,             \* OutputTarget::state
  runtime,           \* runtimeStatuses_
  session,           \* sessions_, by serial
  nextSessionSerial,
  pendingPersistentRemovalIds,
  pendingRuntimeRemovalIds,
  shuttingDown,
  timers,            \* one-second release timers armed, by the serial they carry
  stored,            \* the targets in each profile's settings file
  profile,           \* OBS's current profile
  loadedProfile,     \* the profile whose settings are loaded
  output,            \* OBS: the output of each session and how it was told to stop
  queue              \* signals posted to the GUI thread, oldest first

targetVars  == <<config, runtimeTargetIds, pendingPersistentRemovalIds,
                 pendingRuntimeRemovalIds, stored>>
profileVars == <<profile, loadedProfile>>
vars == <<targetVars, profileVars, state, runtime, session, nextSessionSerial,
          shuttingDown, timers, output, queue>>

-----------------------------------------------------------------------------
(* Lookups *)

Targets     == {t \in Ids : config[t] # Absent}
Sessions    == {s \in Serials : session[s].targetId # NoTarget}
SessionsOf(t) == {s \in Serials : session[s].targetId = t}
HasSession(t) == SessionsOf(t) # {}

\* Serial 0 names no session and matches any.
SessionMatches(t, serial) == serial = 0 \/ serial \in SessionsOf(t)

RemovalPending(t) ==
  t \in pendingPersistentRemovalIds \cup pendingRuntimeRemovalIds

\* runtimeHasSession || runtimeTransportIsBusy
RuntimeInUse(t) ==
  \/ runtime[t].sessionSerial # 0 /\ runtime[t].transport \notin {"Idle", "Failed"}
  \/ runtime[t].transport \in {"Starting", "Stopping"}

\* obs_output_active: also while reconnecting, and after "stop" was
\* signalled until the capture thread has ended.
OutputActive(s) == output[s].phase \in {"active", "reconnecting", "ending"}

-----------------------------------------------------------------------------
(* Parts of handlers *)

\* The runtime statuses rt after setRuntimeTransport(t, serial, transport).
SetRuntimeTransport(rt, t, serial, transport) ==
  IF SessionMatches(t, serial)
    THEN [rt EXCEPT ![t] = [sessionSerial |-> serial, transport |-> transport]]
    ELSE rt

\* What save() leaves in the files when the targets are c.  It writes where
\* OBS's current profile has its settings and leaves runtime targets out.
Saved(c) ==
  [stored EXCEPT ![profile] =
     [t \in Ids |-> IF t \in runtimeTargetIds THEN Absent ELSE c[t]]]

\* Faulty variant: save() without that check.
SaveAlways == TRUE

\* save() refuses to write once OBS has switched to another profile.
SaveAllowed == profile = loadedProfile

\* A change of one target that is kept only if it could be saved.
Edited(t, kind) ==
  /\ SaveAllowed
  /\ config' = [config EXCEPT ![t] = kind]
  /\ stored' = Saved([config EXCEPT ![t] = kind])
  /\ UNCHANGED <<runtimeTargetIds, pendingPersistentRemovalIds,
                 pendingRuntimeRemovalIds, profileVars, state, runtime, session,
                 nextSessionSerial, shuttingDown, timers, output, queue>>

Post(q, s, name) == Append(q, [serial |-> s, name |-> name])

\* Faulty variant: a forced stop that asks a second time.
StoppedGracefully(s, how) == [output[s] EXCEPT !.stop = "asked"]

\* obs_output_stop and obs_output_force_stop signal "stopping" the first
\* time the output is told to stop.
Stopped(s, how)     == [output[s] EXCEPT !.stop = how]
PostStopping(q, s)  == IF output[s].stop = "no" THEN Post(q, s, "stopping") ELSE q

\* Faulty variant: the next look is forgotten.
ForgetReleaseTimer(tm, s) == tm

\* QTimer::singleShot for a session's next look at its output.
ArmReleaseTimer(tm, s) == [tm EXCEPT ![s] = @ + 1]

\* finalizeTargetRemoval once the target has no session.
TargetRemoved(t) ==
  /\ t \in runtimeTargetIds \/ SaveAllowed
  /\ config' = [config EXCEPT ![t] = Absent]
  /\ stored' = IF t \in runtimeTargetIds THEN stored
                                         ELSE Saved([config EXCEPT ![t] = Absent])
  /\ runtimeTargetIds' = runtimeTargetIds \ {t}
  /\ pendingPersistentRemovalIds' = pendingPersistentRemovalIds \ {t}
  /\ pendingRuntimeRemovalIds' = pendingRuntimeRemovalIds \ {t}

\* Faulty variant: a failed save that is not rolled back.
TargetDroppedUnsaved(t) ==
  /\ t \notin runtimeTargetIds
  /\ config' = [config EXCEPT ![t] = Absent]
  /\ pendingPersistentRemovalIds' = pendingPersistentRemovalIds \ {t}
  /\ UNCHANGED <<stored, runtimeTargetIds, pendingRuntimeRemovalIds>>

\* ... when the settings could not be saved the target stays.
TargetKept(t) ==
  /\ t \notin runtimeTargetIds
  /\ pendingPersistentRemovalIds' = pendingPersistentRemovalIds \ {t}
  /\ UNCHANGED <<config, stored, runtimeTargetIds, pendingRuntimeRemovalIds>>

\* Faulty variant: a target left as it is.
LeftStopping(t, st, rt) == state' = st /\ runtime' = rt

\* The end of releaseSession: a target whose session is gone and that is
\* still marked Stopping becomes Stopped.
Settled(t, st, rt) ==
  IF st[t] = "Stopping"
    THEN /\ state' = [st EXCEPT ![t] = "Stopped"]
         /\ runtime' = [rt EXCEPT ![t] = NoStatus]
    ELSE /\ state' = st
         /\ runtime' = rt

\* releaseSession(s, requestStop = FALSE): poll while OBS still reports the
\* output active, release it otherwise.  st, rt, tm and q are the states,
\* statuses, timers and queue as the caller left them.
ReleaseSession(s, st, rt, tm, q) ==
  LET t == session[s].targetId
      polls == session[s].releasePolls + 1
      force == polls >= ReleasePollLimit
  IN
  \/ /\ OutputActive(s)
     /\ session' = [session EXCEPT ![s].releasePolls = IF force THEN 0 ELSE polls]
     /\ output' = IF force THEN [output EXCEPT ![s] = Stopped(s, "forced")] ELSE output
     /\ queue' = IF force THEN PostStopping(q, s) ELSE q
     /\ timers' = ArmReleaseTimer(tm, s)
     /\ state' = st
     /\ runtime' = rt
     /\ UNCHANGED targetVars
  \/ /\ ~OutputActive(s)
     /\ session' = [session EXCEPT ![s] = NoSession]
     /\ output' = [output EXCEPT ![s] = NoOutput]
     /\ queue' = q
     /\ timers' = tm
     /\ \/ /\ RemovalPending(t)
           /\ TargetRemoved(t)
           /\ state' = [st EXCEPT ![t] = "Stopped"]
           /\ runtime' = [rt EXCEPT ![t] = NoStatus]
        \/ /\ RemovalPending(t)
           /\ TargetKept(t)
           /\ Settled(t, st, rt)
        \/ /\ ~RemovalPending(t)
           /\ Settled(t, st, rt)
           /\ UNCHANGED targetVars

\* stopTarget(t) while t has session s: releaseSession(s, requestStop = TRUE)
\* asks OBS to stop once and arms the first release timer.
StopSession(t, s) ==
  /\ state' = [state EXCEPT ![t] = "Stopping"]
  /\ runtime' = SetRuntimeTransport(runtime, t, runtime[t].sessionSerial, "Stopping")
  /\ IF session[s].pendingRelease
       THEN UNCHANGED <<session, output, queue, timers>>
       ELSE /\ session' = [session EXCEPT ![s].pendingRelease = TRUE,
                                          ![s].releasePolls = 0]
            /\ output' = [output EXCEPT ![s] = Stopped(s, "asked")]
            /\ queue' = PostStopping(queue, s)
            /\ timers' = ArmReleaseTimer(timers, s)

-----------------------------------------------------------------------------
(* Operations of the GUI thread *)

AddTarget(t, kind) == ~shuttingDown /\ config[t] = Absent /\ Edited(t, kind)

\* addRuntimeTarget: never saved.
AddRuntimeTarget(t, kind) ==
  /\ ~shuttingDown /\ config[t] = Absent
  /\ config' = [config EXCEPT ![t] = kind]
  /\ runtimeTargetIds' = runtimeTargetIds \cup {t}
  /\ UNCHANGED <<stored, pendingPersistentRemovalIds, pendingRuntimeRemovalIds,
                 profileVars, state, runtime, session, nextSessionSerial,
                 shuttingDown, timers, output, queue>>

MutateTargetForUi(t, kind) ==
  /\ ~shuttingDown /\ t \in Targets
  /\ ~RemovalPending(t) /\ ~HasSession(t) /\ ~RuntimeInUse(t)
  /\ Edited(t, kind)

\* Faulty variant: a scene mode edited while the target has a session.
SetTargetSceneModeLive(t, kind) == ~shuttingDown /\ t \in Targets /\ Edited(t, kind)

\* setTargetSceneMode looks at the session only.
SetTargetSceneMode(t, kind) ==
  /\ ~shuttingDown /\ t \in Targets /\ ~HasSession(t)
  /\ Edited(t, kind)

\* startTarget, after its guards, when a stop is still in progress.
StartRefused(t) ==
  /\ ~shuttingDown /\ t \in Targets
  /\ runtime[t].transport \notin Running /\ state[t] \notin {"Live", "Starting"}
  /\ runtime[t].transport = "Stopping" \/ HasSession(t)
  /\ state' = [state EXCEPT ![t] = "Stopping"]
  /\ runtime' = SetRuntimeTransport(runtime, t, runtime[t].sessionSerial, "Stopping")
  /\ UNCHANGED <<targetVars, profileVars, session, nextSessionSerial,
                 shuttingDown, timers, output, queue>>

\* Faulty variant: trusts the status to say whether there is a session.
MayStartByStatus(t) ==
  /\ ~shuttingDown /\ t \in Targets
  /\ runtime[t].transport \notin Running \cup {"Stopping"}
  /\ state[t] \notin {"Live", "Starting"}

MayStart(t) ==
  /\ ~shuttingDown /\ t \in Targets
  /\ runtime[t].transport \notin Running /\ state[t] \notin {"Live", "Starting"}
  /\ runtime[t].transport # "Stopping" /\ ~HasSession(t)

\* The secrets, the configuration, the video, the service, the output, an
\* encoder or OBS itself refuses: setTargetError.  A serial is used up once
\* startIndependentTarget is reached.
StartFails(t) ==
  /\ MayStart(t)
  /\ nextSessionSerial' \in {nextSessionSerial, nextSessionSerial + 1}
  /\ nextSessionSerial' <= MaxSerial + 1
  /\ state' = [state EXCEPT ![t] = "Error"]
  /\ runtime' = [runtime EXCEPT ![t] = [sessionSerial |-> 0, transport |-> "Failed"]]
  /\ UNCHANGED <<targetVars, profileVars, session, shuttingDown, timers, output, queue>>

\* OBS accepts the output, which signals "starting".
StartIndependentTarget(t) ==
  LET s == nextSessionSerial IN
  /\ MayStart(t) /\ s <= MaxSerial
  /\ nextSessionSerial' = s + 1
  /\ session' = [session EXCEPT ![s] = [targetId |-> t, kind |-> config[t],
                                        pendingRelease |-> FALSE, releasePolls |-> 0]]
  /\ state' = [state EXCEPT ![t] = "Starting"]
  /\ runtime' = [runtime EXCEPT ![t] = [sessionSerial |-> s, transport |-> "Starting"]]
  /\ output' = [output EXCEPT ![s] = [phase |-> "connecting", stop |-> "no"]]
  /\ queue' = Post(queue, s, "starting")
  /\ UNCHANGED <<targetVars, profileVars, shuttingDown, timers>>

StartTarget(t) == StartRefused(t) \/ StartFails(t) \/ StartIndependentTarget(t)

\* stopTarget.  Without a session it only clears the state, and saves.
StopTarget(t) ==
  /\ ~shuttingDown /\ t \in Targets
  /\ \/ \E s \in SessionsOf(t) : StopSession(t, s) /\ UNCHANGED targetVars
     \/ /\ ~HasSession(t)
        /\ ~(runtime[t].transport = "Idle" /\ state[t] = "Stopped")
        /\ state' = [state EXCEPT ![t] = "Stopped"]
        /\ runtime' = [runtime EXCEPT ![t] = NoStatus]
        /\ \/ UNCHANGED stored
           \/ t \notin runtimeTargetIds /\ SaveAllowed /\ stored' = Saved(config)
        /\ UNCHANGED <<config, runtimeTargetIds, pendingPersistentRemovalIds,
                       pendingRuntimeRemovalIds, session, output, queue, timers>>
  /\ UNCHANGED <<profileVars, nextSessionSerial, shuttingDown>>

\* removeTarget and removeRuntimeTarget: a target with a session is stopped
\* first and removed when the session is released.
RemoveTarget(t) ==
  /\ ~shuttingDown /\ t \in Targets /\ ~RemovalPending(t)
  /\ \/ \E s \in SessionsOf(t) :
          /\ StopSession(t, s)
          /\ IF t \in runtimeTargetIds
               THEN /\ pendingRuntimeRemovalIds' = pendingRuntimeRemovalIds \cup {t}
                    /\ UNCHANGED pendingPersistentRemovalIds
               ELSE /\ pendingPersistentRemovalIds' = pendingPersistentRemovalIds \cup {t}
                    /\ UNCHANGED pendingRuntimeRemovalIds
          /\ UNCHANGED <<config, stored, runtimeTargetIds>>
     \/ /\ ~HasSession(t)
        /\ TargetRemoved(t)
        /\ state' = [state EXCEPT ![t] = "Stopped"]
        /\ runtime' = [runtime EXCEPT ![t] = NoStatus]
        /\ UNCHANGED <<session, output, queue, timers>>
  /\ UNCHANGED <<profileVars, nextSessionSerial, shuttingDown>>

-----------------------------------------------------------------------------
(* Queued signals and timers *)

\* What handleOutputSignal makes of a signal.
SignalState(name) ==
  CASE name = "starting" -> "Starting"
    [] name = "stopping" -> "Stopping"
    [] OTHER -> "Live"
SignalTransport(name) ==
  CASE name = "starting" -> "Starting"
    [] name = "stopping" -> "Stopping"
    [] name = "activate" -> "Active"
    [] name = "reconnect" -> "Reconnecting"
    [] OTHER -> "Connected"     \* start, reconnect_success

StopNames == {"stop", "stop_error"}

\* Faulty variants: signals that a stop has overtaken are handled, all of them
\* or those of a reconnect.
SignalIgnoredIfGone(m) == m.serial \notin Sessions
SignalIgnoredUnlessReconnect(m) ==
  \/ m.serial \notin Sessions
  \/ /\ session[m.serial].pendingRelease
     /\ m.name \notin StopNames \cup {"stopping", "reconnect", "reconnect_success"}

\* A signal of a session that has gone, or that only matters to a session
\* that is not being stopped, changes nothing.
SignalIgnored(m) ==
  \/ m.serial \notin Sessions
  \/ /\ session[m.serial].pendingRelease
     /\ m.name \notin StopNames \cup {"stopping"}

HandleIgnoredSignal ==
  /\ queue # <<>> /\ SignalIgnored(Head(queue))
  /\ queue' = Tail(queue)
  /\ UNCHANGED <<targetVars, profileVars, state, runtime, session,
                 nextSessionSerial, shuttingDown, timers, output>>

HandleOutputSignal ==
  LET m == Head(queue)
      t == session[m.serial].targetId
  IN
  /\ queue # <<>> /\ ~SignalIgnored(m) /\ m.name \notin StopNames
  /\ queue' = Tail(queue)
  /\ state' = [state EXCEPT ![t] = SignalState(m.name)]
  /\ runtime' = SetRuntimeTransport(runtime, t, m.serial, SignalTransport(m.name))
  /\ UNCHANGED <<targetVars, profileVars, session, nextSessionSerial,
                 shuttingDown, timers, output>>

\* handleOutputStopped: report the end of the output, then release it.
HandleOutputStopped ==
  LET m == Head(queue)
      t == session[m.serial].targetId
  IN
  /\ queue # <<>> /\ ~SignalIgnored(m) /\ m.name \in StopNames
  /\ ReleaseSession(m.serial,
                    [state EXCEPT ![t] = "Stopped"],
                    IF m.name = "stop"
                      THEN [runtime EXCEPT ![t] = NoStatus]
                      ELSE SetRuntimeTransport(runtime, t, m.serial, "Failed"),
                    timers, Tail(queue))
  /\ UNCHANGED <<profileVars, nextSessionSerial, shuttingDown>>

\* Faulty variant: a timer looks its session up by target id only, so that it
\* finds the session the target has by then (of one target, any session).
ReleaseTimerByTarget(s) ==
  /\ timers[s] > 0
  /\ \E r \in Sessions :
       ReleaseSession(r, state, runtime, [timers EXCEPT ![s] = @ - 1], queue)
  /\ UNCHANGED <<profileVars, nextSessionSerial, shuttingDown>>

\* A release timer looks its session up by target id and serial.
ReleaseTimer(s) ==
  LET tm == [timers EXCEPT ![s] = @ - 1] IN
  /\ timers[s] > 0
  /\ \/ /\ s \in Sessions
        /\ ReleaseSession(s, state, runtime, tm, queue)
     \/ /\ s \notin Sessions
        /\ timers' = tm
        /\ UNCHANGED <<targetVars, state, runtime, session, output, queue>>
  /\ UNCHANGED <<profileVars, nextSessionSerial, shuttingDown>>

-----------------------------------------------------------------------------
(* Profile, scene collection and unload *)

AllReleased ==
  /\ session' = [s \in Serials |-> NoSession]
  /\ output' = [s \in Serials |-> NoOutput]

\* OBS switches the profile; the plug-in hears of it in an event of its own.
ObsSwitchesProfile(p) ==
  /\ ~shuttingDown /\ profile = loadedProfile /\ p # profile
  /\ profile' = p
  /\ UNCHANGED <<targetVars, loadedProfile, state, runtime, session,
                 nextSessionSerial, shuttingDown, timers, output, queue>>

ReloadForCurrentProfile ==
  /\ ~shuttingDown /\ profile # loadedProfile
  /\ AllReleased
  /\ config' = stored[profile]
  /\ state' = [t \in Ids |-> "Stopped"]
  /\ runtime' = [t \in Ids |-> NoStatus]
  /\ runtimeTargetIds' = {}
  /\ pendingPersistentRemovalIds' = {}
  /\ pendingRuntimeRemovalIds' = {}
  /\ loadedProfile' = profile
  /\ UNCHANGED <<stored, profile, nextSessionSerial, shuttingDown, timers, queue>>

\* Sessions of scene-dependent targets are released on the spot; a removal
\* waiting for one of them goes ahead, if its save succeeds.
PrepareForSceneCollectionChange ==
  LET ended   == {s \in Sessions : config[session[s].targetId] = "scene"}
      owners  == {session[s].targetId : s \in ended}
      leaving == {t \in owners : RemovalPending(t)}
  IN
  /\ ~shuttingDown /\ ended # {}
  /\ session' = [s \in Serials |-> IF s \in ended THEN NoSession ELSE session[s]]
  /\ output' = [s \in Serials |-> IF s \in ended THEN NoOutput ELSE output[s]]
  /\ state' = [t \in Ids |-> IF t \in owners THEN "Stopped" ELSE state[t]]
  /\ runtime' = [t \in Ids |-> IF t \in owners THEN NoStatus ELSE runtime[t]]
  /\ \E gone \in SUBSET leaving :
       /\ leaving \cap runtimeTargetIds \subseteq gone
       /\ gone \subseteq runtimeTargetIds \/ SaveAllowed
       /\ config' = [t \in Ids |-> IF t \in gone THEN Absent ELSE config[t]]
       /\ stored' = IF gone \subseteq runtimeTargetIds THEN stored
                      ELSE Saved([t \in Ids |-> IF t \in gone THEN Absent ELSE config[t]])
       /\ runtimeTargetIds' = runtimeTargetIds \ gone
  /\ pendingPersistentRemovalIds' = pendingPersistentRemovalIds \ leaving
  /\ pendingRuntimeRemovalIds' = pendingRuntimeRemovalIds \ leaving
  /\ UNCHANGED <<profileVars, nextSessionSerial, shuttingDown, timers, queue>>

PrepareForUnload ==
  /\ ~shuttingDown
  /\ shuttingDown' = TRUE
  /\ AllReleased
  /\ UNCHANGED <<targetVars, profileVars, state, runtime, nextSessionSerial,
                 timers, queue>>

-----------------------------------------------------------------------------
(* OBS's output threads.  They exist while the session's output does. *)

ObsOnly == UNCHANGED <<targetVars, profileVars, state, runtime, session,
                       nextSessionSerial, shuttingDown, timers>>

ObsConnects(s) ==
  /\ output[s].phase = "connecting" /\ Len(queue) < MaxSignals
  /\ output' = [output EXCEPT ![s].phase = "active"]
  /\ queue' = Post(Post(queue, s, "activate"), s, "start")
  /\ ObsOnly

ObsLosesConnection(s) ==
  /\ output[s].phase = "active" /\ output[s].stop = "no" /\ Len(queue) < MaxSignals
  /\ output' = [output EXCEPT ![s].phase = "reconnecting"]
  /\ queue' = Post(queue, s, "reconnect")
  /\ ObsOnly

ObsReconnects(s) ==
  /\ output[s].phase = "reconnecting" /\ output[s].stop = "no" /\ Len(queue) < MaxSignals
  /\ output' = [output EXCEPT ![s].phase = "active"]
  /\ queue' = Post(queue, s, "reconnect_success")
  /\ ObsOnly

\* The output gives up, or does as it was told.  "stop" is signalled before
\* the capture thread of an active output has ended.
ObsStops(s, name) ==
  /\ output[s].phase \in {"connecting", "active", "reconnecting"}
  /\ name = "stop" => output[s].stop # "no"
  /\ output' = [output EXCEPT ![s].phase =
                  IF @ = "connecting" THEN "ended" ELSE "ending"]
  /\ queue' = Post(queue, s, name)
  /\ ObsOnly

ObsCaptureEnds(s) ==
  /\ output[s].phase = "ending"
  /\ output' = [output EXCEPT ![s].phase = "ended"]
  /\ UNCHANGED queue
  /\ ObsOnly

-----------------------------------------------------------------------------
Init ==
  /\ profile \in Profiles
  /\ loadedProfile = profile
  /\ stored \in [Profiles -> [Ids -> Kinds \cup {Absent}]]
  /\ config = stored[profile]
  /\ runtimeTargetIds = {}
  /\ state = [t \in Ids |-> "Stopped"]
  /\ runtime = [t \in Ids |-> NoStatus]
  /\ session = [s \in Serials |-> NoSession]
  /\ nextSessionSerial = 1
  /\ pendingPersistentRemovalIds = {}
  /\ pendingRuntimeRemovalIds = {}
  /\ shuttingDown = FALSE
  /\ timers = [s \in Serials |-> 0]
  /\ output = [s \in Serials |-> NoOutput]
  /\ queue = <<>>

TargetStep(t) ==
  \/ \E kind \in Kinds : \/ AddTarget(t, kind)
                         \/ AddRuntimeTarget(t, kind)
                         \/ MutateTargetForUi(t, kind)
                         \/ SetTargetSceneMode(t, kind)
  \/ StartTarget(t)
  \/ StopTarget(t)
  \/ RemoveTarget(t)

HandleSignal == HandleIgnoredSignal \/ HandleOutputSignal \/ HandleOutputStopped

ManagerStep ==
  \/ HandleSignal
  \/ \E p \in Profiles : ObsSwitchesProfile(p)
  \/ ReloadForCurrentProfile
  \/ PrepareForSceneCollectionChange
  \/ PrepareForUnload

ObsStep(s) ==
  \/ ObsConnects(s)
  \/ ObsLosesConnection(s)
  \/ ObsReconnects(s)
  \/ \E name \in StopNames : ObsStops(s, name)
  \/ ObsCaptureEnds(s)

Next ==
  \/ \E t \in Ids : TargetStep(t)
  \/ ManagerStep
  \/ \E s \in Serials : ReleaseTimer(s) \/ ObsStep(s)

Spec == Init /\ [][Next]_vars

\* The GUI thread keeps handling events and timers, OBS's capture thread ends
\* and OBS obeys a forced stop.  Nothing makes OBS obey a graceful one.
Fairness ==
  /\ WF_vars(HandleSignal)
  /\ \A s \in Serials :
       /\ WF_vars(ReleaseTimer(s))
       /\ WF_vars(ObsCaptureEnds(s))
       /\ WF_vars(output[s].stop = "forced" /\ \E name \in StopNames : ObsStops(s, name))

FairSpec == Spec /\ Fairness

-----------------------------------------------------------------------------
(* Properties *)

\* TargetLifecycle's view of a target: the refinement mapping.
Phase(t) ==
  CASE config[t] = Absent                -> "absent"
    [] t \in Targets /\ ~HasSession(t)   -> "idle"
    [] t \in Targets /\ HasSession(t) /\ runtime[t].transport \in Running    -> "running"
    [] t \in Targets /\ HasSession(t) /\ runtime[t].transport \notin Running -> "closing"

Lifecycle == INSTANCE TargetLifecycle WITH phase <- [t \in Ids |-> Phase(t)]

\* The sessions implement TargetLifecycle: a target whose output is closing
\* never runs or starts before that output has been released.
ImplementsLifecycle == Lifecycle!Spec

TypeOK ==
  /\ config \in [Ids -> Kinds \cup {Absent}]
  /\ stored \in [Profiles -> [Ids -> Kinds \cup {Absent}]]
  /\ runtimeTargetIds \subseteq Ids
  /\ pendingPersistentRemovalIds \subseteq Ids
  /\ pendingRuntimeRemovalIds \subseteq Ids
  /\ profile \in Profiles /\ loadedProfile \in Profiles
  /\ state \in [Ids -> States]
  /\ runtime \in [Ids -> [sessionSerial : Serials \cup {0}, transport : Transports]]
  /\ session \in [Serials -> [targetId : Ids \cup {NoTarget}, kind : Kinds \cup {Absent},
                              pendingRelease : BOOLEAN, releasePolls : Nat]]
  /\ nextSessionSerial \in 1 .. MaxSerial + 1
  /\ shuttingDown \in BOOLEAN
  /\ timers \in [Serials -> Nat]
  /\ output \in [Serials -> [phase : {"none", "connecting", "active", "reconnecting",
                                      "ending", "ended"},
                             stop : {"no", "asked", "forced"}]]
  /\ queue \in Seq([serial : Serials,
                    name : {"starting", "activate", "start", "reconnect",
                            "reconnect_success", "stopping", "stop", "stop_error"}])

\* A target never has two sessions, whatever start, stop, late signals,
\* release timers and profile changes do in between: two would send the same
\* stream twice and only one of them could ever be stopped.
OneSessionPerTarget ==
  \A s1, s2 \in Sessions : session[s1].targetId = session[s2].targetId => s1 = s2

\* A session never outlives its target: a removed or reloaded target cannot
\* leave an output behind that no row of the UI shows.
SessionsHaveTargets == \A s \in Sessions : session[s].targetId \in Targets

\* A row that says the target is starting or sending belongs to a session
\* with that serial which nobody has asked to stop.
RunningIsBacked ==
  ~shuttingDown =>
    \A t \in Targets :
      runtime[t].transport \in Running \/ state[t] \in {"Starting", "Live"} =>
        \E s \in SessionsOf(t) :
          /\ runtime[t] = [sessionSerial |-> s, transport |-> runtime[t].transport]
          /\ ~session[s].pendingRelease

\* Stopping is never a dead end: startTarget refuses a target that is
\* stopping, so a target that is must have a session whose release is due.  A
\* pending removal likewise waits for a session that is being stopped.
StoppingIsBacked ==
  ~shuttingDown =>
    \A t \in Targets :
      /\ runtime[t].transport = "Stopping" \/ state[t] = "Stopping" => HasSession(t)
      /\ RemovalPending(t) => \E s \in SessionsOf(t) : session[s].pendingRelease

\* Nothing is forgotten: while a session waits for its output to end a release
\* timer is armed for it, and the end of an output nobody asked to stop is
\* still in the queue or already being polled.
ReleaseIsScheduled ==
  \A s \in Sessions :
    /\ session[s].pendingRelease => timers[s] > 0
    /\ output[s].phase \in {"ending", "ended"} =>
         \/ timers[s] > 0
         \/ \E i \in 1 .. Len(queue) : queue[i].serial = s /\ queue[i].name \in StopNames

\* The targets in memory and the ones in the loaded profile's file are the
\* same, whichever saves fail: every failed save is rolled back.
DiskAgrees ==
  stored[loadedProfile] =
    [t \in Ids |-> IF t \in runtimeTargetIds THEN Absent ELSE config[t]]

\* No edit reaches a target while it has a session, so what a session was
\* started with is what its target says: prepareForSceneCollectionChange,
\* which reads the target, finds every output that holds a scene's canvas.
SessionRunsItsTarget ==
  \A s \in Sessions : session[s].kind = config[session[s].targetId]

\* A profile's file is only written while that profile is current and loaded.
ProfilesAreIsolated ==
  [][\A p \in Profiles :
       stored'[p] # stored[p] => p = loadedProfile /\ p = profile]_vars

\* A session ends only if it was asked to stop or its own output has stopped,
\* or in a reload, a scene collection change or an unload: a timer or a signal
\* left over from an earlier session of the target never ends a later one.
SessionEndsForCause ==
  [][\A s \in Sessions :
       session'[s] = NoSession =>
         \/ session[s].pendingRelease
         \/ output[s].phase = "ended"
         \/ ReloadForCurrentProfile
         \/ PrepareForSceneCollectionChange /\ session[s].kind = "scene"
         \/ PrepareForUnload]_vars

\* What docs/dsk-runtime-state-spec.md says of Idle: "no runtime output".
IdleMeansNoOutput ==
  \A t \in Targets : runtime[t].transport = "Idle" => ~HasSession(t)

\* A stop always ends: the graceful request is retried by force until OBS
\* lets go of the output.
StopCompletes ==
  \A s \in Serials : session[s].pendingRelease ~> session[s] = NoSession

=============================================================================
