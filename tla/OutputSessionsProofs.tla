----------------------- MODULE OutputSessionsProofs ------------------------
(***************************************************************************)
(* Theorems about OutputSessions, for any targets, profiles and bounds.    *)
(*                                                                         *)
(* 1. Types                                                                *)
(* 2. Safety: one session per target, no session without its target, no    *)
(*    edit under a session, files that agree with memory and no dead end   *)
(*    in Stopping                                                          *)
(* 3. Release: what a row says is backed by its session, a release is      *)
(*    always scheduled, a session ends only for cause                      *)
(* 4. Refinement: the sessions implement TargetLifecycle                   *)
(***************************************************************************)
EXTENDS OutputSessions, SequenceTheorems, TLAPS

-----------------------------------------------------------------------------
(* 1. TYPES *)

Status  == [sessionSerial : Serials \cup {0}, transport : Transports]
Session == [targetId : Ids \cup {NoTarget}, kind : Kinds \cup {Absent},
            pendingRelease : BOOLEAN, releasePolls : Nat]
Output  == [phase : {"none", "connecting", "active", "reconnecting", "ending", "ended"},
            stop : {"no", "asked", "forced"}]
SignalNames == {"starting", "activate", "start", "reconnect", "reconnect_success",
                "stopping", "stop", "stop_error"}
Signal  == [serial : Serials, name : SignalNames]

\* The part of TypeOK that the targets, their removals and the files make up.
TargetsTypeOK ==
  /\ config \in [Ids -> Kinds \cup {Absent}]
  /\ stored \in [Profiles -> [Ids -> Kinds \cup {Absent}]]
  /\ runtimeTargetIds \subseteq Ids
  /\ pendingPersistentRemovalIds \subseteq Ids
  /\ pendingRuntimeRemovalIds \subseteq Ids

\* The part that the sessions and OBS make up.
SessionsTypeOK ==
  /\ state \in [Ids -> States]
  /\ runtime \in [Ids -> Status]
  /\ session \in [Serials -> Session]
  /\ timers \in [Serials -> Nat]
  /\ output \in [Serials -> Output]
  /\ queue \in Seq(Signal)

RestTypeOK ==
  /\ profile \in Profiles /\ loadedProfile \in Profiles
  /\ nextSessionSerial \in 1 .. MaxSerial + 1
  /\ shuttingDown \in BOOLEAN

Types == TargetsTypeOK /\ SessionsTypeOK /\ RestTypeOK

LEMMA TypeParts == TypeOK <=> Types
  BY DEF TypeOK, Types, TargetsTypeOK, SessionsTypeOK, RestTypeOK, Status, Session,
         Output, Signal, SignalNames

-----------------------------------------------------------------------------
(* Types of the parts handlers are built from *)

LEMMA NoValuesType ==
  NoStatus \in Status /\ NoSession \in Session /\ NoOutput \in Output
  BY DEF NoStatus, Status, Transports, Running, NoSession, Session, NoOutput, Output

LEMMA PostType ==
  ASSUME NEW q \in Seq(Signal), NEW s \in Serials, NEW name \in SignalNames
  PROVE  Post(q, s, name) \in Seq(Signal)
  BY DEF Post, Signal

LEMMA PostStoppingType ==
  ASSUME NEW q \in Seq(Signal), NEW s \in Serials
  PROVE  PostStopping(q, s) \in Seq(Signal)
  BY PostType DEF PostStopping, SignalNames

LEMMA SetRuntimeTransportType ==
  ASSUME NEW rt \in [Ids -> Status], NEW t \in Ids, NEW serial \in Serials \cup {0},
         NEW transport \in Transports
  PROVE  SetRuntimeTransport(rt, t, serial, transport) \in [Ids -> Status]
  BY DEF SetRuntimeTransport, Status

LEMMA SavedType ==
  ASSUME TargetsTypeOK, RestTypeOK, NEW c \in [Ids -> Kinds \cup {Absent}]
  PROVE  Saved(c) \in [Profiles -> [Ids -> Kinds \cup {Absent}]]
  BY DEF TargetsTypeOK, RestTypeOK, Saved

LEMMA RemovalTypes ==
  ASSUME TargetsTypeOK, RestTypeOK, NEW t \in Ids, TargetRemoved(t) \/ TargetKept(t)
  PROVE  TargetsTypeOK'
<1>1. CASE TargetRemoved(t)
  <2>1. [config EXCEPT ![t] = Absent] \in [Ids -> Kinds \cup {Absent}]
    BY DEF TargetsTypeOK
  <2>2. Saved([config EXCEPT ![t] = Absent]) \in [Profiles -> [Ids -> Kinds \cup {Absent}]]
    BY <2>1, SavedType
  <2> QED BY <1>1, <2>1, <2>2 DEF TargetRemoved, TargetsTypeOK
<1>2. CASE TargetKept(t)
  BY <1>2 DEF TargetKept, TargetsTypeOK
<1> QED BY <1>1, <1>2

LEMMA SettledType ==
  ASSUME NEW st \in [Ids -> States], NEW rt \in [Ids -> Status], NEW t \in Ids,
         Settled(t, st, rt)
  PROVE  state' \in [Ids -> States] /\ runtime' \in [Ids -> Status]
  BY NoValuesType DEF Settled, States

LEMMA ReleaseSessionType ==
  ASSUME TargetsTypeOK, SessionsTypeOK, RestTypeOK,
         NEW s \in Sessions, session[s].targetId \in Ids,
         NEW st \in [Ids -> States], NEW rt \in [Ids -> Status],
         NEW tm \in [Serials -> Nat], NEW q \in Seq(Signal),
         ReleaseSession(s, st, rt, tm, q)
  PROVE  TargetsTypeOK' /\ SessionsTypeOK'
<1> DEFINE t == session[s].targetId
<1>s. s \in Serials /\ session[s] \in Session /\ output[s] \in Output
  BY DEF Sessions, SessionsTypeOK
<1>1. CASE OutputActive(s)
  <2>1. Stopped(s, "forced") \in Output
    BY <1>s DEF Stopped, Output
  <2>2. PostStopping(q, s) \in Seq(Signal)
    BY <1>s, PostStoppingType
  <2>3. session' \in [Serials -> Session]
    <3> DEFINE p == session[s].releasePolls + 1
               n == IF p >= ReleasePollLimit THEN 0 ELSE p
    <3>1. session' = [session EXCEPT ![s].releasePolls = n]
      BY <1>1 DEF ReleaseSession
    <3>2. n \in Nat
      BY <1>s DEF Session
    <3> HIDE DEF n
    <3> QED BY <1>s, <3>1, <3>2 DEF SessionsTypeOK, Session
  <2>4. timers' \in [Serials -> Nat]
    BY <1>1, <1>s DEF ReleaseSession, ArmReleaseTimer
  <2>5. output' \in [Serials -> Output] /\ queue' \in Seq(Signal)
    BY <1>1, <1>s, <2>1, <2>2 DEF ReleaseSession, SessionsTypeOK
  <2>6. state' = st /\ runtime' = rt /\ UNCHANGED targetVars
    BY <1>1 DEF ReleaseSession
  <2> QED BY <2>3, <2>4, <2>5, <2>6 DEF SessionsTypeOK, TargetsTypeOK, targetVars
<1>2. CASE ~OutputActive(s)
  <2>1. /\ session' = [session EXCEPT ![s] = NoSession]
        /\ output' = [output EXCEPT ![s] = NoOutput]
        /\ queue' = q /\ timers' = tm
    BY <1>2 DEF ReleaseSession
  <2>2. session' \in [Serials -> Session] /\ output' \in [Serials -> Output]
    BY <2>1, <1>s, NoValuesType DEF SessionsTypeOK
  <2>3. /\ TargetsTypeOK'
        /\ state' \in [Ids -> States] /\ runtime' \in [Ids -> Status]
    <3>1. CASE TargetRemoved(t) /\ state' = [st EXCEPT ![t] = "Stopped"]
               /\ runtime' = [rt EXCEPT ![t] = NoStatus]
      BY <3>1, RemovalTypes, NoValuesType DEF States
    <3>2. CASE TargetKept(t) /\ Settled(t, st, rt)
      BY <3>2, RemovalTypes, SettledType
    <3>3. CASE Settled(t, st, rt) /\ UNCHANGED targetVars
      BY <3>3, SettledType DEF TargetsTypeOK, targetVars
    <3> QED BY <1>2, <3>1, <3>2, <3>3 DEF ReleaseSession
  <2> QED BY <2>1, <2>2, <2>3 DEF SessionsTypeOK
<1> QED BY <1>1, <1>2

\* A signal that is not ignored names a session of some target.
LEMMA SignalFacts ==
  ASSUME SessionsTypeOK, queue # <<>>
  PROVE  /\ Head(queue) \in Signal /\ Tail(queue) \in Seq(Signal)
         /\ ~SignalIgnored(Head(queue)) =>
              /\ Head(queue).serial \in Sessions
              /\ session[Head(queue).serial].targetId \in Ids
<1>1. Head(queue) \in Signal /\ Tail(queue) \in Seq(Signal)
  BY DEF SessionsTypeOK
<1>2. \A s \in Sessions : session[s].targetId \in Ids
  BY DEF Sessions, SessionsTypeOK, Session
<1> QED BY <1>1, <1>2 DEF SignalIgnored

LEMMA StopSessionType ==
  ASSUME SessionsTypeOK, NEW t \in Ids, NEW s \in Serials, StopSession(t, s)
  PROVE  SessionsTypeOK'
<1>1. state' \in [Ids -> States]
  BY DEF StopSession, SessionsTypeOK, States
<1>2. runtime' \in [Ids -> Status]
  <2>1. runtime[t].sessionSerial \in Serials \cup {0} /\ "Stopping" \in Transports
    BY DEF SessionsTypeOK, Status, Transports
  <2> QED BY <2>1, SetRuntimeTransportType DEF StopSession, SessionsTypeOK
<1>3. Stopped(s, "asked") \in Output /\ PostStopping(queue, s) \in Seq(Signal)
  BY PostStoppingType DEF Stopped, Output, SessionsTypeOK
<1>4. CASE session[s].pendingRelease
  BY <1>1, <1>2, <1>4 DEF StopSession, SessionsTypeOK
<1>5. CASE ~session[s].pendingRelease
  <2>1. session' \in [Serials -> Session]
    <3>1. session' = [session EXCEPT ![s].pendingRelease = TRUE, ![s].releasePolls = 0]
      BY <1>5 DEF StopSession
    <3> QED BY <3>1 DEF SessionsTypeOK, Session
  <2>2. timers' \in [Serials -> Nat]
    BY <1>5 DEF StopSession, ArmReleaseTimer, SessionsTypeOK
  <2>3. output' \in [Serials -> Output] /\ queue' \in Seq(Signal)
    BY <1>3, <1>5 DEF StopSession, SessionsTypeOK
  <2> QED BY <1>1, <1>2, <2>1, <2>2, <2>3 DEF SessionsTypeOK
<1> QED BY <1>4, <1>5

-----------------------------------------------------------------------------
(* Type correctness, action by action *)

LEMMA EditType ==
  ASSUME Types, NEW t \in Ids, NEW kind \in Kinds,
         \/ AddTarget(t, kind) \/ AddRuntimeTarget(t, kind)
         \/ MutateTargetForUi(t, kind) \/ SetTargetSceneMode(t, kind)
  PROVE  Types'
<1> DEFINE c == [config EXCEPT ![t] = kind]
<1>1. c \in [Ids -> Kinds \cup {Absent}]
  BY DEF Types, TargetsTypeOK
<1>2. Saved(c) \in [Profiles -> [Ids -> Kinds \cup {Absent}]]
  BY <1>1, SavedType DEF Types
<1>3. /\ config' = c
      /\ stored' \in {stored, Saved(c)}
      /\ runtimeTargetIds' \in {runtimeTargetIds, runtimeTargetIds \cup {t}}
      /\ UNCHANGED <<pendingPersistentRemovalIds, pendingRuntimeRemovalIds>>
  BY DEF AddTarget, AddRuntimeTarget, MutateTargetForUi, SetTargetSceneMode, Edited
<1>4. UNCHANGED <<profile, loadedProfile, state, runtime, session, nextSessionSerial,
                  shuttingDown, timers, output, queue>>
  BY DEF AddTarget, AddRuntimeTarget, MutateTargetForUi, SetTargetSceneMode, Edited, profileVars
<1>5. TargetsTypeOK'
  <2> HIDE DEF c
  <2> QED BY <1>1, <1>2, <1>3 DEF Types, TargetsTypeOK
<1>6. SessionsTypeOK' /\ RestTypeOK'
  BY <1>4 DEF Types, SessionsTypeOK, RestTypeOK
<1> QED BY <1>5, <1>6 DEF Types

LEMMA StartRefusedType ==
  ASSUME Types, NEW t \in Ids, StartRefused(t)
  PROVE  Types'
<1>1. runtime[t].sessionSerial \in Serials \cup {0} /\ "Stopping" \in Transports
  BY DEF Types, SessionsTypeOK, Status, Transports
<1>2. runtime' \in [Ids -> Status]
  BY <1>1, SetRuntimeTransportType DEF StartRefused, Types, SessionsTypeOK
<1>3. state' \in [Ids -> States]
  BY DEF StartRefused, States, Types, SessionsTypeOK
<1>4. TargetsTypeOK' /\ RestTypeOK'
  BY DEF StartRefused, Types, TargetsTypeOK, RestTypeOK, targetVars, profileVars
<1>5. UNCHANGED <<session, timers, output, queue>>
  BY DEF StartRefused
<1> QED BY <1>2, <1>3, <1>4, <1>5 DEF Types, SessionsTypeOK

LEMMA StartFailsType ==
  ASSUME Types, NEW t \in Ids, StartFails(t)
  PROVE  Types'
<1>1. nextSessionSerial' \in 1 .. MaxSerial + 1
  BY SessionsAssumption DEF StartFails, Types, RestTypeOK
<1>2. [sessionSerial |-> 0, transport |-> "Failed"] \in Status
  BY DEF Status, Transports
<1>3. state' \in [Ids -> States] /\ runtime' \in [Ids -> Status]
  BY <1>2 DEF StartFails, States, Types, SessionsTypeOK
<1>4. TargetsTypeOK' /\ UNCHANGED <<session, timers, output, queue>>
  BY DEF StartFails, Types, TargetsTypeOK, targetVars
<1>5. RestTypeOK'
  BY <1>1 DEF StartFails, Types, RestTypeOK, profileVars
<1> QED BY <1>3, <1>4, <1>5 DEF Types, SessionsTypeOK

LEMMA StartIndependentTargetType ==
  ASSUME Types, NEW t \in Ids, StartIndependentTarget(t)
  PROVE  Types'
<1> DEFINE s == nextSessionSerial
<1>1. s \in Serials /\ nextSessionSerial' \in 1 .. MaxSerial + 1
  BY SessionsAssumption DEF StartIndependentTarget, Types, RestTypeOK, Serials
<1>2. [sessionSerial |-> s, transport |-> "Starting"] \in Status
  BY <1>1 DEF Status, Transports, Running
<1>3. [targetId |-> t, kind |-> config[t], pendingRelease |-> FALSE,
       releasePolls |-> 0] \in Session
  BY DEF Session, Types, TargetsTypeOK
<1>4. [phase |-> "connecting", stop |-> "no"] \in Output
  BY DEF Output
<1>5. Post(queue, s, "starting") \in Seq(Signal)
  BY <1>1, PostType DEF Types, SessionsTypeOK, SignalNames
<1>6. state' \in [Ids -> States] /\ runtime' \in [Ids -> Status]
  BY <1>2 DEF StartIndependentTarget, States, Types, SessionsTypeOK
<1>7. session' \in [Serials -> Session] /\ output' \in [Serials -> Output]
  BY <1>1, <1>3, <1>4 DEF StartIndependentTarget, Types, SessionsTypeOK
<1>8. queue' \in Seq(Signal) /\ timers' = timers
  BY <1>5 DEF StartIndependentTarget
<1>9. TargetsTypeOK' /\ RestTypeOK'
  BY <1>1 DEF StartIndependentTarget, Types, TargetsTypeOK, RestTypeOK, targetVars,
              profileVars
<1> QED BY <1>6, <1>7, <1>8, <1>9 DEF Types, SessionsTypeOK

\* Clearing a target's state, as stopTarget and removeTarget do without a session.
LEMMA ClearedType ==
  ASSUME Types, NEW t \in Ids,
         state' = [state EXCEPT ![t] = "Stopped"],
         runtime' = [runtime EXCEPT ![t] = NoStatus],
         UNCHANGED <<session, output, queue, timers>>
  PROVE  SessionsTypeOK'
<1>1. state' \in [Ids -> States] /\ runtime' \in [Ids -> Status]
  BY NoValuesType DEF States, Types, SessionsTypeOK
<1> QED BY <1>1 DEF Types, SessionsTypeOK

LEMMA StopTargetType ==
  ASSUME Types, NEW t \in Ids, StopTarget(t)
  PROVE  Types'
<1>1. RestTypeOK'
  BY DEF StopTarget, Types, RestTypeOK, profileVars
<1>2. CASE \E s \in SessionsOf(t) : StopSession(t, s) /\ UNCHANGED targetVars
  <2>1. SessionsTypeOK'
    BY <1>2, StopSessionType DEF SessionsOf, Types
  <2>2. TargetsTypeOK'
    BY <1>2 DEF Types, TargetsTypeOK, targetVars
  <2> QED BY <1>1, <2>1, <2>2 DEF Types
<1>3. CASE ~(\E s \in SessionsOf(t) : StopSession(t, s) /\ UNCHANGED targetVars)
  <2>1. SessionsTypeOK'
    BY <1>3, ClearedType DEF StopTarget
  <2>2. Saved(config) \in [Profiles -> [Ids -> Kinds \cup {Absent}]]
    BY SavedType DEF Types, TargetsTypeOK
  <2>3. TargetsTypeOK'
    BY <1>3, <2>2 DEF StopTarget, Types, TargetsTypeOK
  <2> QED BY <1>1, <2>1, <2>3 DEF Types
<1> QED BY <1>2, <1>3

LEMMA RemoveTargetType ==
  ASSUME Types, NEW t \in Ids, RemoveTarget(t)
  PROVE  Types'
<1>1. RestTypeOK'
  BY DEF RemoveTarget, Types, RestTypeOK, profileVars
<1>2. CASE HasSession(t)
  <2>1. \E s \in SessionsOf(t) : StopSession(t, s)
    BY <1>2 DEF RemoveTarget
  <2>2. SessionsTypeOK'
    BY <2>1, StopSessionType DEF SessionsOf, Types
  <2>3. TargetsTypeOK'
    BY <1>2 DEF RemoveTarget, Types, TargetsTypeOK
  <2> QED BY <1>1, <2>2, <2>3 DEF Types
<1>3. CASE ~HasSession(t)
  <2>1. /\ TargetRemoved(t)
        /\ state' = [state EXCEPT ![t] = "Stopped"]
        /\ runtime' = [runtime EXCEPT ![t] = NoStatus]
        /\ UNCHANGED <<session, output, queue, timers>>
    BY <1>3 DEF RemoveTarget, HasSession
  <2>2. SessionsTypeOK'
    BY <2>1, ClearedType
  <2>3. TargetsTypeOK'
    BY <2>1, RemovalTypes DEF Types
  <2> QED BY <1>1, <2>2, <2>3 DEF Types
<1> QED BY <1>2, <1>3

LEMMA TargetStepType ==
  ASSUME Types, NEW t \in Ids, TargetStep(t)
  PROVE  Types'
  BY EditType, StartRefusedType, StartFailsType, StartIndependentTargetType,
     StopTargetType, RemoveTargetType DEF TargetStep, StartTarget

LEMMA HandleSignalType ==
  ASSUME Types, HandleSignal
  PROVE  Types'
<1> DEFINE m == Head(queue)
           t == session[m.serial].targetId
<1>1. queue # <<>>
  BY DEF HandleSignal, HandleIgnoredSignal, HandleOutputSignal, HandleOutputStopped
<1>2. m \in Signal /\ Tail(queue) \in Seq(Signal)
  BY <1>1, SignalFacts DEF Types
<1>3. CASE HandleIgnoredSignal
  BY <1>2, <1>3 DEF HandleIgnoredSignal, Types, TargetsTypeOK, SessionsTypeOK, RestTypeOK,
                    targetVars, profileVars
<1>4. CASE HandleOutputSignal
  <2>1. t \in Ids /\ ~SignalIgnored(m)
    BY <1>1, <1>4, SignalFacts DEF HandleOutputSignal, Types
  <2>2. SignalState(m.name) \in States /\ SignalTransport(m.name) \in Transports
    BY <1>2 DEF SignalState, SignalTransport, States, Transports, Running
  <2>3. m.serial \in Serials \cup {0}
    BY <1>2 DEF Signal
  <2>4. state' = [state EXCEPT ![t] = SignalState(m.name)]
    BY <1>4 DEF HandleOutputSignal
  <2>5. runtime' = SetRuntimeTransport(runtime, t, m.serial, SignalTransport(m.name))
    BY <1>4 DEF HandleOutputSignal
  <2>6. state' \in [Ids -> States]
    BY <2>1, <2>2, <2>4 DEF Types, SessionsTypeOK
  <2>7. runtime' \in [Ids -> Status]
    BY <2>1, <2>2, <2>3, <2>5, SetRuntimeTransportType DEF Types, SessionsTypeOK
  <2>8. /\ queue' = Tail(queue)
        /\ UNCHANGED <<targetVars, profileVars, session, nextSessionSerial,
                       shuttingDown, timers, output>>
    BY <1>4 DEF HandleOutputSignal
  <2> QED BY <1>2, <2>6, <2>7, <2>8 DEF Types, TargetsTypeOK, SessionsTypeOK, RestTypeOK,
                                        targetVars, profileVars
<1>5. CASE HandleOutputStopped
  <2> DEFINE st == [state EXCEPT ![t] = "Stopped"]
             rt == IF m.name = "stop"
                     THEN [runtime EXCEPT ![t] = NoStatus]
                     ELSE SetRuntimeTransport(runtime, t, m.serial, "Failed")
  <2>1. t \in Ids /\ m.serial \in Sessions
    BY <1>1, <1>5, SignalFacts DEF HandleOutputStopped, Types
  <2>2. st \in [Ids -> States]
    BY DEF Types, SessionsTypeOK, States
  <2>3. rt \in [Ids -> Status]
    <3>1. [runtime EXCEPT ![t] = NoStatus] \in [Ids -> Status]
      BY NoValuesType DEF Types, SessionsTypeOK
    <3>2. m.serial \in Serials \cup {0} /\ "Failed" \in Transports
      BY <1>2 DEF Signal, Transports
    <3>3. SetRuntimeTransport(runtime, t, m.serial, "Failed") \in [Ids -> Status]
      BY <2>1, <3>2, SetRuntimeTransportType DEF Types, SessionsTypeOK
    <3> QED BY <3>1, <3>3
  <2>4. ReleaseSession(m.serial, st, rt, timers, Tail(queue))
    BY <1>5 DEF HandleOutputStopped
  <2>5. timers \in [Serials -> Nat]
    BY DEF Types, SessionsTypeOK
  <2> HIDE DEF st, rt
  <2>6. TargetsTypeOK' /\ SessionsTypeOK'
    BY <1>2, <2>1, <2>2, <2>3, <2>4, <2>5, ReleaseSessionType DEF Types
  <2>7. RestTypeOK'
    BY <1>5 DEF HandleOutputStopped, Types, RestTypeOK, profileVars
  <2> QED BY <2>6, <2>7 DEF Types
<1> QED BY <1>3, <1>4, <1>5 DEF HandleSignal

LEMMA ReleaseTimerType ==
  ASSUME Types, NEW s \in Serials, ReleaseTimer(s)
  PROVE  Types'
<1> DEFINE tm == [timers EXCEPT ![s] = @ - 1]
<1>1. tm \in [Serials -> Nat]
  BY DEF ReleaseTimer, Types, SessionsTypeOK
<1>2. RestTypeOK'
  BY DEF ReleaseTimer, Types, RestTypeOK, profileVars
<1>3. CASE s \in Sessions
  <2>1. ReleaseSession(s, state, runtime, tm, queue)
    BY <1>3 DEF ReleaseTimer
  <2>2. session[s].targetId \in Ids
    BY <1>3 DEF Sessions, Types, SessionsTypeOK, Session
  <2>3. state \in [Ids -> States] /\ runtime \in [Ids -> Status] /\ queue \in Seq(Signal)
    BY DEF Types, SessionsTypeOK
  <2> HIDE DEF tm
  <2>4. TargetsTypeOK' /\ SessionsTypeOK'
    BY <1>1, <1>3, <2>1, <2>2, <2>3, ReleaseSessionType DEF Types
  <2> QED BY <1>2, <2>4 DEF Types
<1>4. CASE s \notin Sessions
  <2>1. timers' = tm /\ UNCHANGED <<targetVars, state, runtime, session, output, queue>>
    BY <1>4 DEF ReleaseTimer
  <2> HIDE DEF tm
  <2> QED BY <1>1, <1>2, <2>1 DEF Types, TargetsTypeOK, SessionsTypeOK, targetVars
<1> QED BY <1>3, <1>4

LEMMA AllReleasedType ==
  ASSUME AllReleased
  PROVE  session' \in [Serials -> Session] /\ output' \in [Serials -> Output]
  BY NoValuesType DEF AllReleased

LEMMA ReloadType ==
  ASSUME Types, ReloadForCurrentProfile
  PROVE  Types'
<1>1. stored[profile] \in [Ids -> Kinds \cup {Absent}]
  BY DEF Types, TargetsTypeOK, RestTypeOK
<1>2. TargetsTypeOK'
  BY <1>1 DEF ReloadForCurrentProfile, Types, TargetsTypeOK
<1>3. state' \in [Ids -> States] /\ runtime' \in [Ids -> Status]
  BY NoValuesType DEF ReloadForCurrentProfile, States
<1>4. session' \in [Serials -> Session] /\ output' \in [Serials -> Output]
  BY AllReleasedType DEF ReloadForCurrentProfile
<1>5. SessionsTypeOK'
  BY <1>3, <1>4 DEF ReloadForCurrentProfile, Types, SessionsTypeOK
<1>6. RestTypeOK'
  BY DEF ReloadForCurrentProfile, Types, RestTypeOK
<1> QED BY <1>2, <1>5, <1>6 DEF Types

LEMMA PrepareForSceneCollectionChangeType ==
  ASSUME Types, PrepareForSceneCollectionChange
  PROVE  Types'
<1>1. session' \in [Serials -> Session] /\ output' \in [Serials -> Output]
  BY NoValuesType DEF PrepareForSceneCollectionChange, Types, SessionsTypeOK
<1>2. state' \in [Ids -> States] /\ runtime' \in [Ids -> Status]
  BY NoValuesType DEF PrepareForSceneCollectionChange, Types, SessionsTypeOK, States
<1>3. SessionsTypeOK'
  BY <1>1, <1>2 DEF PrepareForSceneCollectionChange, Types, SessionsTypeOK
<1>4. RestTypeOK'
  BY DEF PrepareForSceneCollectionChange, Types, RestTypeOK, profileVars
<1>5. TargetsTypeOK'
  <2>1. PICK gone \in SUBSET Ids :
          /\ config' = [t \in Ids |-> IF t \in gone THEN Absent ELSE config[t]]
          /\ stored' = IF gone \subseteq runtimeTargetIds THEN stored
               ELSE Saved([t \in Ids |-> IF t \in gone THEN Absent ELSE config[t]])
          /\ runtimeTargetIds' = runtimeTargetIds \ gone
    <3> DEFINE ended   == {s \in Sessions : config[session[s].targetId] = "scene"}
               owners  == {session[s].targetId : s \in ended}
               leaving == {t \in owners : RemovalPending(t)}
    <3>1. leaving \subseteq Ids
      BY DEF RemovalPending, Types, TargetsTypeOK
    <3>2. \E gone \in SUBSET leaving :
            /\ config' = [t \in Ids |-> IF t \in gone THEN Absent ELSE config[t]]
            /\ stored' = IF gone \subseteq runtimeTargetIds THEN stored
                 ELSE Saved([t \in Ids |-> IF t \in gone THEN Absent ELSE config[t]])
            /\ runtimeTargetIds' = runtimeTargetIds \ gone
      BY DEF PrepareForSceneCollectionChange
    <3> HIDE DEF leaving
    <3> QED BY <3>1, <3>2
  <2> DEFINE c == [t \in Ids |-> IF t \in gone THEN Absent ELSE config[t]]
  <2>2. c \in [Ids -> Kinds \cup {Absent}]
    BY DEF Types, TargetsTypeOK
  <2>3. Saved(c) \in [Profiles -> [Ids -> Kinds \cup {Absent}]]
    BY <2>2, SavedType DEF Types
  <2>4. config' = c /\ stored' \in {stored, Saved(c)}
    BY <2>1
  <2>5. /\ pendingPersistentRemovalIds' \subseteq pendingPersistentRemovalIds
        /\ pendingRuntimeRemovalIds' \subseteq pendingRuntimeRemovalIds
    BY DEF PrepareForSceneCollectionChange
  <2> HIDE DEF c
  <2> QED BY <2>1, <2>2, <2>3, <2>4, <2>5 DEF Types, TargetsTypeOK
<1> QED BY <1>3, <1>4, <1>5 DEF Types

LEMMA ManagerStepType ==
  ASSUME Types, ManagerStep
  PROVE  Types'
<1>1. CASE \E p \in Profiles : ObsSwitchesProfile(p)
  BY <1>1 DEF ObsSwitchesProfile, Types, TargetsTypeOK, SessionsTypeOK, RestTypeOK,
              targetVars
<1>2. CASE PrepareForUnload
  <2>1. session' \in [Serials -> Session] /\ output' \in [Serials -> Output]
    BY <1>2, AllReleasedType DEF PrepareForUnload
  <2> QED BY <1>2, <2>1 DEF PrepareForUnload, Types, TargetsTypeOK, SessionsTypeOK,
              RestTypeOK, targetVars, profileVars
<1> QED BY <1>1, <1>2, HandleSignalType, ReloadType, PrepareForSceneCollectionChangeType
        DEF ManagerStep

LEMMA ObsStepType ==
  ASSUME Types, NEW s \in Serials, ObsStep(s)
  PROVE  Types'
<1>1. TargetsTypeOK' /\ RestTypeOK'
  BY DEF ObsStep, ObsConnects, ObsLosesConnection, ObsReconnects, ObsStops,
         ObsCaptureEnds, ObsOnly, Types, TargetsTypeOK, RestTypeOK, targetVars, profileVars
<1>2. UNCHANGED <<state, runtime, session, timers>>
  BY DEF ObsStep, ObsConnects, ObsLosesConnection, ObsReconnects, ObsStops,
         ObsCaptureEnds, ObsOnly
<1>3. \E ph \in {"active", "reconnecting", "ending", "ended"} :
        output' = [output EXCEPT ![s].phase = ph]
  BY DEF ObsStep, ObsConnects, ObsLosesConnection, ObsReconnects, ObsStops, ObsCaptureEnds
<1>4. output' \in [Serials -> Output]
  BY <1>3 DEF Types, SessionsTypeOK, Output
<1>5. queue \in Seq(Signal)
  BY DEF Types, SessionsTypeOK
<1>6. queue' \in Seq(Signal)
  <2>1. CASE ObsConnects(s)
    BY <1>5, <2>1, PostType DEF ObsConnects, SignalNames
  <2>2. CASE ~ObsConnects(s)
    BY <1>5, <2>2, PostType, ZenonT(60) DEF ObsStep, ObsLosesConnection, ObsReconnects, ObsStops,
       ObsCaptureEnds, StopNames, SignalNames
  <2> QED BY <2>1, <2>2
<1> QED BY <1>1, <1>2, <1>4, <1>6 DEF Types, SessionsTypeOK

LEMMA InitType == Init => Types
<1> SUFFICES ASSUME Init PROVE Types
  OBVIOUS
<1>1. TargetsTypeOK
  BY DEF Init, TargetsTypeOK
<1>2. SessionsTypeOK
  BY NoValuesType DEF Init, SessionsTypeOK, States
<1>3. nextSessionSerial \in 1 .. MaxSerial + 1
  BY SessionsAssumption DEF Init
<1>4. RestTypeOK
  BY <1>3 DEF Init, RestTypeOK
<1> QED BY <1>1, <1>2, <1>4 DEF Types

LEMMA NextType == Types /\ [Next]_vars => Types'
<1>1. ASSUME Types, UNCHANGED vars PROVE Types'
  BY <1>1 DEF Types, TargetsTypeOK, SessionsTypeOK, RestTypeOK, vars, targetVars, profileVars
<1> QED BY <1>1, TargetStepType, ManagerStepType, ReleaseTimerType, ObsStepType DEF Next

\* Every handler and every OBS step keeps each variable within its type, for
\* any targets, profiles and bounds: the type invariant is inductive by itself.
THEOREM TypeCorrect == Spec => []TypeOK
  BY InitType, NextType, TypeParts, PTL DEF Spec

-----------------------------------------------------------------------------
(***************************************************************************)
(* 2. SAFETY                                                               *)
(*                                                                         *)
(* The properties support one another.  Ending one session may remove its  *)
(* target, which leaves the other sessions their targets only because no   *)
(* target has two; a scene collection change ends the right sessions only  *)
(* because no edit reaches a target with a session.  IInv is inductive.    *)
(***************************************************************************)

\* Serials are given out once.
SerialsUnused == \A s \in Serials : s >= nextSessionSerial => session[s].targetId = NoTarget

SessionsSound ==
  OneSessionPerTarget /\ SessionsHaveTargets /\ SessionRunsItsTarget /\ SerialsUnused

\* StoppingIsBacked for every id, so that a new target starts out sound, with
\* what makes it inductive: a status is Stopping only if its target is, and a
\* runtime removal is only pending for a runtime target.
StoppingSound ==
  /\ pendingRuntimeRemovalIds \subseteq runtimeTargetIds
  /\ ~shuttingDown =>
       \A t \in Ids :
         /\ runtime[t].transport = "Stopping" => state[t] = "Stopping"
         /\ state[t] = "Stopping" => HasSession(t)
         /\ RemovalPending(t) => \E s \in SessionsOf(t) : session[s].pendingRelease

IInv == Types /\ SessionsSound /\ DiskAgrees /\ StoppingSound

-----------------------------------------------------------------------------
(* What a step does to the sessions and the files *)

\* A step that starts no session, and leaves the targets of the sessions that
\* remain as they are, keeps the sessions sound.
LEMMA NoNewSession ==
  ASSUME Types, SessionsSound,
         nextSessionSerial' \in {nextSessionSerial, nextSessionSerial + 1},
         \A s \in Serials :
           \/ session'[s].targetId = NoTarget
           \/ /\ session'[s].targetId = session[s].targetId
              /\ session'[s].kind = session[s].kind
              /\ config'[session[s].targetId] = config[session[s].targetId]
  PROVE  SessionsSound'
<1>1. ASSUME NEW s \in Sessions'
      PROVE  /\ s \in Sessions
             /\ session'[s].targetId = session[s].targetId
             /\ session'[s].kind = session[s].kind
             /\ config'[session[s].targetId] = config[session[s].targetId]
  BY <1>1 DEF Sessions
<1>2. OneSessionPerTarget'
  BY <1>1 DEF SessionsSound, OneSessionPerTarget
<1>3. SessionsHaveTargets'
  BY <1>1 DEF SessionsSound, SessionsHaveTargets, Targets
<1>4. SessionRunsItsTarget'
  BY <1>1 DEF SessionsSound, SessionRunsItsTarget
<1>5. SerialsUnused'
  <2>1. nextSessionSerial' >= nextSessionSerial
    BY DEF Types, RestTypeOK
  <2> QED BY <2>1 DEF SessionsSound, SerialsUnused, Serials, Types, RestTypeOK
<1> QED BY <1>2, <1>3, <1>4, <1>5 DEF SessionsSound

\* A successful save, also one that drops removed runtime targets.
LEMMA SaveAgrees ==
  ASSUME Types, NEW c \in [Ids -> Kinds \cup {Absent}], NEW gone,
         \A t \in gone \cap Ids : c[t] = Absent, SaveAllowed,
         config' = c, stored' = Saved(c), loadedProfile' = loadedProfile,
         runtimeTargetIds' = runtimeTargetIds \ gone
  PROVE  DiskAgrees'
<1>1. stored'[loadedProfile'] = [t \in Ids |-> IF t \in runtimeTargetIds THEN Absent ELSE c[t]]
  BY DEF Saved, SaveAllowed, Types, TargetsTypeOK, RestTypeOK
<1>2. \A t \in Ids : (IF t \in runtimeTargetIds THEN Absent ELSE c[t])
                   = (IF t \in runtimeTargetIds' THEN Absent ELSE config'[t])
  OBVIOUS
<1> QED BY <1>1, <1>2 DEF DiskAgrees

\* Removing a runtime target needs no save.
LEMMA NoSaveAgrees ==
  ASSUME Types, DiskAgrees, NEW gone, gone \subseteq runtimeTargetIds,
         config' = [t \in Ids |-> IF t \in gone THEN Absent ELSE config[t]],
         stored' = stored, loadedProfile' = loadedProfile,
         runtimeTargetIds' = runtimeTargetIds \ gone
  PROVE  DiskAgrees'
<1>1. \A t \in Ids : (IF t \in runtimeTargetIds THEN Absent ELSE config[t])
                   = (IF t \in runtimeTargetIds' THEN Absent ELSE config'[t])
  OBVIOUS
<1> QED BY <1>1 DEF DiskAgrees

LEMMA RemovalAgrees ==
  ASSUME Types, DiskAgrees, NEW t \in Ids, TargetRemoved(t) \/ TargetKept(t),
         loadedProfile' = loadedProfile
  PROVE  DiskAgrees'
<1>1. CASE TargetKept(t)
  BY <1>1 DEF TargetKept, DiskAgrees
<1>2. CASE TargetRemoved(t) /\ t \in runtimeTargetIds
  <2>1. [config EXCEPT ![t] = Absent] = [u \in Ids |-> IF u \in {t} THEN Absent ELSE config[u]]
    BY DEF Types, TargetsTypeOK
  <2> QED BY <1>2, <2>1, NoSaveAgrees DEF TargetRemoved
<1>3. CASE TargetRemoved(t) /\ t \notin runtimeTargetIds
  <2>1. [config EXCEPT ![t] = Absent] \in [Ids -> Kinds \cup {Absent}]
    BY DEF Types, TargetsTypeOK
  <2>2. [config EXCEPT ![t] = Absent][t] = Absent
    BY DEF Types, TargetsTypeOK
  <2> QED BY <1>3, <2>1, <2>2, SaveAgrees DEF TargetRemoved
<1> QED BY <1>1, <1>2, <1>3

LEMMA SessionFacts ==
  ASSUME Types, SessionsSound, NEW s \in Sessions
  PROVE  /\ s \in Serials /\ session[s].targetId \in Ids
         /\ s \in SessionsOf(session[s].targetId)
         /\ \A u \in Serials : u # s => session[u].targetId # session[s].targetId
<1>1. s \in Serials /\ session[s].targetId \in Ids
  BY DEF Sessions, Types, SessionsTypeOK, Session
<1>2. \A u \in Serials : u # s => session[u].targetId # session[s].targetId
  BY DEF Sessions, SessionsSound, OneSessionPerTarget
<1> QED BY <1>1, <1>2 DEF SessionsOf

-----------------------------------------------------------------------------
(* releaseSession and stopTarget *)

\* releaseSession keeps the invariant when its caller's states and statuses
\* do: elsewhere they are unchanged, and for the session's own target a
\* Stopping status comes with a Stopping state.
LEMMA ReleaseSessionSound ==
  ASSUME Types, SessionsSound, DiskAgrees, StoppingSound,
         NEW s \in Sessions, NEW t \in Ids, session[s].targetId = t,
         NEW st \in [Ids -> States], NEW rt \in [Ids -> Status],
         NEW tm, NEW q, ReleaseSession(s, st, rt, tm, q),
         loadedProfile' = loadedProfile, shuttingDown' = shuttingDown,
         nextSessionSerial' = nextSessionSerial,
         \A u \in Ids \ {t} : st[u] = state[u] /\ rt[u] = runtime[u],
         ~shuttingDown => (rt[t].transport = "Stopping" => st[t] = "Stopping")
  PROVE  SessionsSound' /\ DiskAgrees' /\ StoppingSound'
<1>1. /\ s \in Serials /\ s \in SessionsOf(t)
      /\ \A u \in Serials : u # s => session[u].targetId # t
  BY SessionFacts
<1>2. CASE OutputActive(s)
  <2>1. /\ \E n : session' = [session EXCEPT ![s].releasePolls = n]
        /\ state' = st /\ runtime' = rt /\ UNCHANGED targetVars
    BY <1>2 DEF ReleaseSession
  <2>2. \A u \in Serials : /\ session'[u].targetId = session[u].targetId
                           /\ session'[u].kind = session[u].kind
                           /\ session'[u].pendingRelease = session[u].pendingRelease
    BY <2>1 DEF Types, SessionsTypeOK, Session
  <2>3. SessionsSound'
    BY <2>1, <2>2, NoNewSession DEF targetVars
  <2>4. DiskAgrees'
    BY <2>1 DEF targetVars, DiskAgrees
  <2>5. \A u \in Ids : SessionsOf(u)' = SessionsOf(u)
    BY <2>2 DEF SessionsOf
  <2>6. \A u \in Ids : HasSession(u)' = HasSession(u)
    BY <2>5 DEF HasSession
  <2>7. \A u \in Ids : RemovalPending(u)' = RemovalPending(u)
    BY <2>1 DEF RemovalPending, targetVars
  <2>8. HasSession(t)
    BY <1>1 DEF HasSession
  <2>9. ASSUME ~shuttingDown, NEW u \in Ids
        PROVE  /\ runtime'[u].transport = "Stopping" => state'[u] = "Stopping"
               /\ state'[u] = "Stopping" => HasSession(u)'
               /\ RemovalPending(u)' => \E r \in SessionsOf(u)' : session'[r].pendingRelease
    <3>1. RemovalPending(u)' => \E r \in SessionsOf(u)' : session'[r].pendingRelease
      BY <2>2, <2>5, <2>7, <2>9 DEF StoppingSound, SessionsOf
    <3> QED BY <2>1, <2>6, <2>8, <2>9, <3>1 DEF StoppingSound
  <2>10. StoppingSound'
    BY <2>1, <2>9 DEF StoppingSound, targetVars
  <2> QED BY <2>3, <2>4, <2>10
<1>3. CASE ~OutputActive(s)
  <2>1. session' = [session EXCEPT ![s] = NoSession]
    BY <1>3 DEF ReleaseSession
  <2>2. /\ session'[s].targetId = NoTarget
        /\ \A u \in Serials \ {s} : session'[u] = session[u]
    BY <1>1, <2>1 DEF NoSession, Types, SessionsTypeOK
  <2>3. \A u \in Ids \ {t} : SessionsOf(u)' = SessionsOf(u)
    BY <1>1, <2>2, SessionsAssumption DEF SessionsOf
  <2>4. \A u \in Ids \ {t} : \A r \in SessionsOf(u) : session'[r] = session[r]
    BY <1>1, <2>2 DEF SessionsOf
  <2>5. \/ TargetRemoved(t) \/ TargetKept(t)
        \/ ~RemovalPending(t) /\ UNCHANGED targetVars
    BY <1>3 DEF ReleaseSession
  <2>6. /\ pendingRuntimeRemovalIds' \subseteq runtimeTargetIds'
        /\ ~RemovalPending(t)'
        /\ \A u \in Ids \ {t} : /\ RemovalPending(u)' = RemovalPending(u)
                                /\ config'[u] = config[u]
    <3> USE DEF RemovalPending
    <3>1. pendingRuntimeRemovalIds \subseteq runtimeTargetIds
      BY DEF StoppingSound
    <3>2. CASE TargetRemoved(t)
      <4>1. \A u \in Ids \ {t} : config'[u] = config[u]
        BY <3>2 DEF TargetRemoved, Types, TargetsTypeOK
      <4> QED BY <3>1, <3>2, <4>1 DEF TargetRemoved
    <3>3. CASE TargetKept(t)
      BY <3>1, <3>3 DEF TargetKept
    <3>4. CASE ~RemovalPending(t) /\ UNCHANGED targetVars
      BY <3>1, <3>4 DEF targetVars
    <3> QED BY <2>5, <3>2, <3>3, <3>4
  <2>7. SessionsSound'
    <3>1. ASSUME NEW u \in Serials
          PROVE  \/ session'[u].targetId = NoTarget
                 \/ /\ session'[u].targetId = session[u].targetId
                    /\ session'[u].kind = session[u].kind
                    /\ config'[session[u].targetId] = config[session[u].targetId]
      <4>1. session[u].targetId \in Ids \cup {NoTarget}
        BY DEF Types, SessionsTypeOK, Session
      <4> QED BY <1>1, <2>2, <2>6, <4>1
    <3> QED BY <3>1, NoNewSession
  <2>8. DiskAgrees'
    BY <1>1, <2>5, RemovalAgrees DEF DiskAgrees, targetVars
  <2>9. /\ \A u \in Ids \ {t} : state'[u] = state[u] /\ runtime'[u] = runtime[u]
        /\ state'[t] # "Stopping"
        /\ ~shuttingDown => runtime'[t].transport # "Stopping"
    <3>1. CASE state' = [st EXCEPT ![t] = "Stopped"] /\ runtime' = [rt EXCEPT ![t] = NoStatus]
      BY <1>1, <3>1 DEF NoStatus
    <3>2. CASE Settled(t, st, rt)
      BY <1>1, <3>2 DEF Settled, NoStatus
    <3> QED BY <1>3, <3>1, <3>2 DEF ReleaseSession
  <2>10. ASSUME ~shuttingDown, NEW u \in Ids \ {t}
         PROVE  /\ runtime'[u].transport = "Stopping" => state'[u] = "Stopping"
                /\ state'[u] = "Stopping" => HasSession(u)'
                /\ RemovalPending(u)' => \E r \in SessionsOf(u)' : session'[r].pendingRelease
    BY <2>3, <2>4, <2>6, <2>9, <2>10 DEF StoppingSound, HasSession
  <2>11. StoppingSound'
    <3>1. ASSUME ~shuttingDown, NEW u \in Ids
          PROVE  /\ runtime'[u].transport = "Stopping" => state'[u] = "Stopping"
                 /\ state'[u] = "Stopping" => HasSession(u)'
                 /\ RemovalPending(u)' => \E r \in SessionsOf(u)' : session'[r].pendingRelease
      <4>1. CASE u = t
        BY <2>6, <2>9, <3>1, <4>1
      <4>2. CASE u # t
        BY <2>10, <3>1, <4>2
      <4> QED BY <4>1, <4>2
    <3> QED BY <2>6, <3>1 DEF StoppingSound
  <2> QED BY <2>7, <2>8, <2>11
<1> QED BY <1>2, <1>3

\* Steps that release no session keep every target out of a dead end when a
\* target they mark Stopping, or whose removal they leave pending, has one.
LEMMA NoSessionReleased ==
  ASSUME Types, StoppingSound, shuttingDown' = shuttingDown,
         pendingRuntimeRemovalIds' \subseteq runtimeTargetIds',
         \A s \in Sessions : /\ session'[s].targetId = session[s].targetId
                             /\ session[s].pendingRelease => session'[s].pendingRelease,
         ~shuttingDown => \A t \in Ids :
           /\ runtime'[t].transport = "Stopping" => state'[t] = "Stopping"
           /\ state'[t] = "Stopping" => state[t] = "Stopping" \/ HasSession(t)
           /\ RemovalPending(t)' => \/ RemovalPending(t)
                                    \/ \E s \in SessionsOf(t) : session'[s].pendingRelease
  PROVE  StoppingSound'
<1>1. \A t \in Ids : SessionsOf(t) \subseteq SessionsOf(t)' /\ SessionsOf(t) \subseteq Sessions
  BY SessionsAssumption DEF SessionsOf, Sessions
<1>2. ASSUME ~shuttingDown, NEW t \in Ids
      PROVE  /\ runtime'[t].transport = "Stopping" => state'[t] = "Stopping"
             /\ state'[t] = "Stopping" => HasSession(t)'
             /\ RemovalPending(t)' => \E s \in SessionsOf(t)' : session'[s].pendingRelease
  <2>1. state'[t] = "Stopping" => HasSession(t)'
    BY <1>1, <1>2 DEF StoppingSound, HasSession
  <2>2. RemovalPending(t) => \E s \in SessionsOf(t) : session[s].pendingRelease
    BY <1>2 DEF StoppingSound
  <2>3. RemovalPending(t)' => \E s \in SessionsOf(t)' : session'[s].pendingRelease
    BY <1>1, <1>2, <2>2
  <2> QED BY <1>2, <2>1, <2>3
<1> QED BY <1>2 DEF StoppingSound

LEMMA StopSessionEffect ==
  ASSUME Types, NEW t \in Ids, NEW s \in SessionsOf(t), StopSession(t, s)
  PROVE  /\ \A u \in Serials :
              /\ session'[u].targetId = session[u].targetId
              /\ session'[u].kind = session[u].kind
              /\ session[u].pendingRelease => session'[u].pendingRelease
         /\ session'[s].pendingRelease
         /\ state'[t] = "Stopping"
         /\ \A u \in Ids \ {t} : state'[u] = state[u] /\ runtime'[u] = runtime[u]
<1>1. CASE session[s].pendingRelease
  BY <1>1 DEF StopSession, SetRuntimeTransport, Types, SessionsTypeOK
<1>2. CASE ~session[s].pendingRelease
  <2>1. session' = [session EXCEPT ![s].pendingRelease = TRUE, ![s].releasePolls = 0]
    BY <1>2 DEF StopSession
  <2>2. s \in Serials /\ session \in [Serials -> Session]
    BY DEF SessionsOf, Types, SessionsTypeOK
  <2>3. /\ \A u \in Serials :
             /\ session'[u].targetId = session[u].targetId
             /\ session'[u].kind = session[u].kind
             /\ session[u].pendingRelease => session'[u].pendingRelease
        /\ session'[s].pendingRelease
    BY <2>1, <2>2 DEF Session
  <2>4. /\ state'[t] = "Stopping"
        /\ \A u \in Ids \ {t} : state'[u] = state[u] /\ runtime'[u] = runtime[u]
    BY DEF StopSession, SetRuntimeTransport, Types, SessionsTypeOK
  <2> QED BY <2>3, <2>4
<1> QED BY <1>1, <1>2

-----------------------------------------------------------------------------
(* The invariant is inductive, action by action.  Types is left to NextType. *)

Sound == SessionsSound /\ DiskAgrees /\ StoppingSound

LEMMA EditSound ==
  ASSUME IInv, NEW t \in Ids, NEW kind \in Kinds,
         \/ AddTarget(t, kind) \/ MutateTargetForUi(t, kind) \/ SetTargetSceneMode(t, kind)
  PROVE  Sound'
<1> DEFINE c == [config EXCEPT ![t] = kind]
<1> USE DEF IInv
<1>1. /\ SaveAllowed /\ config' = c /\ stored' = Saved(c)
      /\ config[t] = Absent \/ ~HasSession(t)
      /\ UNCHANGED <<runtimeTargetIds, pendingPersistentRemovalIds,
                     pendingRuntimeRemovalIds, loadedProfile, state, runtime, session,
                     nextSessionSerial, shuttingDown>>
  BY DEF AddTarget, MutateTargetForUi, SetTargetSceneMode, Edited, profileVars
<1>2. c \in [Ids -> Kinds \cup {Absent}] /\ \A u \in Ids \ {t} : c[u] = config[u]
  BY DEF Types, TargetsTypeOK
<1>3. \A s \in Sessions : session[s].targetId \in Ids \ {t}
  BY <1>1 DEF SessionsSound, SessionsHaveTargets, Targets, HasSession, SessionsOf, Sessions
<1> HIDE DEF c
<1>4. SessionsSound'
  BY <1>1, <1>2, <1>3, NoNewSession DEF Sessions
<1>5. DiskAgrees'
  <2>1. runtimeTargetIds' = runtimeTargetIds \ {}
    BY <1>1
  <2> QED BY <1>1, <1>2, <2>1, SaveAgrees
<1>6. StoppingSound'
  <2>1. \A u \in Ids : RemovalPending(u)' = RemovalPending(u)
    BY <1>1 DEF RemovalPending
  <2> QED BY <1>1, <2>1, NoSessionReleased DEF StoppingSound
<1> QED BY <1>4, <1>5, <1>6 DEF Sound

LEMMA AddRuntimeTargetSound ==
  ASSUME IInv, NEW t \in Ids, NEW kind \in Kinds, AddRuntimeTarget(t, kind)
  PROVE  Sound'
<1> DEFINE c == [config EXCEPT ![t] = kind]
<1> USE DEF IInv
<1>1. /\ config' = c /\ stored' = stored /\ config[t] = Absent
      /\ runtimeTargetIds' = runtimeTargetIds \cup {t}
      /\ UNCHANGED <<pendingPersistentRemovalIds, pendingRuntimeRemovalIds, loadedProfile,
                     state, runtime, session, nextSessionSerial, shuttingDown>>
  BY DEF AddRuntimeTarget, profileVars
<1>2. c[t] = kind /\ \A u \in Ids \ {t} : c[u] = config[u]
  BY DEF Types, TargetsTypeOK
<1>3. \A s \in Sessions : session[s].targetId \in Ids \ {t}
  BY <1>1 DEF SessionsSound, SessionsHaveTargets, Targets, Sessions
<1> HIDE DEF c
<1>4. SessionsSound'
  BY <1>1, <1>2, <1>3, NoNewSession DEF Sessions
<1>5. DiskAgrees'
  <2>1. \A u \in Ids : (IF u \in runtimeTargetIds THEN Absent ELSE config[u])
                     = (IF u \in runtimeTargetIds' THEN Absent ELSE config'[u])
    BY <1>1, <1>2
  <2> QED BY <1>1, <2>1 DEF DiskAgrees
<1>6. StoppingSound'
  <2>1. \A u \in Ids : RemovalPending(u)' = RemovalPending(u)
    BY <1>1 DEF RemovalPending
  <2> QED BY <1>1, <2>1, NoSessionReleased DEF StoppingSound
<1> QED BY <1>4, <1>5, <1>6 DEF Sound

LEMMA StartSound ==
  ASSUME IInv, NEW t \in Ids, StartTarget(t)
  PROVE  Sound'
<1> USE DEF IInv
<1>1. UNCHANGED <<config, stored, runtimeTargetIds, pendingPersistentRemovalIds,
                  pendingRuntimeRemovalIds, loadedProfile, shuttingDown>>
  BY DEF StartTarget, StartRefused, StartFails, StartIndependentTarget, targetVars, profileVars
<1>2. DiskAgrees' /\ pendingRuntimeRemovalIds' \subseteq runtimeTargetIds'
      /\ \A u \in Ids : RemovalPending(u)' = RemovalPending(u)
  BY <1>1 DEF DiskAgrees, RemovalPending, StoppingSound
<1>3. CASE StartRefused(t)
  <2>1. session' = session /\ nextSessionSerial' = nextSessionSerial
    BY <1>3 DEF StartRefused
  <2>2. SessionsSound'
    BY <1>1, <2>1, NoNewSession
  <2>3. /\ state'[t] = "Stopping"
        /\ \A u \in Ids \ {t} : state'[u] = state[u] /\ runtime'[u] = runtime[u]
    BY <1>3 DEF StartRefused, SetRuntimeTransport, Types, SessionsTypeOK
  <2>4. ~shuttingDown /\ (state[t] = "Stopping" \/ HasSession(t))
    BY <1>3 DEF StartRefused, StoppingSound
  <2>5. StoppingSound'
    BY <1>1, <1>2, <2>1, <2>3, <2>4, NoSessionReleased DEF StoppingSound
  <2> QED BY <1>2, <2>2, <2>5 DEF Sound
<1>4. CASE StartFails(t)
  <2>1. session' = session /\ nextSessionSerial' \in {nextSessionSerial, nextSessionSerial + 1}
    BY <1>4 DEF StartFails
  <2>2. SessionsSound'
    BY <1>1, <2>1, NoNewSession
  <2>3. /\ state'[t] = "Error" /\ runtime'[t].transport = "Failed"
        /\ \A u \in Ids \ {t} : state'[u] = state[u] /\ runtime'[u] = runtime[u]
    BY <1>4 DEF StartFails, Types, SessionsTypeOK
  <2>4. StoppingSound'
    BY <1>1, <1>2, <2>1, <2>3, NoSessionReleased DEF StoppingSound
  <2> QED BY <1>2, <2>2, <2>4 DEF Sound
<1>5. CASE StartIndependentTarget(t)
  <2> DEFINE s == nextSessionSerial
             new == [targetId |-> t, kind |-> config[t],
                     pendingRelease |-> FALSE, releasePolls |-> 0]
  <2>1. /\ s \in Serials /\ nextSessionSerial' = s + 1
        /\ session' = [session EXCEPT ![s] = new]
        /\ t \in Targets /\ ~HasSession(t)
    BY <1>5, SessionsAssumption
       DEF StartIndependentTarget, MayStart, Types, RestTypeOK, Serials
  <2>2. /\ session[s].targetId = NoTarget
        /\ session'[s].targetId = t /\ session'[s].kind = config[t]
        /\ \A u \in Serials \ {s} : session'[u] = session[u]
        /\ \A u \in Serials : session[u].targetId # t
    BY <2>1 DEF SessionsSound, SerialsUnused, HasSession, SessionsOf, Types, SessionsTypeOK,
                RestTypeOK
  <2>3. Sessions' = Sessions \cup {s}
    BY <2>1, <2>2, SessionsAssumption DEF Sessions
  <2>4. SessionsSound'
    <3>1. OneSessionPerTarget'
      BY <2>2, <2>3 DEF SessionsSound, OneSessionPerTarget, Sessions
    <3>2. SessionsHaveTargets'
      BY <1>1, <2>1, <2>2, <2>3 DEF SessionsSound, SessionsHaveTargets, Sessions, Targets
    <3>3. SessionRunsItsTarget'
      BY <1>1, <2>2, <2>3 DEF SessionsSound, SessionRunsItsTarget, Sessions
    <3>4. SerialsUnused'
      BY <2>1, <2>2 DEF SessionsSound, SerialsUnused, Serials, Types, RestTypeOK
    <3> QED BY <3>1, <3>2, <3>3, <3>4 DEF SessionsSound
  <2>5. /\ state'[t] = "Starting" /\ runtime'[t].transport = "Starting"
        /\ \A u \in Ids \ {t} : state'[u] = state[u] /\ runtime'[u] = runtime[u]
    BY <1>5 DEF StartIndependentTarget, Types, SessionsTypeOK
  <2>6. \A u \in Sessions : session'[u] = session[u]
    BY <2>2 DEF Sessions
  <2>7. StoppingSound'
    BY <1>1, <1>2, <2>5, <2>6, NoSessionReleased DEF StoppingSound
  <2> QED BY <1>2, <2>4, <2>7 DEF Sound
<1> QED BY <1>3, <1>4, <1>5 DEF StartTarget

LEMMA StopTargetSound ==
  ASSUME IInv, NEW t \in Ids, StopTarget(t)
  PROVE  Sound'
<1> USE DEF IInv
<1>1. /\ UNCHANGED <<config, runtimeTargetIds, pendingPersistentRemovalIds,
                     pendingRuntimeRemovalIds, loadedProfile, nextSessionSerial, shuttingDown>>
      /\ stored' = stored \/ (SaveAllowed /\ stored' = Saved(config))
  BY DEF StopTarget, targetVars, profileVars
<1>2. DiskAgrees'
  <2>1. CASE stored' = stored
    BY <1>1, <2>1 DEF DiskAgrees
  <2>2. CASE SaveAllowed /\ stored' = Saved(config)
    <3>1. config \in [Ids -> Kinds \cup {Absent}] /\ runtimeTargetIds' = runtimeTargetIds \ {}
      BY <1>1 DEF Types, TargetsTypeOK
    <3> QED BY <1>1, <2>2, <3>1, SaveAgrees
  <2> QED BY <1>1, <2>1, <2>2
<1>3. pendingRuntimeRemovalIds' \subseteq runtimeTargetIds'
      /\ \A u \in Ids : RemovalPending(u)' = RemovalPending(u)
  BY <1>1 DEF RemovalPending, StoppingSound
<1>4. CASE \E s \in SessionsOf(t) : StopSession(t, s)
  <2>1. PICK s \in SessionsOf(t) : StopSession(t, s)
    BY <1>4
  <2>2. SessionsSound'
    BY <1>1, <2>1, StopSessionEffect, NoNewSession
  <2>3. HasSession(t)
    BY <2>1 DEF HasSession
  <2>4. StoppingSound'
    BY <1>1, <1>3, <2>1, <2>3, StopSessionEffect, NoSessionReleased DEF StoppingSound, Sessions
  <2> QED BY <1>2, <2>2, <2>4 DEF Sound
<1>5. CASE ~(\E s \in SessionsOf(t) : StopSession(t, s))
  <2>1. /\ session' = session
        /\ state' = [state EXCEPT ![t] = "Stopped"]
        /\ runtime' = [runtime EXCEPT ![t] = NoStatus]
    BY <1>5 DEF StopTarget
  <2>2. SessionsSound'
    BY <1>1, <2>1, NoNewSession
  <2>3. /\ state'[t] = "Stopped" /\ runtime'[t].transport = "Idle"
        /\ \A u \in Ids \ {t} : state'[u] = state[u] /\ runtime'[u] = runtime[u]
    BY <2>1 DEF NoStatus, Types, SessionsTypeOK
  <2>4. StoppingSound'
    BY <1>1, <1>3, <2>1, <2>3, NoSessionReleased DEF StoppingSound
  <2> QED BY <1>2, <2>2, <2>4 DEF Sound
<1> QED BY <1>4, <1>5

LEMMA RemoveTargetSound ==
  ASSUME IInv, NEW t \in Ids, RemoveTarget(t)
  PROVE  Sound'
<1> USE DEF IInv
<1>1. UNCHANGED <<loadedProfile, nextSessionSerial, shuttingDown>>
  BY DEF RemoveTarget, profileVars
<1>2. CASE HasSession(t)
  <2>1. PICK s \in SessionsOf(t) : StopSession(t, s)
    BY <1>2 DEF RemoveTarget
  <2>2. /\ UNCHANGED <<config, stored, runtimeTargetIds>>
        /\ pendingRuntimeRemovalIds' \subseteq runtimeTargetIds'
        /\ \A u \in Ids \ {t} : RemovalPending(u)' = RemovalPending(u)
    BY <1>2 DEF RemoveTarget, RemovalPending, StoppingSound
  <2>3. SessionsSound'
    BY <1>1, <2>1, <2>2, StopSessionEffect, NoNewSession
  <2>4. DiskAgrees'
    BY <1>1, <2>2 DEF DiskAgrees
  <2>5. StoppingSound'
    BY <1>1, <1>2, <2>1, <2>2, StopSessionEffect, NoSessionReleased
       DEF StoppingSound, Sessions
  <2> QED BY <2>3, <2>4, <2>5 DEF Sound
<1>3. CASE ~HasSession(t)
  <2>1. /\ TargetRemoved(t)
        /\ state' = [state EXCEPT ![t] = "Stopped"]
        /\ runtime' = [runtime EXCEPT ![t] = NoStatus]
        /\ session' = session
    BY <1>3 DEF RemoveTarget, HasSession
  <2>2. \A u \in Ids \ {t} : /\ config'[u] = config[u]
                             /\ RemovalPending(u)' = RemovalPending(u)
    BY <2>1 DEF TargetRemoved, RemovalPending, Types, TargetsTypeOK
  <2>3. SessionsSound'
    <3>1. \A s \in Serials : session[s].targetId # t
      BY <1>3 DEF HasSession, SessionsOf
    <3>2. \A s \in Serials : session[s].targetId \in Ids \cup {NoTarget}
      BY DEF Types, SessionsTypeOK, Session
    <3> QED BY <1>1, <2>1, <2>2, <3>1, <3>2, NoNewSession
  <2>4. DiskAgrees'
    BY <1>1, <2>1, RemovalAgrees
  <2>5. /\ state'[t] = "Stopped" /\ runtime'[t].transport = "Idle"
        /\ \A u \in Ids \ {t} : state'[u] = state[u] /\ runtime'[u] = runtime[u]
    BY <2>1 DEF NoStatus, Types, SessionsTypeOK
  <2>6. /\ pendingRuntimeRemovalIds' \subseteq runtimeTargetIds'
        /\ ~RemovalPending(t)'
    BY <2>1 DEF TargetRemoved, RemovalPending, StoppingSound
  <2>7. StoppingSound'
    BY <1>1, <2>1, <2>2, <2>5, <2>6, NoSessionReleased DEF StoppingSound
  <2> QED BY <2>3, <2>4, <2>7 DEF Sound
<1> QED BY <1>2, <1>3

LEMMA TargetStepSound ==
  ASSUME IInv, NEW t \in Ids, TargetStep(t)
  PROVE  Sound'
  BY EditSound, AddRuntimeTargetSound, StartSound, StopTargetSound, RemoveTargetSound
     DEF TargetStep

LEMMA HandleSignalSound ==
  ASSUME IInv, HandleSignal
  PROVE  Sound'
<1> USE DEF IInv
<1> DEFINE m == Head(queue)
<1>1. queue # <<>> /\ UNCHANGED <<loadedProfile, nextSessionSerial, shuttingDown>>
  BY DEF HandleSignal, HandleIgnoredSignal, HandleOutputSignal, HandleOutputStopped,
         profileVars
<1>2. CASE HandleIgnoredSignal
  <2>1. /\ UNCHANGED <<session, config, stored, runtimeTargetIds, state, runtime,
                       pendingPersistentRemovalIds, pendingRuntimeRemovalIds>>
    BY <1>2 DEF HandleIgnoredSignal, targetVars
  <2>2. SessionsSound'
    BY <1>1, <2>1, NoNewSession
  <2>3. DiskAgrees'
    BY <1>1, <2>1 DEF DiskAgrees
  <2>4. \A u \in Ids : RemovalPending(u)' = RemovalPending(u)
    BY <2>1 DEF RemovalPending
  <2>5. StoppingSound'
    BY <1>1, <2>1, <2>4, NoSessionReleased DEF StoppingSound
  <2> QED BY <2>2, <2>3, <2>5 DEF Sound
<1>3. ASSUME HandleOutputSignal \/ HandleOutputStopped
      PROVE  \E s \in Sessions : m.serial = s
  BY <1>1, <1>3, SignalFacts DEF HandleOutputSignal, HandleOutputStopped, Types
<1>4. CASE HandleOutputSignal
  <2>1. PICK s \in Sessions : m.serial = s
    BY <1>3, <1>4
  <2>2. PICK t \in Ids : session[s].targetId = t
    BY SessionFacts
  <2>3. /\ UNCHANGED <<session, config, stored, runtimeTargetIds,
                       pendingPersistentRemovalIds, pendingRuntimeRemovalIds>>
        /\ state' = [state EXCEPT ![t] = SignalState(m.name)]
        /\ runtime' = SetRuntimeTransport(runtime, t, s, SignalTransport(m.name))
    BY <1>4, <2>1, <2>2 DEF HandleOutputSignal, targetVars
  <2>4. SessionsSound'
    BY <1>1, <2>3, NoNewSession
  <2>5. DiskAgrees'
    BY <1>1, <2>3 DEF DiskAgrees
  <2>6. HasSession(t) /\ SessionMatches(t, s)
    BY <2>2, SessionFacts DEF HasSession, SessionMatches
  <2>7. /\ state'[t] = SignalState(m.name) /\ runtime'[t].transport = SignalTransport(m.name)
        /\ \A u \in Ids \ {t} : state'[u] = state[u] /\ runtime'[u] = runtime[u]
    BY <2>3, <2>6 DEF SetRuntimeTransport, Types, SessionsTypeOK
  <2>8. SignalTransport(m.name) = "Stopping" => SignalState(m.name) = "Stopping"
    BY DEF SignalTransport, SignalState
  <2>9. \A u \in Ids : RemovalPending(u)' = RemovalPending(u)
    BY <2>3 DEF RemovalPending
  <2>10. StoppingSound'
    BY <1>1, <2>3, <2>6, <2>7, <2>8, <2>9, NoSessionReleased DEF StoppingSound
  <2> QED BY <2>4, <2>5, <2>10 DEF Sound
<1>5. CASE HandleOutputStopped
  <2>1. PICK s \in Sessions : m.serial = s
    BY <1>3, <1>5
  <2>2. PICK t \in Ids : session[s].targetId = t
    BY SessionFacts
  <2> DEFINE st == [state EXCEPT ![t] = "Stopped"]
             rt == IF m.name = "stop"
                     THEN [runtime EXCEPT ![t] = NoStatus]
                     ELSE SetRuntimeTransport(runtime, t, s, "Failed")
  <2>3. ReleaseSession(s, st, rt, timers, Tail(queue))
    BY <1>5, <2>1, <2>2 DEF HandleOutputStopped
  <2>4. st \in [Ids -> States] /\ \A u \in Ids \ {t} : st[u] = state[u]
    BY DEF Types, SessionsTypeOK, States
  <2>5. /\ rt \in [Ids -> Status]
        /\ \A u \in Ids \ {t} : rt[u] = runtime[u]
        /\ rt[t].transport # "Stopping"
    <3>1. SessionMatches(t, s) /\ s \in Serials \cup {0} /\ "Failed" \in Transports
      BY <2>2, SessionFacts DEF SessionMatches, Transports
    <3>2. SetRuntimeTransport(runtime, t, s, "Failed") \in [Ids -> Status]
      BY <3>1, SetRuntimeTransportType DEF Types, SessionsTypeOK
    <3> QED BY <3>1, <3>2, NoValuesType
            DEF SetRuntimeTransport, NoStatus, Types, SessionsTypeOK
  <2> HIDE DEF st, rt
  <2> QED BY <1>1, <2>2, <2>3, <2>4, <2>5, ReleaseSessionSound DEF Sound
<1> QED BY <1>2, <1>4, <1>5 DEF HandleSignal

LEMMA ReleaseTimerSound ==
  ASSUME IInv, NEW s \in Serials, ReleaseTimer(s)
  PROVE  Sound'
<1> USE DEF IInv
<1>1. UNCHANGED <<loadedProfile, nextSessionSerial, shuttingDown>>
  BY DEF ReleaseTimer, profileVars
<1>2. CASE s \in Sessions
  <2>1. PICK tm : ReleaseSession(s, state, runtime, tm, queue)
    BY <1>2 DEF ReleaseTimer
  <2>2. PICK t \in Ids : session[s].targetId = t
    BY <1>2, SessionFacts
  <2>3. state \in [Ids -> States] /\ runtime \in [Ids -> Status]
    BY DEF Types, SessionsTypeOK
  <2>4. ~shuttingDown => (runtime[t].transport = "Stopping" => state[t] = "Stopping")
    BY DEF StoppingSound
  <2> QED BY <1>1, <1>2, <2>1, <2>2, <2>3, <2>4, ReleaseSessionSound DEF Sound
<1>3. CASE s \notin Sessions
  <2>1. /\ UNCHANGED <<session, config, stored, runtimeTargetIds, state, runtime,
                       pendingPersistentRemovalIds, pendingRuntimeRemovalIds>>
    BY <1>3 DEF ReleaseTimer, targetVars
  <2>2. SessionsSound'
    BY <1>1, <2>1, NoNewSession
  <2>3. DiskAgrees'
    BY <1>1, <2>1 DEF DiskAgrees
  <2>4. \A u \in Ids : RemovalPending(u)' = RemovalPending(u)
    BY <2>1 DEF RemovalPending
  <2>5. StoppingSound'
    BY <1>1, <2>1, <2>4, NoSessionReleased DEF StoppingSound
  <2> QED BY <2>2, <2>3, <2>5 DEF Sound
<1> QED BY <1>2, <1>3

LEMMA AllReleasedSound ==
  ASSUME IInv, AllReleased, nextSessionSerial' = nextSessionSerial
  PROVE  SessionsSound'
<1>1. \A s \in Serials : session'[s].targetId = NoTarget
  BY DEF AllReleased, NoSession
<1> QED BY <1>1, NoNewSession DEF IInv

LEMMA ReloadSound ==
  ASSUME IInv, ReloadForCurrentProfile
  PROVE  Sound'
<1> USE DEF IInv
<1>1. SessionsSound'
  BY AllReleasedSound DEF ReloadForCurrentProfile
<1>2. DiskAgrees'
  <2>1. stored[profile] = [t \in Ids |-> stored[profile][t]]
    BY DEF Types, TargetsTypeOK, RestTypeOK
  <2> QED BY <2>1 DEF ReloadForCurrentProfile, DiskAgrees
<1>3. StoppingSound'
  BY DEF ReloadForCurrentProfile, StoppingSound, RemovalPending, NoStatus
<1> QED BY <1>1, <1>2, <1>3 DEF Sound

LEMMA PrepareForUnloadSound ==
  ASSUME IInv, PrepareForUnload
  PROVE  Sound'
<1> USE DEF IInv
<1>1. SessionsSound'
  BY AllReleasedSound DEF PrepareForUnload
<1>2. DiskAgrees' /\ StoppingSound'
  BY DEF PrepareForUnload, DiskAgrees, StoppingSound, targetVars, profileVars
<1> QED BY <1>1, <1>2 DEF Sound

\* A scene collection change ends every session of the targets it touches and
\* leaves every other session and target alone.
LEMMA PrepareForSceneCollectionChangeSound ==
  ASSUME IInv, PrepareForSceneCollectionChange
  PROVE  Sound'
<1> USE DEF IInv
<1> DEFINE ended   == {s \in Sessions : config[session[s].targetId] = "scene"}
           owners  == {session[s].targetId : s \in ended}
           leaving == {t \in owners : RemovalPending(t)}
<1>1. PICK gone \in SUBSET leaving :
        /\ leaving \cap runtimeTargetIds \subseteq gone
        /\ gone \subseteq runtimeTargetIds \/ SaveAllowed
        /\ config' = [t \in Ids |-> IF t \in gone THEN Absent ELSE config[t]]
        /\ stored' = IF gone \subseteq runtimeTargetIds THEN stored
             ELSE Saved([t \in Ids |-> IF t \in gone THEN Absent ELSE config[t]])
        /\ runtimeTargetIds' = runtimeTargetIds \ gone
  BY DEF PrepareForSceneCollectionChange
<1>2. /\ session' = [s \in Serials |-> IF s \in ended THEN NoSession ELSE session[s]]
      /\ state' = [t \in Ids |-> IF t \in owners THEN "Stopped" ELSE state[t]]
      /\ runtime' = [t \in Ids |-> IF t \in owners THEN NoStatus ELSE runtime[t]]
      /\ pendingPersistentRemovalIds' = pendingPersistentRemovalIds \ leaving
      /\ pendingRuntimeRemovalIds' = pendingRuntimeRemovalIds \ leaving
      /\ UNCHANGED <<loadedProfile, nextSessionSerial, shuttingDown>>
  BY DEF PrepareForSceneCollectionChange, profileVars
<1>3. \A s \in Sessions : s \in ended <=> session[s].targetId \in owners
  OBVIOUS
<1>4. \A t \in leaving : t \in owners /\ RemovalPending(t)
  OBVIOUS
<1>5. \A t \in owners : RemovalPending(t) => t \in leaving
  OBVIOUS
<1> HIDE DEF ended, owners, leaving
<1>6. SessionsSound'
  <2>1. ASSUME NEW s \in Serials, s \in Sessions, s \notin ended
        PROVE  /\ session'[s] = session[s]
               /\ config'[session[s].targetId] = config[session[s].targetId]
    BY <1>1, <1>2, <1>3, <1>4, <2>1, SessionFacts
  <2>2. \A s \in ended : s \in Serials => session'[s].targetId = NoTarget
    BY <1>2 DEF NoSession
  <2>3. \A s \in Serials : s \notin Sessions =>
          session[s].targetId = NoTarget /\ session'[s].targetId = NoTarget
    BY <1>2, <2>2 DEF Sessions
  <2>4. nextSessionSerial' \in {nextSessionSerial, nextSessionSerial + 1}
    BY <1>2
  <2> QED BY <2>1, <2>2, <2>3, <2>4, NoNewSession
<1>7. DiskAgrees'
  <2> DEFINE c == [t \in Ids |-> IF t \in gone THEN Absent ELSE config[t]]
  <2>1. CASE gone \subseteq runtimeTargetIds
    BY <1>1, <1>2, <2>1, NoSaveAgrees
  <2>2. CASE ~(gone \subseteq runtimeTargetIds)
    <3>1. c \in [Ids -> Kinds \cup {Absent}] /\ \A t \in gone \cap Ids : c[t] = Absent
      BY DEF Types, TargetsTypeOK
    <3>2. SaveAllowed /\ config' = c /\ stored' = Saved(c)
      BY <1>1, <2>2
    <3> HIDE DEF c
    <3> QED BY <1>1, <1>2, <3>1, <3>2, SaveAgrees
  <2> QED BY <2>1, <2>2
<1>8. StoppingSound'
  <2>1. pendingRuntimeRemovalIds' \subseteq runtimeTargetIds'
    BY <1>1, <1>2 DEF StoppingSound
  <2>2. ASSUME NEW t \in Ids, t \in owners
        PROVE  state'[t] = "Stopped" /\ runtime'[t].transport = "Idle" /\ ~RemovalPending(t)'
    BY <1>2, <1>5, <2>2 DEF NoStatus, RemovalPending
  <2>3. ASSUME NEW t \in Ids, t \notin owners
        PROVE  /\ state'[t] = state[t] /\ runtime'[t] = runtime[t]
               /\ RemovalPending(t)' => RemovalPending(t)
               /\ \A s \in SessionsOf(t) : s \in SessionsOf(t)' /\ session'[s] = session[s]
    <3>1. \A s \in SessionsOf(t) : s \in Serials /\ s \in Sessions /\ session[s].targetId = t
      BY SessionsAssumption DEF SessionsOf, Sessions
    <3>2. \A s \in SessionsOf(t) : s \notin ended
      BY <1>3, <2>3, <3>1
    <3> QED BY <1>2, <2>3, <3>1, <3>2 DEF RemovalPending, SessionsOf
  <2>4. ASSUME ~shuttingDown, NEW t \in Ids
        PROVE  /\ runtime'[t].transport = "Stopping" => state'[t] = "Stopping"
               /\ state'[t] = "Stopping" => HasSession(t)'
               /\ RemovalPending(t)' => \E s \in SessionsOf(t)' : session'[s].pendingRelease
    <3>1. CASE t \in owners
      BY <2>2, <3>1
    <3>2. CASE t \notin owners
      BY <2>3, <2>4, <3>2 DEF StoppingSound, HasSession
    <3> QED BY <3>1, <3>2
  <2> QED BY <1>2, <2>1, <2>4 DEF StoppingSound
<1> QED BY <1>6, <1>7, <1>8 DEF Sound

\* Steps of OBS, and its switch of the profile, touch none of it.
LEMMA UntouchedSound ==
  ASSUME IInv,
         UNCHANGED <<targetVars, loadedProfile, state, runtime, session,
                     nextSessionSerial, shuttingDown>>
  PROVE  Sound'
  BY DEF IInv, Sound, SessionsSound, OneSessionPerTarget, SessionsHaveTargets,
         SessionRunsItsTarget, SerialsUnused, DiskAgrees, StoppingSound, RemovalPending,
         HasSession, SessionsOf, Sessions, Targets, targetVars

-----------------------------------------------------------------------------
(* Theorems *)

LEMMA InitSound == Init => IInv
<1> SUFFICES ASSUME Init PROVE IInv
  OBVIOUS
<1>1. Types
  BY InitType
<1>2. SessionsSound
  BY DEF Init, SessionsSound, OneSessionPerTarget, SessionsHaveTargets,
         SessionRunsItsTarget, SerialsUnused, Sessions, NoSession
<1>3. DiskAgrees
  <2>1. stored[profile] = [t \in Ids |-> stored[profile][t]]
    BY DEF Init
  <2> QED BY <2>1 DEF Init, DiskAgrees
<1>4. StoppingSound
  BY DEF Init, StoppingSound, RemovalPending, NoStatus
<1> QED BY <1>1, <1>2, <1>3, <1>4 DEF IInv

LEMMA NextSound == IInv /\ [Next]_vars => IInv'
<1> SUFFICES ASSUME IInv, [Next]_vars PROVE IInv'
  OBVIOUS
<1>1. Types'
  BY NextType DEF IInv
<1>2. ASSUME NEW s \in Serials, ObsStep(s) PROVE Sound'
  BY <1>2, UntouchedSound DEF ObsStep, ObsConnects, ObsLosesConnection, ObsReconnects,
     ObsStops, ObsCaptureEnds, ObsOnly, profileVars
<1>3. ASSUME NEW p \in Profiles, ObsSwitchesProfile(p) PROVE Sound'
  BY <1>3, UntouchedSound DEF ObsSwitchesProfile
<1>4. ASSUME UNCHANGED vars PROVE Sound'
  BY <1>4, UntouchedSound DEF vars, profileVars
<1>5. Sound'
  BY <1>2, <1>3, <1>4, TargetStepSound, HandleSignalSound, ReloadSound,
     PrepareForSceneCollectionChangeSound, PrepareForUnloadSound, ReleaseTimerSound
     DEF Next, ManagerStep
<1> QED BY <1>1, <1>5 DEF IInv, Sound

\* The properties below and what they rest on hold in every behaviour.
THEOREM Invariance == Spec => []IInv
  BY InitSound, NextSound, PTL DEF Spec

\* Start, stop, late signals, release timers and profile changes never give a
\* target a second session, for any number of targets, profiles and sessions.
THEOREM OneSession == Spec => []OneSessionPerTarget
<1>1. IInv => OneSessionPerTarget
  BY DEF IInv, SessionsSound
<1> QED BY <1>1, Invariance, PTL

\* removeTarget, reloadForCurrentProfile and prepareForSceneCollectionChange
\* never drop a target whose session lives on.
THEOREM NoOrphanSession == Spec => []SessionsHaveTargets
<1>1. IInv => SessionsHaveTargets
  BY DEF IInv, SessionsSound
<1> QED BY <1>1, Invariance, PTL

\* mutateTargetForUi and setTargetSceneMode never change what a running session
\* was started with, although the two guard against it differently.
THEOREM NoEditUnderSession == Spec => []SessionRunsItsTarget
<1>1. IInv => SessionRunsItsTarget
  BY DEF IInv, SessionsSound
<1> QED BY <1>1, Invariance, PTL

\* Whichever saves fail, the targets in memory are those of the loaded
\* profile's file, runtime targets aside.
THEOREM MemoryAndDiskAgree == Spec => []DiskAgrees
<1>1. IInv => DiskAgrees
  BY DEF IInv
<1> QED BY <1>1, Invariance, PTL

\* A target that startTarget would refuse as still stopping has a session that
\* can end, and a pending removal waits for a session that is being stopped.
THEOREM StoppingIsNoDeadEnd == Spec => []StoppingIsBacked
<1>1. IInv => StoppingIsBacked
  BY DEF IInv, StoppingSound, StoppingIsBacked, Targets
<1> QED BY <1>1, Invariance, PTL

-----------------------------------------------------------------------------
(* Profiles *)

OnlySaved == \A p \in Profiles : stored'[p] # stored[p] => p = loadedProfile /\ p = profile

\* A step writes the files through save() or not at all.
LEMMA NextOnlySaves ==
  ASSUME Types, Next
  PROVE  OnlySaved
<1> USE DEF targetVars
<1>u. stored' = stored => OnlySaved
  BY DEF OnlySaved
<1>s. ASSUME NEW c, SaveAllowed, stored' = Saved(c) PROVE OnlySaved
  BY <1>s DEF OnlySaved, SaveAllowed, Saved, Types, TargetsTypeOK
<1>1. \A t : TargetRemoved(t) \/ TargetKept(t) => OnlySaved
  BY <1>u, <1>s DEF TargetRemoved, TargetKept
<1>2. ASSUME NEW s, NEW st, NEW rt, NEW tm, NEW q, ReleaseSession(s, st, rt, tm, q)
      PROVE  OnlySaved
  BY <1>u, <1>s, <1>1, <1>2 DEF ReleaseSession
<1>3. ASSUME NEW t \in Ids, TargetStep(t) PROVE OnlySaved
  <2>1. CASE \E kind \in Kinds : \/ AddTarget(t, kind) \/ AddRuntimeTarget(t, kind)
                                 \/ MutateTargetForUi(t, kind) \/ SetTargetSceneMode(t, kind)
    BY <1>u, <1>s, <2>1 DEF AddTarget, AddRuntimeTarget, MutateTargetForUi,
       SetTargetSceneMode, Edited
  <2>2. CASE StartTarget(t)
    BY <1>u, <1>s, <2>2 DEF StartTarget, StartRefused, StartFails, StartIndependentTarget
  <2>3. CASE StopTarget(t)
    BY <1>u, <1>s, <2>3 DEF StopTarget
  <2>4. CASE RemoveTarget(t)
    BY <1>u, <1>s, <1>1, <2>4 DEF RemoveTarget
  <2> QED BY <1>3, <2>1, <2>2, <2>3, <2>4 DEF TargetStep
<1>4. ASSUME ManagerStep PROVE OnlySaved
  <2>1. CASE HandleSignal
    BY <1>u, <1>s, <1>2, <2>1 DEF HandleSignal, HandleIgnoredSignal, HandleOutputSignal, HandleOutputStopped
  <2>2. CASE PrepareForSceneCollectionChange
    BY <1>u, <1>s, <2>2 DEF PrepareForSceneCollectionChange
  <2>3. CASE ReloadForCurrentProfile \/ PrepareForUnload
             \/ \E p \in Profiles : ObsSwitchesProfile(p)
    BY <1>u, <1>s, <2>3 DEF ReloadForCurrentProfile, PrepareForUnload, ObsSwitchesProfile
  <2> QED BY <1>4, <2>1, <2>2, <2>3 DEF ManagerStep
<1>5. ASSUME NEW s \in Serials, ReleaseTimer(s) \/ ObsStep(s) PROVE OnlySaved
  BY <1>u, <1>s, <1>2, <1>5 DEF ReleaseTimer, ObsStep, ObsConnects, ObsLosesConnection, ObsReconnects,
     ObsStops, ObsCaptureEnds, ObsOnly
<1> QED BY <1>3, <1>4, <1>5 DEF Next

\* Between OBS's switch of the profile and the plug-in's reload, no handler
\* writes the old profile's targets into any file.
THEOREM ProfileIsolation == Spec => ProfilesAreIsolated
<1>1. Types /\ [Next]_vars => [OnlySaved]_vars
  BY NextOnlySaves
<1>2. IInv => Types
  BY DEF IInv
<1> QED BY <1>1, <1>2, Invariance, PTL DEF Spec, ProfilesAreIsolated, OnlySaved

-----------------------------------------------------------------------------
(***************************************************************************)
(* 3. RELEASE                                                              *)
(*                                                                         *)
(* What makes the properties of a release inductive is the order of the    *)
(* signals: an output that is alive has signalled no stop, after its stop  *)
(* it signals nothing but "stopping", and a serial that was never given    *)
(* out is in no signal and no timer.                                       *)
(***************************************************************************)

AnyButStopping == SignalNames \ {"stopping"}

\* OBS has not signalled the end of an output in one of these phases.
Alive == {"connecting", "active", "reconnecting"}

\* A signal of session s with one of these names is in the queue q.
Waits(q, s, names) == \E i \in 1 .. Len(q) : q[i].serial = s /\ q[i].name \in names

\* After its stop an output signals at most that it is stopping.
StopIsLast(q) ==
  \A i, j \in 1 .. Len(q) :
    i < j /\ q[i].serial = q[j].serial /\ q[i].name \in StopNames => q[j].name = "stopping"

\* What the row of target t says.
Runs(t) == runtime[t].transport \in Running \/ state[t] \in {"Starting", "Live"}

\* A timer that is armed for a session nobody asked to stop was armed by the end
\* of its output; without one the session's row says that it runs.
SessionSound(s) ==
  /\ output[s].phase # "none"
  /\ output[s].phase \in Alive =>
       /\ ~Waits(queue, s, StopNames)
       /\ timers[s] > 0 => session[s].pendingRelease
  /\ output[s].phase \notin Alive => timers[s] > 0 \/ Waits(queue, s, StopNames)
  /\ session[s].pendingRelease => timers[s] > 0
  /\ ~session[s].pendingRelease /\ timers[s] > 0 =>
       ~Waits(queue, s, AnyButStopping) /\ ~Runs(session[s].targetId)
  /\ ~session[s].pendingRelease /\ timers[s] = 0 =>
       /\ ~Waits(queue, s, {"stopping"})
       /\ runtime[session[s].targetId].transport \in Running

\* A serial not yet given out has left no trace.
Untraced(s) == s >= nextSessionSerial => timers[s] = 0 /\ ~Waits(queue, s, SignalNames)

\* RunningIsBacked for every id, so that a new target starts out sound.
Backed(t) ==
  ~shuttingDown /\ Runs(t) =>
    \E s \in SessionsOf(t) : runtime[t].sessionSerial = s /\ ~session[s].pendingRelease

ReleaseSound ==
  /\ StopIsLast(queue)
  /\ \A s \in Sessions : SessionSound(s)
  /\ \A s \in Serials \ Sessions : output[s].phase = "none"
  /\ \A s \in Serials : Untraced(s)
  /\ \A t \in Ids : Backed(t)

RInv == IInv /\ ReleaseSound

-----------------------------------------------------------------------------
(* The queue *)

LEMMA WaitsPost ==
  ASSUME NEW q \in Seq(Signal), NEW r \in Serials, NEW name \in SignalNames, NEW s, NEW names
  PROVE  Waits(Post(q, r, name), s, names) <=> Waits(q, s, names) \/ (r = s /\ name \in names)
<1> DEFINE m == [serial |-> r, name |-> name]
           p == Append(q, m)
<1>1. m \in Signal
  BY DEF Signal
<1>2. /\ Len(q) \in Nat /\ Len(p) = Len(q) + 1 /\ p[Len(q) + 1] = m
      /\ \A i \in 1 .. Len(q) : p[i] = q[i]
  BY <1>1, AppendProperties, LenProperties
<1>3. Waits(q, s, names) => Waits(p, s, names)
  BY <1>2 DEF Waits
<1>4. r = s /\ name \in names => Waits(p, s, names)
  BY <1>2 DEF Waits
<1>5. ASSUME NEW i \in 1 .. Len(p), p[i].serial = s, p[i].name \in names
      PROVE  Waits(q, s, names) \/ (r = s /\ name \in names)
  <2>1. CASE i \in 1 .. Len(q)
    BY <1>2, <1>5, <2>1 DEF Waits
  <2>2. CASE i = Len(q) + 1
    BY <1>2, <1>5, <2>2
  <2> QED BY <1>2, <2>1, <2>2
<1> QED BY <1>3, <1>4, <1>5 DEF Waits, Post

LEMMA WaitsTail ==
  ASSUME NEW q \in Seq(Signal), q # <<>>, NEW s, NEW names
  PROVE  Waits(q, s, names) <=> \/ Waits(Tail(q), s, names)
                                \/ Head(q).serial = s /\ Head(q).name \in names
<1>1. /\ Len(q) \in Nat \ {0} /\ Len(Tail(q)) = Len(q) - 1 /\ Head(q) = q[1]
      /\ \A i \in 1 .. Len(Tail(q)) : Tail(q)[i] = q[i + 1]
  BY HeadTailProperties, EmptySeq
<1>2. Waits(Tail(q), s, names) => Waits(q, s, names)
  <2> SUFFICES ASSUME NEW i \in 1 .. Len(Tail(q)), Tail(q)[i].serial = s, Tail(q)[i].name \in names
               PROVE  Waits(q, s, names)
    BY DEF Waits
  <2>1. i + 1 \in 1 .. Len(q) /\ q[i + 1].serial = s /\ q[i + 1].name \in names
    BY <1>1
  <2> QED BY <2>1 DEF Waits
<1>3. Head(q).serial = s /\ Head(q).name \in names => Waits(q, s, names)
  BY <1>1 DEF Waits
<1>4. ASSUME NEW i \in 1 .. Len(q), q[i].serial = s, q[i].name \in names
      PROVE  \/ Waits(Tail(q), s, names)
             \/ Head(q).serial = s /\ Head(q).name \in names
  <2>1. CASE i = 1
    BY <1>1, <1>4, <2>1
  <2>2. CASE i # 1
    <3>1. i - 1 \in 1 .. Len(Tail(q)) /\ Tail(q)[i - 1] = q[i]
      BY <1>1, <2>2
    <3> QED BY <1>4, <3>1 DEF Waits
  <2> QED BY <2>1, <2>2
<1> QED BY <1>2, <1>3, <1>4 DEF Waits

LEMMA StopIsLastPost ==
  ASSUME NEW q \in Seq(Signal), NEW r \in Serials, NEW name \in SignalNames, StopIsLast(q),
         name = "stopping" \/ ~Waits(q, r, StopNames)
  PROVE  StopIsLast(Post(q, r, name))
<1> DEFINE m == [serial |-> r, name |-> name]
           p == Append(q, m)
<1>1. m \in Signal
  BY DEF Signal
<1>2. /\ Len(q) \in Nat /\ Len(p) = Len(q) + 1 /\ p[Len(q) + 1] = m
      /\ \A i \in 1 .. Len(q) : p[i] = q[i]
  BY <1>1, AppendProperties, LenProperties
<1>3. ASSUME NEW i \in 1 .. Len(p), NEW j \in 1 .. Len(p), i < j,
             p[i].serial = p[j].serial, p[i].name \in StopNames
      PROVE  p[j].name = "stopping"
  <2>1. i \in 1 .. Len(q) /\ p[i] = q[i]
    BY <1>2, <1>3
  <2>2. CASE j \in 1 .. Len(q)
    BY <1>2, <1>3, <2>1, <2>2 DEF StopIsLast
  <2>3. CASE j = Len(q) + 1
    <3>1. p[j] = m
      BY <1>2, <2>3
    <3>2. Waits(q, r, StopNames)
      BY <1>3, <2>1, <3>1 DEF Waits
    <3> QED BY <3>1, <3>2
  <2> QED BY <1>2, <2>2, <2>3
<1> QED BY <1>3 DEF StopIsLast, Post

LEMMA StopIsLastTail ==
  ASSUME NEW q \in Seq(Signal), q # <<>>, StopIsLast(q)
  PROVE  /\ StopIsLast(Tail(q))
         /\ Head(q).name \in StopNames => ~Waits(Tail(q), Head(q).serial, AnyButStopping)
<1>1. /\ Len(q) \in Nat \ {0} /\ Len(Tail(q)) = Len(q) - 1 /\ Head(q) = q[1]
      /\ \A i \in 1 .. Len(Tail(q)) : Tail(q)[i] = q[i + 1] /\ i + 1 \in 1 .. Len(q)
  BY HeadTailProperties, EmptySeq
<1>2. StopIsLast(Tail(q))
  BY <1>1 DEF StopIsLast
<1>3. Head(q).name \in StopNames => ~Waits(Tail(q), Head(q).serial, AnyButStopping)
  <2> SUFFICES ASSUME Head(q).name \in StopNames, NEW i \in 1 .. Len(Tail(q)),
                      Tail(q)[i].serial = Head(q).serial
               PROVE  Tail(q)[i].name = "stopping"
    BY DEF Waits, AnyButStopping
  <2>1. /\ 1 \in 1 .. Len(q) /\ i + 1 \in 1 .. Len(q) /\ 1 < i + 1
        /\ Tail(q)[i] = q[i + 1] /\ Head(q) = q[1]
    BY <1>1
  <2> QED BY <2>1 DEF StopIsLast
<1> QED BY <1>2, <1>3

-----------------------------------------------------------------------------
(* What a step leaves alone *)

SameSession(s) ==
  /\ session'[s].targetId = session[s].targetId
  /\ session'[s].pendingRelease = session[s].pendingRelease
  /\ output'[s].phase = output[s].phase
  /\ timers'[s] = timers[s]
  /\ \A names \in SUBSET SignalNames : Waits(queue', s, names) <=> Waits(queue, s, names)

SameRow(t) == state'[t] = state[t] /\ runtime'[t] = runtime[t]

\* What has to be shown of the serials R and the targets T that a step touches,
\* when these are the sessions of those targets.
LEMMA Frame ==
  ASSUME RInv, NEW R, NEW T,
         StopIsLast(queue'), shuttingDown' = shuttingDown,
         nextSessionSerial' \in {nextSessionSerial, nextSessionSerial + 1},
         \A s \in Sessions : session[s].targetId \in T <=> s \in R,
         \A s \in Serials \ R : SameSession(s),
         \A t \in Ids \ T : SameRow(t),
         \A s \in Serials \cap R :
           /\ session'[s].targetId # NoTarget => SessionSound(s)'
           /\ session'[s].targetId = NoTarget => output'[s].phase = "none"
           /\ Untraced(s)',
         \A t \in Ids \cap T : Backed(t)'
  PROVE  ReleaseSound'
<1>1. ASSUME NEW s \in Sessions'
      PROVE  SessionSound(s)'
  <2>1. s \in Serials /\ session'[s].targetId # NoTarget
    BY <1>1 DEF Sessions
  <2>2. CASE s \in R
    BY <2>1, <2>2
  <2>3. CASE s \notin R
    <3>1. SameSession(s) /\ s \in Sessions
      BY <2>1, <2>3 DEF SameSession, Sessions
    <3>2. session[s].targetId \in Ids \ T
      BY <2>3, <3>1, SessionFacts DEF RInv, IInv
    <3>3. SameRow(session[s].targetId) /\ session'[s].targetId = session[s].targetId
      BY <3>1, <3>2 DEF SameSession
    <3>4. Runs(session[s].targetId)' = Runs(session[s].targetId)
      BY <3>3 DEF Runs, SameRow
    <3>5. \A names \in {StopNames, AnyButStopping, {"stopping"}} :
             Waits(queue', s, names) <=> Waits(queue, s, names)
      BY <3>1 DEF SameSession, StopNames, AnyButStopping, SignalNames
    <3>6. SessionSound(s)
      BY <3>1 DEF RInv, ReleaseSound
    <3> QED BY <3>1, <3>3, <3>4, <3>5, <3>6 DEF SessionSound, SameSession, SameRow
  <2> QED BY <2>2, <2>3
<1>2. ASSUME NEW s \in Serials \ Sessions'
      PROVE  output'[s].phase = "none"
  <2>1. session'[s].targetId = NoTarget
    BY <1>2 DEF Sessions
  <2>2. CASE s \notin R
    BY <2>1, <2>2 DEF SameSession, Sessions, RInv, ReleaseSound
  <2> QED BY <2>1, <2>2
<1>3. ASSUME NEW s \in Serials
      PROVE  Untraced(s)'
  <2>1. CASE s \notin R
    <3>1. SameSession(s) /\ Untraced(s)
      BY <2>1 DEF RInv, ReleaseSound
    <3>2. s >= nextSessionSerial' => s >= nextSessionSerial
      BY DEF RInv, IInv, Types, RestTypeOK, Serials
    <3>3. Waits(queue', s, SignalNames) <=> Waits(queue, s, SignalNames)
      BY <3>1 DEF SameSession
    <3> QED BY <3>1, <3>2, <3>3 DEF Untraced, SameSession
  <2> QED BY <2>1
<1>4. ASSUME NEW t \in Ids
      PROVE  Backed(t)'
  <2>1. CASE t \notin T
    <3>1. SameRow(t) /\ Backed(t)
      BY <2>1 DEF RInv, ReleaseSound
    <3>2. Runs(t)' = Runs(t)
      BY <3>1 DEF Runs, SameRow
    <3>3. ASSUME NEW s \in SessionsOf(t)
          PROVE  s \in SessionsOf(t)' /\ session'[s].pendingRelease = session[s].pendingRelease
      <4>1. s \in Sessions /\ session[s].targetId = t /\ s \in Serials
        BY SessionsAssumption DEF SessionsOf, Sessions
      <4>2. SameSession(s)
        BY <2>1, <4>1
      <4> QED BY <4>1, <4>2 DEF SameSession, SessionsOf
    <3> QED BY <3>1, <3>2, <3>3 DEF Backed, SameRow
  <2> QED BY <2>1
<1> QED BY <1>1, <1>2, <1>3, <1>4 DEF ReleaseSound

\* What a session that is not released keeps of its soundness, but for its row
\* and its signals.
LEMMA SerialFacts ==
  ASSUME RInv, NEW s \in Sessions
  PROVE  s \in Serials /\ s < nextSessionSerial /\ SessionSound(s)
<1>1. s \in Serials /\ session[s].targetId # NoTarget
  BY DEF Sessions
<1>2. ~(s >= nextSessionSerial)
  BY <1>1 DEF RInv, IInv, SessionsSound, SerialsUnused
<1> QED BY <1>1, <1>2 DEF RInv, IInv, Types, RestTypeOK, Serials, ReleaseSound

\* A step on the one session of a target.
LEMMA OneFrame ==
  ASSUME RInv, NEW t \in Ids, NEW r \in SessionsOf(t),
         StopIsLast(queue'), shuttingDown' = shuttingDown,
         nextSessionSerial' = nextSessionSerial,
         \A s \in Serials \ {r} : SameSession(s),
         \A u \in Ids \ {t} : SameRow(u),
         session'[r].targetId # NoTarget => SessionSound(r)',
         session'[r].targetId = NoTarget => output'[r].phase = "none",
         Backed(t)'
  PROVE  ReleaseSound'
<1>1. r \in Serials /\ r \in Sessions /\ session[r].targetId = t
  BY SessionsAssumption DEF SessionsOf, Sessions
<1>2. \A s \in Sessions : session[s].targetId \in {t} <=> s \in {r}
  BY <1>1, SessionFacts DEF RInv, IInv, Sessions
<1>3. r < nextSessionSerial /\ nextSessionSerial \in Nat /\ r \in Nat
  BY <1>1, SerialFacts DEF RInv, IInv, Types, RestTypeOK, Serials
<1>4. Untraced(r)'
  BY <1>3 DEF Untraced
<1>5. /\ \A s \in Serials \cap {r} :
           /\ session'[s].targetId # NoTarget => SessionSound(s)'
           /\ session'[s].targetId = NoTarget => output'[s].phase = "none"
           /\ Untraced(s)'
      /\ \A u \in Ids \cap {t} : Backed(u)'
  BY <1>4
<1> QED BY <1>2, <1>5, Frame

LEMMA OtherSignals ==
  ASSUME NEW q \in Seq(Signal), NEW r \in Serials, NEW name \in SignalNames, NEW s, s # r, NEW names
  PROVE  /\ Waits(Post(q, r, name), s, names) <=> Waits(q, s, names)
         /\ q # <<>> /\ Head(q).serial = r => (Waits(Tail(q), s, names) <=> Waits(q, s, names))
  BY WaitsPost, WaitsTail

\* obs_output_stop and obs_output_force_stop at most say "stopping".
LEMMA PostStoppingFacts ==
  ASSUME NEW q \in Seq(Signal), NEW s \in Serials, StopIsLast(q)
  PROVE  /\ StopIsLast(PostStopping(q, s))
         /\ \A names \in SUBSET SignalNames : \A u \in Serials :
              u # s \/ "stopping" \notin names =>
                (Waits(PostStopping(q, s), u, names) <=> Waits(q, u, names))
<1>1. "stopping" \in SignalNames
  BY DEF SignalNames
<1> QED BY <1>1, StopIsLastPost, WaitsPost DEF PostStopping

-----------------------------------------------------------------------------
(* stopTarget and releaseSession *)

LEMMA StopSessionSound ==
  ASSUME RInv, ~shuttingDown, NEW t \in Ids, NEW r \in SessionsOf(t), StopSession(t, r),
         shuttingDown' = shuttingDown, nextSessionSerial' = nextSessionSerial
  PROVE  ReleaseSound'
<1>1. r \in Serials /\ r \in Sessions /\ session[r].targetId = t
  BY SessionsAssumption DEF SessionsOf, Sessions
<1> USE DEF RInv, IInv
<1>2. SessionSound(r) /\ StopIsLast(queue) /\ Backed(t)
  BY <1>1 DEF ReleaseSound
<1>3. ~Runs(t)'
  <2>1. state'[t] = "Stopping" /\ runtime[t] \in Status /\ runtime \in [Ids -> Status]
    BY DEF StopSession, Types, SessionsTypeOK
  <2>2. CASE SessionMatches(t, runtime[t].sessionSerial)
    <3>1. runtime'[t].transport = "Stopping"
      BY <2>1, <2>2 DEF StopSession, SetRuntimeTransport
    <3> QED BY <2>1, <3>1 DEF Runs, Running
  <2>3. CASE ~SessionMatches(t, runtime[t].sessionSerial)
    <3>1. runtime' = runtime
      BY <2>3 DEF StopSession, SetRuntimeTransport
    <3>2. ~Runs(t)
      BY <1>2, <2>3 DEF Backed, SessionMatches
    <3> QED BY <2>1, <3>1, <3>2 DEF Runs
  <2> QED BY <2>2, <2>3
<1>4. \A u \in Ids \ {t} : SameRow(u)
  BY StopSessionEffect DEF SameRow
<1>5. Backed(t)'
  BY <1>3 DEF Backed
<1>6. CASE session[r].pendingRelease
  <2>1. UNCHANGED <<session, output, queue, timers>>
    BY <1>6 DEF StopSession
  <2>2. \A s \in Serials \ {r} : SameSession(s)
    BY <2>1 DEF SameSession
  <2>3. SessionSound(r)'
    BY <1>1, <1>2, <1>6, <2>1 DEF SessionSound
  <2>4. output'[r].phase # "none" /\ session'[r].targetId # NoTarget
    BY <1>1, <1>2, <2>1 DEF SessionSound, Sessions
  <2> QED BY <1>2, <1>4, <1>5, <2>1, <2>2, <2>3, <2>4, OneFrame
<1>7. CASE ~session[r].pendingRelease
  <2>1. /\ session' = [session EXCEPT ![r].pendingRelease = TRUE, ![r].releasePolls = 0]
        /\ output' = [output EXCEPT ![r] = Stopped(r, "asked")]
        /\ queue' = PostStopping(queue, r)
        /\ timers' = ArmReleaseTimer(timers, r)
    BY <1>7 DEF StopSession
  <2>2. /\ session \in [Serials -> Session] /\ output \in [Serials -> Output]
        /\ timers \in [Serials -> Nat] /\ queue \in Seq(Signal)
    BY DEF Types, SessionsTypeOK
  <2>3. /\ session'[r].targetId = t /\ session'[r].pendingRelease
        /\ output'[r].phase = output[r].phase /\ timers'[r] = timers[r] + 1
    BY <1>1, <2>1, <2>2 DEF Session, Output, Stopped, ArmReleaseTimer
  <2>4. \A s \in Serials \ {r} : /\ session'[s] = session[s] /\ output'[s] = output[s]
                                 /\ timers'[s] = timers[s]
    BY <1>1, <2>1, <2>2 DEF ArmReleaseTimer
  <2>5. StopIsLast(queue')
    BY <1>1, <1>2, <2>1, <2>2, PostStoppingFacts
  <2>6. \A s \in Serials \ {r} : SameSession(s)
    BY <1>1, <1>2, <2>1, <2>2, <2>4, PostStoppingFacts DEF SameSession
  <2>7. Waits(queue', r, StopNames) <=> Waits(queue, r, StopNames)
    BY <1>1, <1>2, <2>1, <2>2, PostStoppingFacts DEF StopNames, SignalNames
  <2>8. timers[r] \in Nat /\ timers'[r] > 0
    BY <1>1, <2>2, <2>3
  <2>9. SessionSound(r)'
    BY <1>1, <1>2, <2>3, <2>7, <2>8 DEF SessionSound
  <2>10. session'[r].targetId # NoTarget
    BY <2>3, SessionsAssumption
  <2> QED BY <1>4, <1>5, <2>5, <2>6, <2>9, <2>10, OneFrame
<1> QED BY <1>6, <1>7

\* releaseSession, when its caller was told that the output has stopped or
\* reacts to a timer of a session that is being stopped or has ended.
LEMMA ReleaseSessionKeepsSound ==
  ASSUME RInv, NEW t \in Ids, NEW r \in SessionsOf(t),
         NEW st \in [Ids -> States], NEW rt \in [Ids -> Status],
         NEW tm \in [Serials -> Nat], NEW q \in Seq(Signal),
         ReleaseSession(r, st, rt, tm, q),
         shuttingDown' = shuttingDown, nextSessionSerial' = nextSessionSerial,
         \A u \in Ids \ {t} : st[u] = state[u] /\ rt[u] = runtime[u],
         \A s \in Serials \ {r} :
           /\ tm[s] = timers[s]
           /\ \A names \in SUBSET SignalNames : Waits(q, s, names) <=> Waits(queue, s, names),
         StopIsLast(q),
         output[r].phase \in Alive => ~Waits(q, r, StopNames) /\ session[r].pendingRelease,
         ~session[r].pendingRelease => ~Waits(q, r, AnyButStopping),
         ~session[r].pendingRelease \/ ~shuttingDown =>
           st[t] \notin {"Starting", "Live"} /\ rt[t].transport \notin Running
  PROVE  ReleaseSound'
<1>1. r \in Serials /\ r \in Sessions /\ session[r].targetId = t
  BY SessionsAssumption DEF SessionsOf, Sessions
<1> USE DEF RInv, IInv
<1>2. SessionSound(r)
  BY <1>1 DEF ReleaseSound
<1>3. /\ session \in [Serials -> Session] /\ output \in [Serials -> Output]
  BY DEF Types, SessionsTypeOK
<1>4. CASE OutputActive(r)
  <2>1. /\ \E n : session' = [session EXCEPT ![r].releasePolls = n]
        /\ output' \in {output, [output EXCEPT ![r] = Stopped(r, "forced")]}
        /\ queue' \in {q, PostStopping(q, r)}
        /\ timers' = ArmReleaseTimer(tm, r)
        /\ state' = st /\ runtime' = rt
    BY <1>4 DEF ReleaseSession
  <2>2. /\ session'[r].targetId = t
        /\ session'[r].pendingRelease = session[r].pendingRelease
        /\ output'[r].phase = output[r].phase /\ timers'[r] = tm[r] + 1
    BY <1>1, <1>3, <2>1 DEF Session, Output, Stopped, ArmReleaseTimer
  <2>3. \A s \in Serials \ {r} : /\ session'[s] = session[s] /\ output'[s] = output[s]
                                 /\ timers'[s] = timers[s]
    BY <1>1, <1>3, <2>1 DEF ArmReleaseTimer
  <2>4. StopIsLast(queue')
    BY <1>1, <2>1, PostStoppingFacts
  <2>5. \A s \in Serials \ {r} : SameSession(s)
    <3> SUFFICES ASSUME NEW s \in Serials \ {r}
                 PROVE  SameSession(s)
      OBVIOUS
    <3>1. \A names \in SUBSET SignalNames : Waits(queue', s, names) <=> Waits(q, s, names)
      <4>1. CASE queue' = q
        BY <4>1
      <4>2. CASE queue' = PostStopping(q, r)
        <5> HIDE DEF RInv, IInv
        <5> QED BY <1>1, <4>2, PostStoppingFacts
      <4> QED BY <2>1, <4>1, <4>2
    <3>2. \A names \in SUBSET SignalNames : Waits(q, s, names) <=> Waits(queue, s, names)
      OBVIOUS
    <3> QED BY <2>3, <3>1, <3>2 DEF SameSession
  <2>6. /\ Waits(queue', r, StopNames) <=> Waits(q, r, StopNames)
        /\ Waits(queue', r, AnyButStopping) <=> Waits(q, r, AnyButStopping)
    <3>1. /\ StopNames \in SUBSET SignalNames /\ AnyButStopping \in SUBSET SignalNames
          /\ "stopping" \notin StopNames /\ "stopping" \notin AnyButStopping
      BY DEF StopNames, AnyButStopping, SignalNames
    <3> QED BY <1>1, <2>1, <3>1, PostStoppingFacts
  <2>7. tm[r] \in Nat /\ timers'[r] > 0
    BY <1>1, <2>2
  <2>8. ~session[r].pendingRelease \/ ~shuttingDown => ~Runs(t)'
    BY <2>1 DEF Runs
  <2>9. SessionSound(r)'
    BY <1>1, <1>2, <2>2, <2>6, <2>7, <2>8 DEF SessionSound
  <2>10. Backed(t)'
    BY <2>8 DEF Backed
  <2>11. session'[r].targetId # NoTarget
    BY <2>2, SessionsAssumption
  <2>12. \A u \in Ids \ {t} : SameRow(u)
    BY <2>1 DEF SameRow
  <2> QED BY <2>4, <2>5, <2>9, <2>10, <2>11, <2>12, OneFrame
<1>5. CASE ~OutputActive(r)
  <2>1. /\ session' = [session EXCEPT ![r] = NoSession]
        /\ output' = [output EXCEPT ![r] = NoOutput]
        /\ queue' = q /\ timers' = tm
    BY <1>5 DEF ReleaseSession
  <2>2. session'[r].targetId = NoTarget /\ output'[r].phase = "none"
    BY <1>1, <1>3, <2>1 DEF NoSession, NoOutput
  <2>3. \A s \in Serials \ {r} : SameSession(s)
    BY <1>1, <1>3, <2>1 DEF SameSession
  <2>4. /\ \A u \in Ids \ {t} : state'[u] = state[u] /\ runtime'[u] = runtime[u]
        /\ ~shuttingDown => /\ state'[t] \notin {"Starting", "Live"}
                            /\ runtime'[t].transport \notin Running
    <3>1. CASE state' = [st EXCEPT ![t] = "Stopped"] /\ runtime' = [rt EXCEPT ![t] = NoStatus]
      BY <1>1, <3>1 DEF NoStatus, Running
    <3>2. CASE Settled(t, st, rt)
      BY <1>1, <3>2 DEF Settled, NoStatus, Running
    <3> QED BY <1>1, <1>5, <3>1, <3>2 DEF ReleaseSession
  <2>5. Backed(t)' /\ \A u \in Ids \ {t} : SameRow(u)
    BY <2>4 DEF Backed, Runs, SameRow
  <2> QED BY <2>1, <2>2, <2>3, <2>5, OneFrame
<1> QED BY <1>4, <1>5

-----------------------------------------------------------------------------
(* ReleaseSound is inductive, action by action. *)

\* Nothing here depends on the configuration, the files or the profile.
LEMMA UntouchedReleases ==
  ASSUME RInv, UNCHANGED <<state, runtime, session, nextSessionSerial, shuttingDown,
                           timers, output, queue>>
  PROVE  ReleaseSound'
<1> DEFINE none == {}
<1>1. \A s \in Serials \ none : SameSession(s)
  BY DEF SameSession
<1>2. \A t \in Ids \ none : SameRow(t)
  BY DEF SameRow
<1>3. StopIsLast(queue')
  BY DEF RInv, ReleaseSound
<1>4. \A x : x \notin none
  OBVIOUS
<1> HIDE DEF none
<1> QED BY <1>1, <1>2, <1>3, <1>4, Frame

\* The row of a target without a session may say anything but that it runs.
LEMMA IdleRow ==
  ASSUME RInv, NEW t \in Ids, ~HasSession(t),
         UNCHANGED <<session, shuttingDown, timers, output, queue>>,
         nextSessionSerial' \in {nextSessionSerial, nextSessionSerial + 1},
         \A u \in Ids \ {t} : SameRow(u), ~Runs(t)'
  PROVE  ReleaseSound'
<1> DEFINE none == {}
           only == {t}
<1>1. \A s \in Serials \ none : SameSession(s)
  BY DEF SameSession
<1>2. \A s \in Sessions : session[s].targetId \in only <=> s \in none
  BY DEF HasSession, SessionsOf, Sessions
<1>3. StopIsLast(queue') /\ \A u \in Ids \cap only : Backed(u)'
  BY DEF RInv, ReleaseSound, Backed
<1>4. (\A x : x \notin none) /\ \A u \in Ids \ only : SameRow(u)
  OBVIOUS
<1> HIDE DEF none, only
<1> QED BY <1>1, <1>2, <1>3, <1>4, Frame

LEMMA WaitsSubset ==
  ASSUME NEW q, NEW s, NEW few, NEW many, few \subseteq many, Waits(q, s, few)
  PROVE  Waits(q, s, many)
  BY DEF Waits

LEMMA EditReleases ==
  ASSUME RInv, NEW t \in Ids, NEW kind \in Kinds,
         \/ AddTarget(t, kind) \/ AddRuntimeTarget(t, kind)
         \/ MutateTargetForUi(t, kind) \/ SetTargetSceneMode(t, kind)
  PROVE  ReleaseSound'
  BY UntouchedReleases
     DEF AddTarget, AddRuntimeTarget, MutateTargetForUi, SetTargetSceneMode, Edited

LEMMA StartReleases ==
  ASSUME RInv, NEW t \in Ids, StartTarget(t)
  PROVE  ReleaseSound'
<1> USE DEF RInv, IInv
<1>1. CASE StartRefused(t)
  <2>1. /\ UNCHANGED <<session, nextSessionSerial, shuttingDown, timers, output, queue>>
        /\ runtime[t].transport \notin Running
        /\ state' = [state EXCEPT ![t] = "Stopping"]
        /\ runtime' = SetRuntimeTransport(runtime, t, runtime[t].sessionSerial, "Stopping")
    BY <1>1 DEF StartRefused
  <2>2. state'[t] = "Stopping" /\ runtime'[t].transport \notin Running
    BY <2>1 DEF SetRuntimeTransport, Types, SessionsTypeOK, Running
  <2>3. \A u \in Ids \ {t} : SameRow(u)
    BY <2>1 DEF SetRuntimeTransport, SameRow
  <2>4. ~Runs(t)'
    BY <2>2 DEF Runs
  <2>5. CASE HasSession(t)
    <3>1. PICK r \in SessionsOf(t) : TRUE
      BY <2>5 DEF HasSession
    <3>2. r \in Serials /\ r \in Sessions /\ session[r].targetId = t
      BY <3>1, SessionsAssumption DEF SessionsOf, Sessions
    <3>3. SessionSound(r) /\ StopIsLast(queue)
      BY <3>2 DEF ReleaseSound
    <3>4. SessionSound(r)'
      BY <2>1, <2>4, <3>2, <3>3 DEF SessionSound
    <3>5. Backed(t)' /\ \A s \in Serials \ {r} : SameSession(s)
      BY <2>1, <2>4 DEF Backed, SameSession
    <3>6. session'[r].targetId # NoTarget
      BY <2>1, <3>2, SessionsAssumption
    <3> QED BY <2>1, <2>3, <3>3, <3>4, <3>5, <3>6, OneFrame
  <2> QED BY <2>1, <2>3, <2>4, <2>5, IdleRow
<1>2. CASE StartFails(t)
  <2>1. /\ ~HasSession(t) /\ UNCHANGED <<session, shuttingDown, timers, output, queue>>
        /\ nextSessionSerial' \in {nextSessionSerial, nextSessionSerial + 1}
    BY <1>2 DEF StartFails, MayStart
  <2>2. /\ state'[t] = "Error" /\ runtime'[t].transport = "Failed"
        /\ \A u \in Ids \ {t} : SameRow(u)
    BY <1>2 DEF StartFails, SameRow, Types, SessionsTypeOK
  <2>3. ~Runs(t)'
    BY <2>2 DEF Runs, Running
  <2> QED BY <2>1, <2>2, <2>3, IdleRow
<1>3. CASE StartIndependentTarget(t)
  <2>0. nextSessionSerial \in Serials
    BY <1>3 DEF StartIndependentTarget, Types, RestTypeOK, Serials
  <2> PICK r \in Serials : r = nextSessionSerial
    BY <2>0
  <2> DEFINE new == [targetId |-> t, kind |-> config[t],
                     pendingRelease |-> FALSE, releasePolls |-> 0]
  <2>1. /\ r \in Serials /\ r \in Nat /\ nextSessionSerial' = r + 1
        /\ ~HasSession(t) /\ UNCHANGED <<shuttingDown, timers>>
        /\ session' = [session EXCEPT ![r] = new]
        /\ state' = [state EXCEPT ![t] = "Starting"]
        /\ runtime' = [runtime EXCEPT ![t] = [sessionSerial |-> r, transport |-> "Starting"]]
        /\ output' = [output EXCEPT ![r] = [phase |-> "connecting", stop |-> "no"]]
        /\ queue' = Post(queue, r, "starting")
    BY <1>3, SessionsAssumption
       DEF StartIndependentTarget, MayStart, Types, RestTypeOK, Serials
  <2>2. /\ queue \in Seq(Signal) /\ session \in [Serials -> Session]
        /\ output \in [Serials -> Output] /\ timers \in [Serials -> Nat]
        /\ state \in [Ids -> States] /\ runtime \in [Ids -> Status]
    BY DEF Types, SessionsTypeOK
  <2>3. /\ session[r].targetId = NoTarget
        /\ timers[r] = 0 /\ ~Waits(queue, r, SignalNames)
    BY <2>1 DEF SessionsSound, SerialsUnused, ReleaseSound, Untraced
  <2>4. /\ ~Waits(queue, r, StopNames) /\ ~Waits(queue, r, {"stopping"})
        /\ "starting" \in SignalNames /\ "starting" \notin StopNames
    BY <2>3, WaitsSubset DEF StopNames, SignalNames
  <2>5. StopIsLast(queue')
    BY <2>1, <2>2, <2>4, StopIsLastPost DEF ReleaseSound
  <2>6. ~Waits(queue', r, StopNames) /\ ~Waits(queue', r, {"stopping"})
    BY <2>1, <2>2, <2>4, WaitsPost
  <2>7. /\ session'[r].targetId = t /\ ~session'[r].pendingRelease
        /\ output'[r].phase = "connecting" /\ timers'[r] = 0
        /\ state'[t] = "Starting" /\ runtime'[t].transport = "Starting"
        /\ runtime'[t].sessionSerial = r
        /\ \A u \in Ids \ {t} : SameRow(u)
    BY <2>1, <2>2, <2>3 DEF SameRow
  <2>8. SessionSound(r)' /\ Untraced(r)' /\ Backed(t)'
    <3>1. SessionSound(r)'
      BY <2>6, <2>7 DEF SessionSound, Alive, Running
    <3>2. Untraced(r)'
      <4>1. ~(r >= nextSessionSerial')
        BY <2>1
      <4> QED BY <4>1 DEF Untraced
    <3>3. Backed(t)'
      BY <2>1, <2>7 DEF Backed, SessionsOf
    <3> QED BY <3>1, <3>2, <3>3
  <2>9. \A s \in Serials \ {r} : SameSession(s)
    <3> SUFFICES ASSUME NEW s \in Serials \ {r}
                 PROVE  SameSession(s)
      OBVIOUS
    <3>1. session'[s] = session[s] /\ output'[s] = output[s] /\ timers'[s] = timers[s]
      BY <2>1, <2>2
    <3>2. \A names \in SUBSET SignalNames : Waits(queue', s, names) <=> Waits(queue, s, names)
      BY <2>1, <2>2, <2>4, OtherSignals
    <3> QED BY <3>1, <3>2 DEF SameSession
  <2>10. \A s \in Sessions : session[s].targetId \in {t} <=> s \in {r}
    BY <2>1, <2>3 DEF Sessions, HasSession, SessionsOf
  <2>11. session'[r].targetId # NoTarget
    BY <2>7, SessionsAssumption
  <2> HIDE DEF new, RInv, IInv
  <2>12. /\ \A s \in Serials \cap {r} :
              /\ session'[s].targetId # NoTarget => SessionSound(s)'
              /\ session'[s].targetId = NoTarget => output'[s].phase = "none"
              /\ Untraced(s)'
         /\ \A u \in Ids \cap {t} : Backed(u)'
    BY <2>8, <2>11
  <2>13. nextSessionSerial' \in {nextSessionSerial, nextSessionSerial + 1}
    BY <2>1
  <2> QED BY <2>1, <2>5, <2>7, <2>9, <2>10, <2>12, <2>13, Frame
<1> QED BY <1>1, <1>2, <1>3 DEF StartTarget

LEMMA TargetStepReleases ==
  ASSUME RInv, NEW t \in Ids, TargetStep(t)
  PROVE  ReleaseSound'
<1>1. CASE \E r \in SessionsOf(t) : StopSession(t, r) /\ (StopTarget(t) \/ RemoveTarget(t))
  <2>1. /\ ~shuttingDown /\ shuttingDown' = shuttingDown
        /\ nextSessionSerial' = nextSessionSerial
    BY <1>1 DEF StopTarget, RemoveTarget
  <2> QED BY <1>1, <2>1, StopSessionSound
<1>2. CASE /\ StopTarget(t) \/ RemoveTarget(t)
           /\ ~(\E r \in SessionsOf(t) : StopSession(t, r))
  <2>1. /\ ~HasSession(t)
        /\ UNCHANGED <<session, nextSessionSerial, shuttingDown, timers, output, queue>>
        /\ state' = [state EXCEPT ![t] = "Stopped"]
        /\ runtime' = [runtime EXCEPT ![t] = NoStatus]
    BY <1>2 DEF StopTarget, RemoveTarget
  <2>2. ~Runs(t)' /\ \A u \in Ids \ {t} : SameRow(u)
    BY <2>1 DEF Runs, SameRow, NoStatus, Running, RInv, IInv, Types, SessionsTypeOK
  <2> QED BY <2>1, <2>2, IdleRow
<1> QED BY <1>1, <1>2, EditReleases, StartReleases DEF TargetStep

\* A signal taken from the queue leaves the signals of the others.
LEMMA TailFacts ==
  ASSUME RInv, queue # <<>>, NEW r, Head(queue).serial = r
  PROVE  /\ Tail(queue) \in Seq(Signal) /\ StopIsLast(Tail(queue))
         /\ \A s \in Serials \ {r} : \A names \in SUBSET SignalNames :
              Waits(Tail(queue), s, names) <=> Waits(queue, s, names)
         /\ \A names : Waits(queue, r, names) <=> \/ Waits(Tail(queue), r, names)
                                                  \/ Head(queue).name \in names
<1>1. queue \in Seq(Signal) /\ StopIsLast(queue)
  BY DEF RInv, IInv, Types, SessionsTypeOK, ReleaseSound
<1>2. Tail(queue) \in Seq(Signal)
  BY <1>1
<1> QED BY <1>1, <1>2, WaitsTail, StopIsLastTail

LEMMA IgnoredSignalReleases ==
  ASSUME RInv, HandleIgnoredSignal
  PROVE  ReleaseSound'
<1> DEFINE m == Head(queue)
<1>1. /\ queue # <<>> /\ SignalIgnored(m) /\ queue' = Tail(queue)
      /\ UNCHANGED <<state, runtime, session, nextSessionSerial, shuttingDown, timers, output>>
  BY DEF HandleIgnoredSignal
<1>2. PICK r \in Serials : m.serial = r
  BY <1>1, SignalFacts DEF Signal, RInv, IInv, Types
<1>3. \A s \in Serials \ {r} : SameSession(s)
  BY <1>1, <1>2, TailFacts DEF SameSession
<1>4. StopIsLast(queue')
  BY <1>1, <1>2, TailFacts
<1>5. \A t \in Ids : SameRow(t)
  BY <1>1 DEF SameRow
<1>6. CASE r \in Sessions
  <2>1. session[r].pendingRelease /\ m.name \notin StopNames
    BY <1>1, <1>2, <1>6 DEF SignalIgnored
  <2>2. Waits(queue', r, StopNames) <=> Waits(queue, r, StopNames)
    BY <1>1, <1>2, <2>1, TailFacts
  <2>3. SessionSound(r)'
    BY <1>1, <1>6, <2>1, <2>2, SerialFacts DEF SessionSound
  <2>4. PICK t \in Ids : session[r].targetId = t /\ r \in SessionsOf(t)
    BY <1>6, SessionFacts DEF RInv, IInv
  <2>5. Backed(t)'
    BY <1>1, <2>4 DEF Backed, Runs, SessionsOf, RInv, ReleaseSound
  <2>6. session'[r].targetId # NoTarget
    BY <1>1, <2>4, SessionsAssumption
  <2> QED BY <1>1, <1>3, <1>4, <1>5, <2>3, <2>4, <2>5, <2>6, OneFrame
<1>7. CASE r \notin Sessions
  <2> DEFINE none == {}
             only == {r}
  <2>1. output'[r].phase = "none" /\ session'[r].targetId = NoTarget
    BY <1>1, <1>7 DEF RInv, ReleaseSound, Sessions
  <2>2. Untraced(r)'
    <3>1. Waits(queue', r, SignalNames) => Waits(queue, r, SignalNames)
      BY <1>1, <1>2, TailFacts
    <3>2. Untraced(r)
      BY DEF RInv, ReleaseSound
    <3> QED BY <1>1, <3>1, <3>2 DEF Untraced
  <2>3. \A s \in Sessions : session[s].targetId \in none <=> s \in only
    BY <1>7
  <2>4. /\ \A s \in Serials \cap only :
             /\ session'[s].targetId # NoTarget => SessionSound(s)'
             /\ session'[s].targetId = NoTarget => output'[s].phase = "none"
             /\ Untraced(s)'
        /\ \A t \in Ids \cap none : Backed(t)'
        /\ \A t \in Ids \ none : SameRow(t)
        /\ \A s \in Serials \ only : SameSession(s)
    BY <1>3, <1>5, <2>1, <2>2
  <2> HIDE DEF none, only
  <2> QED BY <1>1, <1>4, <2>3, <2>4, Frame
<1> QED BY <1>6, <1>7

\* The first signals of a session come before it is asked to stop or ends, and
\* "stopping" only after, so the row they write agrees with the session.
LEMMA OutputSignalReleases ==
  ASSUME RInv, HandleOutputSignal
  PROVE  ReleaseSound'
<1> DEFINE m == Head(queue)
<1>1. /\ queue # <<>> /\ ~SignalIgnored(m) /\ m.name \notin StopNames /\ queue' = Tail(queue)
      /\ UNCHANGED <<session, nextSessionSerial, shuttingDown, timers, output>>
  BY DEF HandleOutputSignal
<1>2. PICK r \in Sessions : m.serial = r /\ m \in Signal
  BY <1>1, SignalFacts DEF RInv, IInv, Types
<1>3. PICK t \in Ids : session[r].targetId = t /\ r \in SessionsOf(t)
  BY SessionFacts DEF RInv, IInv
<1>4. r \in Serials /\ SessionSound(r)
  BY SerialFacts
<1>5. /\ \A s \in Serials \ {r} : SameSession(s)
      /\ StopIsLast(queue')
      /\ Waits(queue', r, StopNames) <=> Waits(queue, r, StopNames)
      /\ Waits(queue', r, {"stopping"}) => Waits(queue, r, {"stopping"})
      /\ Waits(queue', r, AnyButStopping) => Waits(queue, r, AnyButStopping)
      /\ m.name \in {"stopping"} => Waits(queue, r, {"stopping"})
      /\ m.name \in AnyButStopping => Waits(queue, r, AnyButStopping)
  BY <1>1, <1>2, TailFacts DEF SameSession
<1>6. /\ m.name \in SignalNames
      /\ m.name # "stopping" <=> m.name \in AnyButStopping
      /\ session[r].pendingRelease => m.name = "stopping"
  BY <1>1, <1>2 DEF Signal, AnyButStopping, SignalIgnored
<1>7. /\ state'[t] = SignalState(m.name)
      /\ runtime'[t] = [sessionSerial |-> r, transport |-> SignalTransport(m.name)]
      /\ \A u \in Ids \ {t} : SameRow(u)
  BY <1>2, <1>3 DEF HandleOutputSignal, SetRuntimeTransport, SessionMatches, SameRow,
                    RInv, IInv, Types, SessionsTypeOK
<1>8. /\ m.name = "stopping" => ~Runs(t)'
      /\ m.name # "stopping" => runtime'[t].transport \in Running
  BY <1>7 DEF Runs, SignalState, SignalTransport, Running
<1>9. SessionSound(r)'
  <2>1. /\ session'[r] = session[r] /\ output'[r] = output[r] /\ timers'[r] = timers[r]
    BY <1>1
  <2>2. ~session[r].pendingRelease /\ timers[r] > 0 => m.name = "stopping"
    BY <1>4, <1>5, <1>6 DEF SessionSound
  <2>3. ~session[r].pendingRelease /\ timers[r] = 0 => m.name # "stopping"
    BY <1>4, <1>5 DEF SessionSound
  <2> QED BY <1>3, <1>4, <1>5, <1>8, <2>1, <2>2, <2>3 DEF SessionSound
<1>10. Backed(t)'
  <2>1. Runs(t)' => ~session'[r].pendingRelease
    BY <1>1, <1>6, <1>8
  <2>2. r \in SessionsOf(t)' /\ runtime'[t].sessionSerial = r
    BY <1>1, <1>3, <1>7 DEF SessionsOf
  <2> QED BY <2>1, <2>2 DEF Backed
<1>11. session'[r].targetId # NoTarget
  BY <1>1, <1>3, SessionsAssumption
<1> QED BY <1>1, <1>3, <1>5, <1>7, <1>9, <1>10, <1>11, OneFrame

LEMMA OutputStoppedReleases ==
  ASSUME RInv, HandleOutputStopped
  PROVE  ReleaseSound'
<1> DEFINE m == Head(queue)
<1>1. /\ queue # <<>> /\ ~SignalIgnored(m) /\ m.name \in StopNames
      /\ UNCHANGED <<nextSessionSerial, shuttingDown>>
  BY DEF HandleOutputStopped
<1>2. PICK r \in Sessions : m.serial = r
  BY <1>1, SignalFacts DEF RInv, IInv, Types
<1>3. PICK t \in Ids : session[r].targetId = t /\ r \in SessionsOf(t)
  BY SessionFacts DEF RInv, IInv
<1>4. r \in Serials /\ SessionSound(r)
  BY SerialFacts
<1> DEFINE st == [state EXCEPT ![t] = "Stopped"]
           rt == IF m.name = "stop"
                   THEN [runtime EXCEPT ![t] = NoStatus]
                   ELSE SetRuntimeTransport(runtime, t, r, "Failed")
<1>5. ReleaseSession(r, st, rt, timers, Tail(queue))
  BY <1>2, <1>3 DEF HandleOutputStopped
<1>6. st \in [Ids -> States] /\ st[t] = "Stopped" /\ \A u \in Ids \ {t} : st[u] = state[u]
  BY DEF RInv, IInv, Types, SessionsTypeOK, States
<1>7. /\ rt \in [Ids -> Status]
      /\ \A u \in Ids \ {t} : rt[u] = runtime[u]
      /\ rt[t].transport \notin Running
  <2>1. SessionMatches(t, r) /\ r \in Serials \cup {0} /\ "Failed" \in Transports
    BY <1>3, <1>4 DEF SessionMatches, Transports
  <2>2. SetRuntimeTransport(runtime, t, r, "Failed") \in [Ids -> Status]
    BY <2>1, SetRuntimeTransportType DEF RInv, IInv, Types, SessionsTypeOK
  <2> QED BY <2>1, <2>2, NoValuesType
          DEF SetRuntimeTransport, NoStatus, Running, RInv, IInv, Types, SessionsTypeOK
<1>8. /\ Tail(queue) \in Seq(Signal) /\ StopIsLast(Tail(queue))
      /\ Waits(queue, r, StopNames)
      /\ \A s \in Serials \ {r} : \A names \in SUBSET SignalNames :
           Waits(Tail(queue), s, names) <=> Waits(queue, s, names)
  BY <1>1, <1>2, TailFacts
<1>9. ~Waits(Tail(queue), r, AnyButStopping)
  BY <1>1, <1>2, StopIsLastTail DEF RInv, IInv, Types, SessionsTypeOK, ReleaseSound
<1>10. output[r].phase \notin Alive
  BY <1>4, <1>8 DEF SessionSound
<1>11. timers \in [Serials -> Nat]
  BY DEF RInv, IInv, Types, SessionsTypeOK
<1> DEFINE q == Tail(queue)
<1>12. /\ \A u \in Ids \ {t} : st[u] = state[u] /\ rt[u] = runtime[u]
       /\ \A s \in Serials \ {r} :
            /\ timers[s] = timers[s]
            /\ \A names \in SUBSET SignalNames : Waits(q, s, names) <=> Waits(queue, s, names)
       /\ st[t] \notin {"Starting", "Live"}
  BY <1>6, <1>7, <1>8
<1> HIDE DEF st, rt, m, q
<1>13. q \in Seq(Signal) /\ StopIsLast(q) /\ ~Waits(q, r, AnyButStopping)
  BY <1>8, <1>9 DEF q
<1>14. ReleaseSession(r, st, rt, timers, q)
  BY <1>5 DEF q
<1> QED BY <1>1, <1>3, <1>6, <1>7, <1>10, <1>11, <1>12, <1>13, <1>14, ReleaseSessionKeepsSound

LEMMA ReleaseTimerReleases ==
  ASSUME RInv, NEW r \in Serials, ReleaseTimer(r)
  PROVE  ReleaseSound'
<1> DEFINE tm == [timers EXCEPT ![r] = @ - 1]
<1> USE DEF RInv, IInv
<1>1. /\ timers[r] > 0 /\ UNCHANGED <<nextSessionSerial, shuttingDown>>
      /\ timers \in [Serials -> Nat] /\ queue \in Seq(Signal)
      /\ state \in [Ids -> States] /\ runtime \in [Ids -> Status]
  BY DEF ReleaseTimer, Types, SessionsTypeOK
<1>2. /\ tm \in [Serials -> Nat] /\ tm[r] = timers[r] - 1
      /\ \A s \in Serials \ {r} : tm[s] = timers[s]
  BY <1>1
<1>3. CASE r \in Sessions
  <2>1. ReleaseSession(r, state, runtime, tm, queue)
    BY <1>3 DEF ReleaseTimer
  <2>2. PICK t \in Ids : session[r].targetId = t /\ r \in SessionsOf(t)
    BY <1>3, SessionFacts
  <2>3. SessionSound(r) /\ Backed(t) /\ StopIsLast(queue)
    BY <1>3, SerialFacts DEF ReleaseSound
  <2>4. /\ output[r].phase \in Alive =>
             ~Waits(queue, r, StopNames) /\ session[r].pendingRelease
        /\ ~session[r].pendingRelease => ~Waits(queue, r, AnyButStopping) /\ ~Runs(t)
    BY <1>1, <2>2, <2>3 DEF SessionSound
  <2>5. session[r].pendingRelease /\ ~shuttingDown => ~Runs(t)
    <3>1. \A s \in SessionsOf(t) : s = r
      BY <1>3, <2>2, SessionFacts DEF SessionsOf
    <3> QED BY <2>3, <3>1 DEF Backed
  <2>6. ~session[r].pendingRelease \/ ~shuttingDown =>
          state[t] \notin {"Starting", "Live"} /\ runtime[t].transport \notin Running
    BY <2>4, <2>5 DEF Runs
  <2>7. \A s \in Serials \ {r} :
          /\ tm[s] = timers[s]
          /\ \A names \in SUBSET SignalNames : Waits(queue, s, names) <=> Waits(queue, s, names)
    BY <1>2
  <2>8. ~session[r].pendingRelease => ~Waits(queue, r, AnyButStopping)
    BY <2>4
  <2>9. output[r].phase \in Alive => ~Waits(queue, r, StopNames) /\ session[r].pendingRelease
    BY <2>4
  <2>10. /\ tm \in [Serials -> Nat] /\ queue \in Seq(Signal) /\ StopIsLast(queue)
         /\ state \in [Ids -> States] /\ runtime \in [Ids -> Status]
         /\ shuttingDown' = shuttingDown /\ nextSessionSerial' = nextSessionSerial
    BY <1>1, <1>2, <2>3
  <2>11. \A u \in Ids \ {t} : state[u] = state[u] /\ runtime[u] = runtime[u]
    OBVIOUS
  <2>12. RInv
    OBVIOUS
  <2>13. r \in SessionsOf(t)
    BY <2>2
  <2> HIDE DEF tm, RInv, IInv
  <2> QED
    BY ONLY <2>1, <2>6, <2>7, <2>8, <2>9, <2>10, <2>11, <2>12, <2>13, t \in Ids, ReleaseSessionKeepsSound
<1>4. CASE r \notin Sessions
  <2> DEFINE none == {}
             only == {r}
  <2>1. /\ UNCHANGED <<state, runtime, session, output, queue>> /\ timers' = tm
    BY <1>4 DEF ReleaseTimer
  <2>2. output'[r].phase = "none" /\ session'[r].targetId = NoTarget
    BY <1>4, <2>1 DEF ReleaseSound, Sessions
  <2>3. Untraced(r)'
    BY <1>1 DEF ReleaseSound, Untraced
  <2>4. \A s \in Sessions : session[s].targetId \in none <=> s \in only
    BY <1>4
  <2>5. /\ \A s \in Serials \cap only :
             /\ session'[s].targetId # NoTarget => SessionSound(s)'
             /\ session'[s].targetId = NoTarget => output'[s].phase = "none"
             /\ Untraced(s)'
        /\ \A t \in Ids \cap none : Backed(t)'
        /\ \A t \in Ids \ none : SameRow(t)
        /\ \A s \in Serials \ only : SameSession(s)
    BY <1>2, <2>1, <2>2, <2>3 DEF SameRow, SameSession
  <2>6. StopIsLast(queue')
    BY <2>1 DEF ReleaseSound
  <2> HIDE DEF none, only
  <2> QED BY <1>1, <2>4, <2>5, <2>6, Frame
<1> QED BY <1>3, <1>4

LEMMA AllReleasedReleases ==
  ASSUME RInv, AllReleased, UNCHANGED <<nextSessionSerial, timers, queue>>,
         \A t \in Ids : ~shuttingDown' => ~Runs(t)'
  PROVE  ReleaseSound'
<1>1. \A s \in Serials : session'[s].targetId = NoTarget /\ output'[s].phase = "none"
  BY DEF AllReleased, NoSession, NoOutput
<1>2. Sessions' = {}
  BY <1>1 DEF Sessions
<1>3. \A s \in Serials : Untraced(s)'
  BY DEF RInv, ReleaseSound, Untraced
<1>4. \A t \in Ids : Backed(t)'
  BY DEF Backed
<1> QED BY <1>1, <1>2, <1>3, <1>4 DEF RInv, ReleaseSound

\* A scene collection change releases the sessions of the targets it touches.
LEMMA SceneCollectionReleases ==
  ASSUME RInv, PrepareForSceneCollectionChange
  PROVE  ReleaseSound'
<1> DEFINE ended  == {s \in Sessions : config[session[s].targetId] = "scene"}
           owners == {session[s].targetId : s \in ended}
<1>1. /\ session' = [s \in Serials |-> IF s \in ended THEN NoSession ELSE session[s]]
      /\ output' = [s \in Serials |-> IF s \in ended THEN NoOutput ELSE output[s]]
      /\ state' = [t \in Ids |-> IF t \in owners THEN "Stopped" ELSE state[t]]
      /\ runtime' = [t \in Ids |-> IF t \in owners THEN NoStatus ELSE runtime[t]]
      /\ UNCHANGED <<nextSessionSerial, shuttingDown, timers, queue>>
  BY DEF PrepareForSceneCollectionChange
<1>2. \A s \in Sessions : session[s].targetId \in owners <=> s \in ended
  OBVIOUS
<1>3. ended \subseteq Sessions
  OBVIOUS
<1> HIDE DEF ended, owners
<1>4. \A s \in Serials \ ended : SameSession(s)
  BY <1>1 DEF SameSession
<1>5. \A t \in Ids \ owners : SameRow(t)
  BY <1>1 DEF SameRow
<1>6. \A s \in Serials \cap ended :
        session'[s].targetId = NoTarget /\ output'[s].phase = "none" /\ Untraced(s)'
  <2>1. \A s \in Serials : Untraced(s)'
    BY <1>1 DEF RInv, ReleaseSound, Untraced
  <2> QED BY <1>1, <2>1 DEF NoSession, NoOutput
<1>7. \A t \in Ids \cap owners : Backed(t)'
  BY <1>1 DEF Backed, Runs, NoStatus, Running
<1>8. StopIsLast(queue') /\ shuttingDown' = shuttingDown
      /\ nextSessionSerial' \in {nextSessionSerial, nextSessionSerial + 1}
  BY <1>1 DEF RInv, ReleaseSound
<1> QED BY <1>2, <1>4, <1>5, <1>6, <1>7, <1>8, Frame

\* A step of an output that is alive: what it signals says whether it still is.
LEMMA ObsSignalReleases ==
  ASSUME RInv, NEW r \in Sessions, output[r].phase \in Alive,
         UNCHANGED <<state, runtime, session, nextSessionSerial, shuttingDown, timers>>,
         NEW phase \in Alive \cup {"ending", "ended"},
         output' = [output EXCEPT ![r].phase = phase],
         StopIsLast(queue'),
         \A s \in Serials \ {r} : \A names \in SUBSET SignalNames :
           Waits(queue', s, names) <=> Waits(queue, s, names),
         Waits(queue', r, {"stopping"}) <=> Waits(queue, r, {"stopping"}),
         Waits(queue', r, StopNames) <=> phase \notin Alive
  PROVE  ReleaseSound'
<1>1. r \in Serials /\ SessionSound(r)
  BY SerialFacts
<1>2. PICK t \in Ids : session[r].targetId = t /\ r \in SessionsOf(t)
  BY SessionFacts DEF RInv, IInv
<1>3. output \in [Serials -> Output] /\ timers \in [Serials -> Nat]
  BY DEF RInv, IInv, Types, SessionsTypeOK
<1>4. output'[r].phase = phase /\ phase # "none"
  BY <1>1, <1>3 DEF Output, Alive
<1>5. \A s \in Serials \ {r} : SameSession(s)
  BY <1>1, <1>3 DEF SameSession
<1>6. SessionSound(r)'
  <2>1. timers[r] > 0 => session[r].pendingRelease
    BY <1>1 DEF SessionSound
  <2> QED BY <1>1, <1>4, <2>1 DEF SessionSound
<1>7. Backed(t)'
  BY DEF Backed, Runs, SessionsOf, RInv, ReleaseSound
<1>8. \A u \in Ids \ {t} : SameRow(u)
  BY DEF SameRow
<1>9. session'[r].targetId # NoTarget
  BY <1>2, SessionsAssumption
<1> QED BY <1>2, <1>5, <1>6, <1>7, <1>8, <1>9, OneFrame

LEMMA ObsStepReleases ==
  ASSUME RInv, NEW r \in Serials, ObsStep(r)
  PROVE  ReleaseSound'
<1>1. UNCHANGED <<state, runtime, session, nextSessionSerial, shuttingDown, timers>>
  BY DEF ObsStep, ObsConnects, ObsLosesConnection, ObsReconnects, ObsStops, ObsCaptureEnds,
         ObsOnly
<1>2. output \in [Serials -> Output] /\ queue \in Seq(Signal) /\ StopIsLast(queue)
  BY DEF RInv, IInv, Types, SessionsTypeOK, ReleaseSound
<1>3. output[r].phase # "none"
  BY DEF ObsStep, ObsConnects, ObsLosesConnection, ObsReconnects, ObsStops, ObsCaptureEnds
<1>4. r \in Sessions
  BY <1>3 DEF RInv, ReleaseSound
<1>5. SessionSound(r)
  BY <1>4, SerialFacts
<1>6. ASSUME output[r].phase \in Alive
      PROVE  ~Waits(queue, r, StopNames)
  BY <1>5, <1>6 DEF SessionSound
<1>7. CASE ObsConnects(r)
  <2> DEFINE q == Post(queue, r, "activate")
  <2>1. /\ output' = [output EXCEPT ![r].phase = "active"]
        /\ queue' = Post(q, r, "start") /\ output[r].phase \in Alive
    BY <1>7 DEF ObsConnects, Alive
  <2>2. "activate" \in AnyButStopping \ StopNames /\ "start" \in AnyButStopping \ StopNames
    BY DEF AnyButStopping, StopNames, SignalNames
  <2>3. /\ q \in Seq(Signal) /\ StopIsLast(q) /\ ~Waits(q, r, StopNames)
        /\ Waits(q, r, {"stopping"}) <=> Waits(queue, r, {"stopping"})
        /\ \A s \in Serials \ {r} : \A names \in SUBSET SignalNames :
             Waits(q, s, names) <=> Waits(queue, s, names)
    BY <1>2, <1>6, <2>1, <2>2, PostType, StopIsLastPost, WaitsPost DEF AnyButStopping
  <2> HIDE DEF q
  <2>4. /\ StopIsLast(queue') /\ ~Waits(queue', r, StopNames)
        /\ Waits(queue', r, {"stopping"}) <=> Waits(queue, r, {"stopping"})
        /\ \A s \in Serials \ {r} : \A names \in SUBSET SignalNames :
             Waits(queue', s, names) <=> Waits(queue, s, names)
    BY <2>1, <2>2, <2>3, StopIsLastPost, WaitsPost DEF AnyButStopping
  <2>5. "active" \in Alive
    BY DEF Alive
  <2> QED BY <1>1, <1>4, <2>1, <2>4, <2>5, ObsSignalReleases
<1>8. ASSUME NEW name \in AnyButStopping, NEW phase \in Alive \cup {"ending", "ended"},
             output[r].phase \in Alive, queue' = Post(queue, r, name),
             output' = [output EXCEPT ![r].phase = phase],
             name \in StopNames <=> phase \notin Alive
      PROVE  ReleaseSound'
  <2>1. name \in SignalNames /\ name # "stopping"
    BY DEF AnyButStopping
  <2>2. StopIsLast(queue')
    BY <1>2, <1>6, <1>8, <2>1, StopIsLastPost
  <2>3. /\ Waits(queue', r, StopNames) <=> phase \notin Alive
        /\ Waits(queue', r, {"stopping"}) <=> Waits(queue, r, {"stopping"})
        /\ \A s \in Serials \ {r} : \A names \in SUBSET SignalNames :
             Waits(queue', s, names) <=> Waits(queue, s, names)
    BY <1>2, <1>6, <1>8, <2>1, WaitsPost
  <2> QED BY <1>1, <1>4, <1>8, <2>2, <2>3, ObsSignalReleases
<1>9. CASE ObsLosesConnection(r) \/ ObsReconnects(r)
  BY <1>8, <1>9 DEF ObsLosesConnection, ObsReconnects, AnyButStopping, SignalNames, StopNames, Alive
<1>10. ASSUME NEW name \in StopNames, ObsStops(r, name) PROVE ReleaseSound'
  <2> DEFINE phase == IF output[r].phase = "connecting" THEN "ended" ELSE "ending"
  <2>1. /\ output[r].phase \in Alive /\ queue' = Post(queue, r, name)
        /\ output' = [output EXCEPT ![r].phase = phase]
    BY <1>2, <1>10 DEF ObsStops, Alive
  <2>2. name \in AnyButStopping /\ phase \in {"ending", "ended"} /\ phase \notin Alive
    BY DEF AnyButStopping, StopNames, SignalNames, Alive
  <2> HIDE DEF phase
  <2> QED BY <1>8, <2>1, <2>2
<1>11. CASE ObsCaptureEnds(r)
  <2>1. /\ output' = [output EXCEPT ![r].phase = "ended"] /\ queue' = queue
        /\ output[r].phase = "ending"
    BY <1>11 DEF ObsCaptureEnds
  <2>2. output'[r].phase = "ended" /\ \A s \in Serials \ {r} : SameSession(s)
    BY <1>1, <1>2, <2>1 DEF SameSession, Output
  <2>3. PICK t \in Ids : session[r].targetId = t /\ r \in SessionsOf(t)
    BY <1>4, SessionFacts DEF RInv, IInv
  <2>4. SessionSound(r)'
    BY <1>1, <1>5, <2>1, <2>2 DEF SessionSound, Alive, Runs
  <2>5. Backed(t)' /\ \A u \in Ids \ {t} : SameRow(u)
    BY <1>1 DEF Backed, Runs, SessionsOf, RInv, ReleaseSound, SameRow
  <2>6. session'[r].targetId # NoTarget
    BY <1>1, <2>3, SessionsAssumption
  <2> QED BY <1>1, <1>2, <2>1, <2>2, <2>3, <2>4, <2>5, <2>6, OneFrame
<1> QED BY <1>7, <1>9, <1>10, <1>11 DEF ObsStep

-----------------------------------------------------------------------------
(* Theorems *)

LEMMA InitReleases == Init => RInv
<1> SUFFICES ASSUME Init PROVE RInv
  OBVIOUS
<1>1. StopIsLast(queue) /\ \A s \in Serials : Untraced(s)
  BY DEF Init, StopIsLast, Untraced, Waits
<1>2. Sessions = {} /\ \A s \in Serials : output[s].phase = "none"
  BY DEF Init, Sessions, NoSession, NoOutput
<1>3. \A t \in Ids : Backed(t)
  BY DEF Init, Backed, Runs, NoStatus, Running
<1> QED BY <1>1, <1>2, <1>3, InitSound DEF RInv, ReleaseSound

LEMMA NextReleases == RInv /\ [Next]_vars => RInv'
<1> SUFFICES ASSUME RInv, [Next]_vars PROVE RInv'
  OBVIOUS
<1>1. IInv'
  BY NextSound DEF RInv
<1>2. ASSUME UNCHANGED vars \/ \E p \in Profiles : ObsSwitchesProfile(p) PROVE ReleaseSound'
  BY <1>2, UntouchedReleases DEF ObsSwitchesProfile, vars
<1>3. ASSUME ReloadForCurrentProfile PROVE ReleaseSound'
  <2>1. \A t \in Ids : ~Runs(t)'
    BY <1>3 DEF ReloadForCurrentProfile, Runs, NoStatus, Running
  <2> QED BY <1>3, <2>1, AllReleasedReleases DEF ReloadForCurrentProfile
<1>4. ASSUME PrepareForUnload PROVE ReleaseSound'
  BY <1>4, AllReleasedReleases DEF PrepareForUnload
<1>5. ReleaseSound'
  BY <1>2, <1>3, <1>4, TargetStepReleases, IgnoredSignalReleases, OutputSignalReleases,
     OutputStoppedReleases, SceneCollectionReleases, ReleaseTimerReleases, ObsStepReleases
     DEF Next, ManagerStep, HandleSignal
<1> QED BY <1>1, <1>5 DEF RInv

\* The properties below and what they rest on hold in every behaviour.
THEOREM ReleaseInvariance == Spec => []RInv
  BY InitReleases, NextReleases, PTL DEF Spec

\* Whatever order stop requests, late signals and release timers come in, a row
\* that shows a target starting or live belongs to that target's session, which
\* nobody has asked to stop.
THEOREM RowsTellTheTruth == Spec => []RunningIsBacked
<1>1. RInv => RunningIsBacked
  <2> SUFFICES ASSUME RInv, ~shuttingDown, NEW t \in Targets, Runs(t)
               PROVE  \E s \in SessionsOf(t) :
                        /\ runtime[t] = [sessionSerial |-> s, transport |-> runtime[t].transport]
                        /\ ~session[s].pendingRelease
    BY DEF RunningIsBacked, Runs
  <2>1. t \in Ids /\ runtime[t] \in Status
    BY DEF Targets, RInv, IInv, Types, SessionsTypeOK
  <2>2. PICK s \in SessionsOf(t) : runtime[t].sessionSerial = s /\ ~session[s].pendingRelease
    BY <2>1 DEF RInv, ReleaseSound, Backed
  <2>3. runtime[t] = [sessionSerial |-> s, transport |-> runtime[t].transport]
    BY <2>1, <2>2 DEF Status
  <2> QED BY <2>2, <2>3
<1> QED BY <1>1, ReleaseInvariance, PTL

\* Polling never stops early: a session being stopped has a timer, and the end
\* of an output that ended by itself is in the queue or already polled.
THEOREM NoReleaseIsForgotten == Spec => []ReleaseIsScheduled
<1>1. RInv => ReleaseIsScheduled
  <2> SUFFICES ASSUME RInv, NEW s \in Sessions
               PROVE  /\ session[s].pendingRelease => timers[s] > 0
                      /\ output[s].phase \in {"ending", "ended"} =>
                           timers[s] > 0 \/ Waits(queue, s, StopNames)
    BY DEF ReleaseIsScheduled, Waits
  <2>1. SessionSound(s)
    BY SerialFacts
  <2> QED BY <2>1 DEF SessionSound, Alive
<1> QED BY <1>1, ReleaseInvariance, PTL

-----------------------------------------------------------------------------
(* Why sessions end *)

EndsForCause(s) ==
  \/ session[s].pendingRelease
  \/ output[s].phase = "ended"
  \/ ReloadForCurrentProfile
  \/ PrepareForSceneCollectionChange /\ session[s].kind = "scene"
  \/ PrepareForUnload

AllEndForCause == \A s \in Sessions : session'[s] = NoSession => EndsForCause(s)

LEMMA NoneEnds ==
  ASSUME \A s \in Sessions : session'[s].targetId = session[s].targetId
  PROVE  AllEndForCause
  BY DEF AllEndForCause, Sessions, NoSession

\* An output found inactive while it only connects was asked to stop.
LEMMA ReleaseSessionEnds ==
  ASSUME RInv, NEW r \in Sessions, NEW st, NEW rt, NEW tm, NEW q,
         ReleaseSession(r, st, rt, tm, q),
         output[r].phase \in Alive => session[r].pendingRelease
  PROVE  AllEndForCause
<1>1. r \in Serials /\ SessionSound(r)
  BY SerialFacts
<1>2. session \in [Serials -> Session] /\ output \in [Serials -> Output]
  BY DEF RInv, IInv, Types, SessionsTypeOK
<1>3. CASE OutputActive(r)
  <2>1. \E n : session' = [session EXCEPT ![r].releasePolls = n]
    BY <1>3 DEF ReleaseSession
  <2>2. \A s \in Sessions : session'[s].targetId = session[s].targetId
    BY <1>1, <1>2, <2>1 DEF Session, Sessions
  <2> QED BY <2>2, NoneEnds
<1>4. CASE ~OutputActive(r)
  <2>1. session' = [session EXCEPT ![r] = NoSession]
    BY <1>4 DEF ReleaseSession
  <2>2. \A s \in Sessions \ {r} : session'[s] # NoSession
    BY <1>1, <1>2, <2>1 DEF Sessions, NoSession
  <2>3. session[r].pendingRelease \/ output[r].phase = "ended"
    BY <1>1, <1>2, <1>4 DEF OutputActive, SessionSound, Output, Alive
  <2> QED BY <2>2, <2>3 DEF AllEndForCause, EndsForCause
<1> QED BY <1>3, <1>4

LEMMA NextEndsForCause ==
  ASSUME RInv, Next
  PROVE  AllEndForCause
<1>1. ASSUME NEW t \in Ids, TargetStep(t) PROVE AllEndForCause
  <2>1. CASE \E r \in SessionsOf(t) : StopSession(t, r)
    BY <2>1, StopSessionEffect, NoneEnds DEF RInv, IInv, Sessions
  <2>2. CASE StartIndependentTarget(t)
    <3>1. session[nextSessionSerial].targetId = NoTarget
      BY <2>2 DEF StartIndependentTarget, Serials, RInv, IInv, SessionsSound, SerialsUnused,
                  Types, RestTypeOK
    <3>2. \A s \in Sessions : session'[s] = session[s]
      BY <2>2, <3>1 DEF StartIndependentTarget, Sessions, RInv, IInv, Types, SessionsTypeOK
    <3> QED BY <3>2, NoneEnds
  <2>3. CASE session' = session
    BY <2>3, NoneEnds
  <2> QED BY <1>1, <2>1, <2>2, <2>3
          DEF TargetStep, AddTarget, AddRuntimeTarget, MutateTargetForUi, SetTargetSceneMode,
              Edited, StartTarget, StartRefused, StartFails, StopTarget, RemoveTarget
<1>2. ASSUME HandleOutputStopped PROVE AllEndForCause
  <2> DEFINE r == Head(queue).serial
  <2>1. queue # <<>> /\ ~SignalIgnored(Head(queue)) /\ Head(queue).name \in StopNames
    BY <1>2 DEF HandleOutputStopped
  <2>2. r \in Sessions /\ Waits(queue, r, StopNames)
    BY <2>1, SignalFacts, TailFacts DEF RInv, IInv, Types
  <2>3. output[r].phase \notin Alive
    BY <2>2, SerialFacts DEF SessionSound
  <2>4. \E st, rt, tm, q : ReleaseSession(r, st, rt, tm, q)
    BY <1>2 DEF HandleOutputStopped
  <2> HIDE DEF r
  <2> QED BY <2>2, <2>3, <2>4, ReleaseSessionEnds
<1>3. ASSUME NEW r \in Serials, ReleaseTimer(r) PROVE AllEndForCause
  <2>1. CASE r \in Sessions
    <3>1. timers[r] > 0 /\ \E tm : ReleaseSession(r, state, runtime, tm, queue)
      BY <1>3, <2>1 DEF ReleaseTimer
    <3>2. output[r].phase \in Alive => session[r].pendingRelease
      BY <2>1, <3>1, SerialFacts DEF SessionSound
    <3> QED BY <2>1, <3>1, <3>2, ReleaseSessionEnds
  <2>2. CASE r \notin Sessions
    BY <1>3, <2>2, NoneEnds DEF ReleaseTimer
  <2> QED BY <2>1, <2>2
<1>4. ASSUME PrepareForSceneCollectionChange PROVE AllEndForCause
  <2> SUFFICES ASSUME NEW s \in Sessions, session'[s] = NoSession
               PROVE  session[s].kind = "scene"
    BY <1>4 DEF AllEndForCause, EndsForCause
  <2>1. s \in Serials /\ session[s] # NoSession
    BY DEF Sessions, NoSession
  <2>2. config[session[s].targetId] = "scene"
    BY <1>4, <2>1 DEF PrepareForSceneCollectionChange
  <2> QED BY <2>2 DEF RInv, IInv, SessionsSound, SessionRunsItsTarget
<1>5. ASSUME ReloadForCurrentProfile \/ PrepareForUnload PROVE AllEndForCause
  BY <1>5 DEF AllEndForCause, EndsForCause
<1>6. ASSUME session' = session PROVE AllEndForCause
  BY <1>6, NoneEnds
<1> QED BY <1>1, <1>2, <1>3, <1>4, <1>5, <1>6
        DEF Next, ManagerStep, HandleSignal, HandleIgnoredSignal, HandleOutputSignal,
            ObsSwitchesProfile, ObsStep, ObsConnects, ObsLosesConnection, ObsReconnects,
            ObsStops, ObsCaptureEnds, ObsOnly

\* A release timer or a stop signal left over from an earlier session never ends
\* the session its target has by then.
THEOREM SessionsEndForCause == Spec => SessionEndsForCause
<1>1. RInv /\ [Next]_vars => [AllEndForCause]_vars
  BY NextEndsForCause
<1> QED BY <1>1, ReleaseInvariance, PTL DEF Spec, SessionEndsForCause, AllEndForCause, EndsForCause

-----------------------------------------------------------------------------
(* 4. REFINEMENT: the sessions implement TargetLifecycle. *)

\* prepareForUnload leaves no session behind, and nothing starts one after it.
Quiet == shuttingDown => Sessions = {}

LInv == RInv /\ Quiet

LEMMA NextQuiet ==
  ASSUME LInv, [Next]_vars
  PROVE  Quiet' /\ (shuttingDown => UNCHANGED <<config, state, runtime, session>>)
<1>1. ASSUME shuttingDown
      PROVE  shuttingDown' = shuttingDown /\ UNCHANGED <<config, state, runtime, session>>
  <2>1. Sessions = {}
    BY <1>1 DEF LInv, Quiet
  <2>2. ~HandleOutputSignal /\ ~HandleOutputStopped
    BY <2>1 DEF HandleOutputSignal, HandleOutputStopped, SignalIgnored
  <2>3. ASSUME NEW t \in Ids PROVE ~TargetStep(t)
    BY <1>1 DEF TargetStep, AddTarget, AddRuntimeTarget, MutateTargetForUi, SetTargetSceneMode,
       StartTarget, StartRefused, StartFails, StartIndependentTarget, MayStart, StopTarget,
       RemoveTarget
  <2>4. ASSUME NEW s \in Serials, ReleaseTimer(s)
        PROVE  shuttingDown' = shuttingDown /\ UNCHANGED <<config, state, runtime, session>>
    BY <2>1, <2>4 DEF ReleaseTimer, targetVars
  <2>5. ASSUME NEW s \in Serials, ObsStep(s)
        PROVE  shuttingDown' = shuttingDown /\ UNCHANGED <<config, state, runtime, session>>
    BY <2>5 DEF ObsStep, ObsConnects, ObsLosesConnection, ObsReconnects, ObsStops,
       ObsCaptureEnds, ObsOnly, targetVars
  <2>6. ASSUME ManagerStep \/ UNCHANGED vars
        PROVE  shuttingDown' = shuttingDown /\ UNCHANGED <<config, state, runtime, session>>
    BY <1>1, <2>2, <2>6 DEF ManagerStep, HandleSignal, HandleIgnoredSignal, ObsSwitchesProfile,
       ReloadForCurrentProfile, PrepareForSceneCollectionChange, PrepareForUnload, vars, targetVars
  <2> QED BY <2>3, <2>4, <2>5, <2>6 DEF Next
<1>2. ASSUME ~shuttingDown, shuttingDown'
      PROVE  Sessions' = {}
  <2>1. shuttingDown' # shuttingDown
    BY <1>2
  <2>2. PrepareForUnload
    BY <2>1 DEF Next, TargetStep, AddTarget, AddRuntimeTarget, MutateTargetForUi,
       SetTargetSceneMode, Edited, StartTarget, StartRefused, StartFails, StartIndependentTarget,
       StopTarget, RemoveTarget, ManagerStep, HandleSignal, HandleIgnoredSignal,
       HandleOutputSignal, HandleOutputStopped, ObsSwitchesProfile, ReloadForCurrentProfile,
       PrepareForSceneCollectionChange, ReleaseTimer, ObsStep, ObsConnects, ObsLosesConnection,
       ObsReconnects, ObsStops, ObsCaptureEnds, ObsOnly, vars
  <2> QED BY <2>2 DEF PrepareForUnload, AllReleased, Sessions, NoSession
<1>3. Quiet'
  <2>1. CASE shuttingDown
    BY <1>1, <2>1 DEF Quiet, LInv, Sessions
  <2>2. CASE ~shuttingDown
    BY <1>2, <2>2 DEF Quiet
  <2> QED BY <2>1, <2>2
<1> QED BY <1>1, <1>3

\* The refinement mapping.
Mapped == [t \in Ids |-> Phase(t)]

\* A step of TargetLifecycle that moves one target from phase a to phase b.
Allowed(a, b) ==
  \/ a = b
  \/ a = "absent" /\ b = "idle"
  \/ a = "idle" /\ b = "running"
  \/ a = "running" /\ b = "closing"
  \/ a \in {"running", "closing"} /\ b = "idle"
  \/ a \in {"idle", "closing"} /\ b = "absent"

LEMMA OneMoves ==
  ASSUME NEW t \in Ids, \A u \in Ids \ {t} : Phase(u)' = Phase(u), Allowed(Phase(t), Phase(t)')
  PROVE  [Lifecycle!Next]_Mapped
<1>1. Mapped' = [Mapped EXCEPT ![t] = Phase(t)']
  BY DEF Mapped
<1>2. Mapped[t] = Phase(t) /\ Mapped = [u \in Ids |-> Phase(u)]
  BY DEF Mapped
<1>3. Phase(t)' = Phase(t) => Mapped' = Mapped
  BY <1>1, <1>2
<1> QED BY <1>1, <1>2, <1>3
        DEF Allowed, Lifecycle!Next, Lifecycle!Appear, Lifecycle!Start, Lifecycle!Close,
            Lifecycle!Finish, Lifecycle!Leave, Mapped

\* One that ends the outputs of any targets at once.
LEMMA ManyMove ==
  ASSUME \A t \in Ids : Phase(t)' = Phase(t) \/ Phase(t)' \in {"absent", "idle"}
  PROVE  [Lifecycle!Next]_Mapped
<1> DEFINE ended == {t \in Ids : Phase(t)' \in {"absent", "idle"}}
           after == [t \in ended |-> Phase(t)']
<1>1. ended \in SUBSET Ids /\ after \in [ended -> {"absent", "idle"}]
  OBVIOUS
<1>2. Mapped' = [t \in Ids |-> IF t \in ended THEN after[t] ELSE Mapped[t]]
  BY DEF Mapped
<1> HIDE DEF ended, after
<1> QED BY <1>1, <1>2 DEF Lifecycle!Next, Lifecycle!Reset, Mapped

LEMMA PhaseFacts ==
  ASSUME Types, SessionsSound, NEW t \in Ids
  PROVE  /\ t \notin Targets <=> Phase(t) = "absent"
         /\ t \in Targets /\ ~HasSession(t) <=> Phase(t) = "idle"
         /\ HasSession(t) /\ runtime[t].transport \in Running <=> Phase(t) = "running"
         /\ HasSession(t) /\ runtime[t].transport \notin Running <=> Phase(t) = "closing"
<1>1. HasSession(t) => t \in Targets
  <2> SUFFICES ASSUME NEW s \in SessionsOf(t) PROVE t \in Targets
    BY DEF HasSession
  <2>1. s \in Sessions /\ session[s].targetId = t
    BY SessionsAssumption DEF SessionsOf, Sessions
  <2> QED BY <2>1 DEF SessionsSound, SessionsHaveTargets
<1>2. t \in Targets <=> config[t] # Absent
  BY DEF Targets
<1> QED BY <1>1, <1>2 DEF Phase

LEMMA PhaseSame ==
  ASSUME NEW t \in Ids, config'[t] = config[t], HasSession(t)' = HasSession(t),
         runtime'[t].transport \in Running <=> runtime[t].transport \in Running
  PROVE  Phase(t)' = Phase(t)
  BY DEF Phase, Targets

\* What the facts about a target after a step say of its phase.
LEMMA PhaseAfter ==
  ASSUME Types', SessionsSound', NEW t \in Ids
  PROVE  /\ t \notin Targets' <=> Phase(t)' = "absent"
         /\ t \in Targets' /\ ~HasSession(t)' <=> Phase(t)' = "idle"
         /\ HasSession(t)' /\ runtime'[t].transport \in Running <=> Phase(t)' = "running"
         /\ HasSession(t)' /\ runtime'[t].transport \notin Running <=> Phase(t)' = "closing"
<1>1. HasSession(t)' => t \in Targets'
  <2> SUFFICES ASSUME HasSession(t)' PROVE t \in Targets'
    OBVIOUS
  <2>1. PICK s \in Serials : session'[s].targetId = t
    BY DEF HasSession, SessionsOf
  <2>2. s \in Sessions'
    BY <2>1, SessionsAssumption DEF Sessions
  <2> QED BY <2>1, <2>2 DEF SessionsSound, SessionsHaveTargets
<1>2. t \in Targets' <=> config'[t] # Absent
  BY DEF Targets
<1> QED BY <1>1, <1>2 DEF Phase

\* A session being stopped, or one whose end has been reported, leaves its
\* target closing.
LEMMA ReleaseSessionRefines ==
  ASSUME LInv, IInv', ~shuttingDown, NEW t \in Ids, NEW r \in SessionsOf(t),
         NEW st \in [Ids -> States], NEW rt \in [Ids -> Status], NEW tm, NEW q,
         ReleaseSession(r, st, rt, tm, q),
         \A u \in Ids \ {t} : st[u] = state[u] /\ rt[u] = runtime[u],
         rt[t].transport \notin Running
  PROVE  [Lifecycle!Next]_Mapped
<1> USE DEF LInv, RInv, IInv
<1>1. r \in Serials /\ r \in Sessions /\ session[r].targetId = t
  BY SessionsAssumption DEF SessionsOf, Sessions
<1>2. session \in [Serials -> Session] /\ config \in [Ids -> Kinds \cup {Absent}]
  BY DEF Types, SessionsTypeOK, TargetsTypeOK
<1>3. HasSession(t) /\ t \in Targets /\ Phase(t) \in {"running", "closing"}
  BY <1>1, PhaseFacts DEF HasSession
<1>4. CASE OutputActive(r)
  <2>1. /\ \E n : session' = [session EXCEPT ![r].releasePolls = n]
        /\ runtime' = rt /\ config' = config
    BY <1>4 DEF ReleaseSession, targetVars
  <2>2. \A s \in Serials : session'[s].targetId = session[s].targetId
    BY <1>1, <1>2, <2>1 DEF Session
  <2>3. \A u \in Ids : HasSession(u)' = HasSession(u)
    BY <2>2 DEF HasSession, SessionsOf
  <2>4. \A u \in Ids \ {t} : Phase(u)' = Phase(u)
    BY <2>1, <2>3, PhaseSame
  <2>5. Phase(t)' = "closing"
    BY <1>3, <2>1, <2>3, PhaseAfter
  <2> QED BY <1>3, <2>4, <2>5, OneMoves DEF Allowed
<1>5. CASE ~OutputActive(r)
  <2>1. session' = [session EXCEPT ![r] = NoSession]
    BY <1>5 DEF ReleaseSession
  <2>2. \A s \in Serials : s # r => session'[s] = session[s] /\ session[s].targetId # t
    BY <1>1, <1>2, <2>1, SessionFacts
  <2>3. session'[r].targetId = NoTarget
    BY <1>1, <1>2, <2>1 DEF NoSession
  <2>4. ~HasSession(t)' /\ \A u \in Ids \ {t} : HasSession(u)' = HasSession(u)
    BY <1>1, <2>2, <2>3, SessionsAssumption DEF HasSession, SessionsOf
  <2>5. /\ \A u \in Ids \ {t} : config'[u] = config[u]
        /\ RemovalPending(t) \/ config'[t] = config[t]
    <3>1. \/ RemovalPending(t) /\ (TargetRemoved(t) \/ TargetKept(t))
          \/ UNCHANGED targetVars
      BY <1>1, <1>5 DEF ReleaseSession
    <3>2. \/ RemovalPending(t) /\ config' = [config EXCEPT ![t] = Absent]
          \/ config' = config
      BY <3>1 DEF TargetRemoved, TargetKept, targetVars
    <3> QED BY <1>2, <3>2
  <2>6. \A u \in Ids \ {t} : runtime'[u] = runtime[u]
    <3>1. runtime' = [rt EXCEPT ![t] = NoStatus] \/ runtime' = rt
      BY <1>1, <1>5 DEF ReleaseSession, Settled
    <3> QED BY <3>1
  <2>7. \A u \in Ids \ {t} : Phase(u)' = Phase(u)
    BY <2>4, <2>5, <2>6, PhaseSame
  <2>8. Phase(t)' \in {"idle", "absent"}
    BY <2>4, PhaseAfter
  <2>9. Phase(t)' = "absent" => Phase(t) = "closing"
    <3> SUFFICES ASSUME Phase(t)' = "absent" PROVE Phase(t) = "closing"
      OBVIOUS
    <3>1. config'[t] = Absent /\ config[t] # Absent
      BY <1>3, PhaseAfter DEF Targets
    <3>2. \E s \in SessionsOf(t) : session[s].pendingRelease
      BY <2>5, <3>1 DEF StoppingSound
    <3>3. session[r].pendingRelease /\ \A s \in SessionsOf(t) : s = r
      BY <2>2, <3>2 DEF SessionsOf
    <3>4. ~Runs(t)
      BY <3>3 DEF ReleaseSound, Backed
    <3> QED BY <1>3, <3>4, PhaseFacts DEF Runs
  <2> QED BY <1>3, <2>7, <2>8, <2>9, OneMoves DEF Allowed
<1> QED BY <1>4, <1>5

LEMMA StopSessionRefines ==
  ASSUME LInv, IInv', ~shuttingDown, NEW t \in Ids, NEW r \in SessionsOf(t), StopSession(t, r),
         config' = config
  PROVE  [Lifecycle!Next]_Mapped
<1> USE DEF LInv, RInv, IInv
<1>1. HasSession(t) /\ Phase(t) \in {"running", "closing"}
  BY PhaseFacts DEF HasSession
<1>2. \A u \in Ids : HasSession(u)' = HasSession(u)
  <2>1. \A s \in Serials : session'[s].targetId = session[s].targetId
    BY StopSessionEffect
  <2> QED BY <2>1 DEF HasSession, SessionsOf
<1>3. \A u \in Ids \ {t} : Phase(u)' = Phase(u)
  BY <1>2, StopSessionEffect, PhaseSame
<1>4. Phase(t)' \in {"running", "closing"}
  BY <1>1, <1>2, PhaseAfter
<1>5. Phase(t) = "closing" => Phase(t)' = "closing"
  <2>1. runtime[t].transport \notin Running => runtime'[t].transport \notin Running
    BY DEF StopSession, SetRuntimeTransport, Types, SessionsTypeOK, Running
  <2> QED BY <1>1, <1>2, <2>1, PhaseFacts, PhaseAfter
<1> QED BY <1>1, <1>3, <1>4, <1>5, OneMoves DEF Allowed

LEMMA TargetStepRefines ==
  ASSUME LInv, IInv', NEW t \in Ids, TargetStep(t)
  PROVE  [Lifecycle!Next]_Mapped
<1> USE DEF LInv, RInv, IInv
<1>1. /\ config \in [Ids -> Kinds \cup {Absent}] /\ session \in [Serials -> Session]
      /\ runtime \in [Ids -> Status]
      /\ \A kind \in Kinds : kind # Absent
  BY SessionsAssumption DEF Types, TargetsTypeOK, SessionsTypeOK, Absent
<1>2. ASSUME session' = session, \A u \in Ids \ {t} : config'[u] = config[u],
             \A u \in Ids \ {t} : runtime'[u] = runtime[u],
             Allowed(Phase(t), Phase(t)')
      PROVE  [Lifecycle!Next]_Mapped
  <2>1. \A u \in Ids : HasSession(u)' = HasSession(u)
    BY <1>2 DEF HasSession, SessionsOf
  <2>2. \A u \in Ids \ {t} : Phase(u)' = Phase(u)
    BY <1>2, <2>1, PhaseSame
  <2> QED BY <1>2, <2>2, OneMoves
<1>3. ASSUME session' = session
      PROVE  HasSession(t)' = HasSession(t)
  BY <1>3 DEF HasSession, SessionsOf
<1>4. CASE \E kind \in Kinds : \/ AddTarget(t, kind) \/ AddRuntimeTarget(t, kind)
                               \/ MutateTargetForUi(t, kind) \/ SetTargetSceneMode(t, kind)
  <2>1. PICK kind \in Kinds : \/ AddTarget(t, kind) \/ AddRuntimeTarget(t, kind)
                              \/ MutateTargetForUi(t, kind) \/ SetTargetSceneMode(t, kind)
    BY <1>4
  <2>2. /\ config' = [config EXCEPT ![t] = kind] /\ UNCHANGED <<session, runtime>>
        /\ config[t] = Absent \/ ~HasSession(t)
    BY <2>1 DEF AddTarget, AddRuntimeTarget, MutateTargetForUi, SetTargetSceneMode, Edited
  <2>3. Phase(t) \in {"absent", "idle"}
    BY <2>2, PhaseFacts DEF Targets
  <2>4. ~HasSession(t)
    BY <2>3, PhaseFacts
  <2>5. Phase(t)' = "idle"
    <3>1. t \in Targets' /\ ~HasSession(t)'
      BY <1>1, <1>3, <2>2, <2>4 DEF Targets
    <3> QED BY <3>1, PhaseAfter
  <2>6. Allowed(Phase(t), Phase(t)')
    BY <2>3, <2>5 DEF Allowed
  <2> QED BY <1>1, <1>2, <2>2, <2>6
<1>5. CASE StartRefused(t) \/ StartFails(t)
  <2>1. /\ config' = config /\ session' = session /\ t \in Targets
        /\ runtime[t].transport \notin Running
        /\ runtime'[t].transport \notin Running
        /\ \A u \in Ids \ {t} : runtime'[u] = runtime[u]
    BY <1>1, <1>5 DEF StartRefused, StartFails, MayStart, SetRuntimeTransport, Running, targetVars
  <2>2. Phase(t)' = Phase(t)
    BY <1>3, <2>1, PhaseSame
  <2>3. Allowed(Phase(t), Phase(t)')
    BY <2>2 DEF Allowed
  <2> QED BY <1>2, <2>1, <2>3
<1>6. CASE StartIndependentTarget(t)
  <2>1. PICK r \in Serials : r = nextSessionSerial
    BY <1>6 DEF StartIndependentTarget, Types, RestTypeOK, Serials
  <2> DEFINE new == [targetId |-> t, kind |-> config[t],
                     pendingRelease |-> FALSE, releasePolls |-> 0]
  <2>2. /\ t \in Targets /\ ~HasSession(t) /\ config' = config
        /\ session' = [session EXCEPT ![r] = new]
        /\ runtime' = [runtime EXCEPT ![t] = [sessionSerial |-> r, transport |-> "Starting"]]
    BY <1>6, <2>1 DEF StartIndependentTarget, MayStart, targetVars
  <2>3. session[r].targetId = NoTarget
    BY <2>1 DEF SessionsSound, SerialsUnused, Types, RestTypeOK, Serials
  <2>4. session'[r].targetId = t /\ \A s \in Serials \ {r} : session'[s] = session[s]
    BY <1>1, <2>2
  <2>5. HasSession(t)' /\ \A u \in Ids \ {t} : HasSession(u)' = HasSession(u)
    BY <2>3, <2>4, SessionsAssumption DEF HasSession, SessionsOf
  <2>6. runtime'[t].transport \in Running /\ \A u \in Ids \ {t} : runtime'[u] = runtime[u]
    BY <1>1, <2>2 DEF Running
  <2>7. \A u \in Ids \ {t} : Phase(u)' = Phase(u)
    BY <2>2, <2>5, <2>6, PhaseSame
  <2>8. Phase(t) = "idle" /\ Phase(t)' = "running"
    BY <2>2, <2>5, <2>6, PhaseFacts, PhaseAfter
  <2> QED BY <2>7, <2>8, OneMoves DEF Allowed
<1>7. CASE \E r \in SessionsOf(t) : StopSession(t, r) /\ (StopTarget(t) \/ RemoveTarget(t))
  <2>1. ~shuttingDown
    BY <1>7 DEF StopTarget, RemoveTarget
  <2>2. HasSession(t)
    BY <1>7 DEF HasSession
  <2>3. config' = config
    BY <1>7, <2>2 DEF StopTarget, RemoveTarget, targetVars
  <2> QED BY <1>7, <2>1, <2>3, StopSessionRefines
<1>8. CASE /\ StopTarget(t) \/ RemoveTarget(t)
           /\ ~(\E r \in SessionsOf(t) : StopSession(t, r))
  <2>1. /\ t \in Targets /\ ~HasSession(t) /\ session' = session
        /\ runtime' = [runtime EXCEPT ![t] = NoStatus]
        /\ config' = config \/ config' = [config EXCEPT ![t] = Absent]
    BY <1>8 DEF StopTarget, RemoveTarget, TargetRemoved
  <2>2. Phase(t) = "idle"
    BY <2>1, PhaseFacts
  <2>3. Phase(t)' \in {"idle", "absent"}
    BY <1>3, <2>1, PhaseAfter
  <2>4. Allowed(Phase(t), Phase(t)')
    BY <2>2, <2>3 DEF Allowed
  <2> QED BY <1>1, <1>2, <2>1, <2>4
<1> QED BY <1>4, <1>5, <1>6, <1>7, <1>8 DEF TargetStep, StartTarget

LEMMA HandleSignalRefines ==
  ASSUME LInv, IInv', ~shuttingDown, HandleSignal
  PROVE  [Lifecycle!Next]_Mapped
<1> USE DEF LInv, RInv, IInv
<1> DEFINE m == Head(queue)
<1>1. CASE HandleIgnoredSignal
  <2>1. UNCHANGED <<config, session, runtime>>
    BY <1>1 DEF HandleIgnoredSignal, targetVars
  <2>2. \A t \in Ids : Phase(t)' = Phase(t)
    BY <2>1, PhaseSame DEF HasSession, SessionsOf
  <2> QED BY <2>2 DEF Mapped
<1>2. ASSUME HandleOutputSignal \/ HandleOutputStopped
      PROVE  \E r \in Sessions : m.serial = r /\ m \in Signal
  BY <1>2, SignalFacts DEF HandleOutputSignal, HandleOutputStopped, Types
<1>3. CASE HandleOutputSignal
  <2>1. PICK r \in Sessions : m.serial = r /\ m \in Signal
    BY <1>2, <1>3
  <2>2. PICK t \in Ids : session[r].targetId = t /\ r \in SessionsOf(t)
    BY SessionFacts
  <2>3. /\ queue # <<>> /\ ~SignalIgnored(m) /\ UNCHANGED <<config, session>>
        /\ runtime' = SetRuntimeTransport(runtime, t, r, SignalTransport(m.name))
    BY <1>3, <2>1, <2>2 DEF HandleOutputSignal, targetVars
  <2>4. /\ runtime'[t].transport = SignalTransport(m.name)
        /\ \A u \in Ids \ {t} : runtime'[u] = runtime[u]
    BY <2>2, <2>3 DEF SetRuntimeTransport, SessionMatches, Types, SessionsTypeOK
  <2>5. HasSession(t) /\ \A u \in Ids : HasSession(u)' = HasSession(u)
    BY <2>2, <2>3 DEF HasSession, SessionsOf
  <2>6. \A u \in Ids \ {t} : Phase(u)' = Phase(u)
    BY <2>3, <2>4, <2>5, PhaseSame
  <2>7. Phase(t) \in {"running", "closing"} /\ Phase(t)' \in {"running", "closing"}
    BY <2>5, PhaseFacts, PhaseAfter
  <2>8. Phase(t)' = "running" => Phase(t) = "running"
    <3> SUFFICES ASSUME Phase(t)' = "running" PROVE Phase(t) = "running"
      OBVIOUS
    <3>1. m.name # "stopping"
      BY <2>4, PhaseAfter DEF SignalTransport, Running
    <3>2. m.name \in AnyButStopping /\ ~session[r].pendingRelease
      BY <1>3, <2>1, <2>3, <3>1 DEF Signal, AnyButStopping, SignalIgnored, HandleOutputSignal
    <3>3. Waits(queue, r, AnyButStopping)
      BY <2>1, <2>3, <3>2, TailFacts
    <3>4. SessionSound(r) /\ timers[r] \in Nat
      BY SerialFacts DEF Types, SessionsTypeOK
    <3>5. runtime[t].transport \in Running
      BY <2>2, <3>2, <3>3, <3>4 DEF SessionSound
    <3> QED BY <2>5, <3>5, PhaseFacts
  <2> QED BY <2>6, <2>7, <2>8, OneMoves DEF Allowed
<1>4. CASE HandleOutputStopped
  <2>1. PICK r \in Sessions : m.serial = r
    BY <1>2, <1>4
  <2>2. PICK t \in Ids : session[r].targetId = t /\ r \in SessionsOf(t)
    BY SessionFacts
  <2> DEFINE st == [state EXCEPT ![t] = "Stopped"]
             rt == IF m.name = "stop"
                     THEN [runtime EXCEPT ![t] = NoStatus]
                     ELSE SetRuntimeTransport(runtime, t, r, "Failed")
  <2>3. ReleaseSession(r, st, rt, timers, Tail(queue))
    BY <1>4, <2>1, <2>2 DEF HandleOutputStopped
  <2>4. st \in [Ids -> States] /\ \A u \in Ids \ {t} : st[u] = state[u]
    BY DEF Types, SessionsTypeOK, States
  <2>5. /\ rt \in [Ids -> Status]
        /\ \A u \in Ids \ {t} : rt[u] = runtime[u]
        /\ rt[t].transport \notin Running
    <3>1. SessionMatches(t, r) /\ r \in Serials \cup {0} /\ "Failed" \in Transports
      BY <2>2, SerialFacts DEF SessionMatches, Transports
    <3>2. SetRuntimeTransport(runtime, t, r, "Failed") \in [Ids -> Status]
      BY <3>1, SetRuntimeTransportType DEF Types, SessionsTypeOK
    <3> QED BY <3>1, <3>2, NoValuesType
            DEF SetRuntimeTransport, NoStatus, Running, Types, SessionsTypeOK
  <2> HIDE DEF st, rt, LInv, RInv, IInv
  <2> QED BY <2>2, <2>3, <2>4, <2>5, ReleaseSessionRefines
<1> QED BY <1>1, <1>3, <1>4 DEF HandleSignal

LEMMA ReleaseTimerRefines ==
  ASSUME LInv, IInv', ~shuttingDown, NEW r \in Serials, ReleaseTimer(r)
  PROVE  [Lifecycle!Next]_Mapped
<1> USE DEF LInv, RInv, IInv
<1>1. CASE r \in Sessions
  <2>1. PICK tm : ReleaseSession(r, state, runtime, tm, queue)
    BY <1>1 DEF ReleaseTimer
  <2>2. PICK t \in Ids : session[r].targetId = t /\ r \in SessionsOf(t)
    BY <1>1, SessionFacts
  <2>3. timers[r] > 0 /\ SessionSound(r) /\ Backed(t)
    BY <1>1, SerialFacts DEF ReleaseTimer, ReleaseSound
  <2>4. \A s \in SessionsOf(t) : s = r
    BY <1>1, <2>2, SessionFacts DEF SessionsOf
  <2>5. runtime[t].transport \notin Running
    BY <2>2, <2>3, <2>4 DEF SessionSound, Backed, Runs
  <2>6. state \in [Ids -> States] /\ runtime \in [Ids -> Status]
    BY DEF Types, SessionsTypeOK
  <2> HIDE DEF LInv, RInv, IInv
  <2> QED BY <2>1, <2>2, <2>5, <2>6, ReleaseSessionRefines
<1>2. CASE r \notin Sessions
  <2>1. UNCHANGED <<config, session, runtime>>
    BY <1>2 DEF ReleaseTimer, targetVars
  <2>2. \A t \in Ids : Phase(t)' = Phase(t)
    BY <2>1, PhaseSame DEF HasSession, SessionsOf
  <2> QED BY <2>2 DEF Mapped
<1> QED BY <1>1, <1>2

LEMMA SceneCollectionRefines ==
  ASSUME LInv, IInv', PrepareForSceneCollectionChange
  PROVE  [Lifecycle!Next]_Mapped
<1> USE DEF LInv, RInv, IInv
<1> DEFINE ended   == {s \in Sessions : config[session[s].targetId] = "scene"}
           owners  == {session[s].targetId : s \in ended}
           leaving == {t \in owners : RemovalPending(t)}
<1>1. /\ session' = [s \in Serials |-> IF s \in ended THEN NoSession ELSE session[s]]
      /\ runtime' = [t \in Ids |-> IF t \in owners THEN NoStatus ELSE runtime[t]]
      /\ \E gone \in SUBSET leaving :
           config' = [t \in Ids |-> IF t \in gone THEN Absent ELSE config[t]]
  BY DEF PrepareForSceneCollectionChange
<1>2. \A s \in Sessions : session[s].targetId \in owners <=> s \in ended
  OBVIOUS
<1>3. leaving \subseteq owners
  OBVIOUS
<1> HIDE DEF ended, owners, leaving
<1>4. ASSUME NEW t \in Ids, t \in owners
      PROVE  Phase(t)' \in {"absent", "idle"}
  <2>1. \A s \in Serials : session'[s].targetId # t
    BY <1>1, <1>2, <1>4, SessionsAssumption DEF NoSession, Sessions
  <2>2. ~HasSession(t)'
    BY <2>1 DEF HasSession, SessionsOf
  <2> QED BY <2>2, PhaseAfter
<1>5. ASSUME NEW t \in Ids, t \notin owners
      PROVE  Phase(t)' = Phase(t)
  <2>1. \A s \in Serials : session'[s].targetId = t <=> session[s].targetId = t
    BY <1>1, <1>2, <1>5, SessionsAssumption DEF NoSession, Sessions
  <2>2. HasSession(t)' = HasSession(t)
    BY <2>1 DEF HasSession, SessionsOf
  <2>3. config'[t] = config[t] /\ runtime'[t] = runtime[t]
    BY <1>1, <1>3, <1>5
  <2> QED BY <2>2, <2>3, PhaseSame
<1> QED BY <1>4, <1>5, ManyMove

LEMMA InitRefines == Init => Lifecycle!Init
<1> SUFFICES ASSUME Init PROVE Lifecycle!Init
  OBVIOUS
<1>1. \A t \in Ids : ~HasSession(t)
  BY SessionsAssumption DEF Init, HasSession, SessionsOf, NoSession
<1>2. \A t \in Ids : Phase(t) \in {"absent", "idle"}
  BY <1>1, InitSound, PhaseFacts DEF IInv
<1> QED BY <1>2 DEF Lifecycle!Init

LEMMA NextRefines ==
  ASSUME LInv, IInv', [Next]_vars
  PROVE  [Lifecycle!Next]_Mapped
<1>1. ASSUME UNCHANGED <<config, session, runtime>> PROVE [Lifecycle!Next]_Mapped
  <2>1. \A t \in Ids : Phase(t)' = Phase(t)
    BY <1>1, PhaseSame DEF HasSession, SessionsOf
  <2> QED BY <2>1 DEF Mapped
<1>2. CASE shuttingDown
  BY <1>1, <1>2, NextQuiet
<1>3. CASE ~shuttingDown
  <2>1. ASSUME ReloadForCurrentProfile \/ PrepareForUnload PROVE [Lifecycle!Next]_Mapped
    <3>1. \A s \in Serials : session'[s].targetId = NoTarget
      BY <2>1 DEF ReloadForCurrentProfile, PrepareForUnload, AllReleased, NoSession
    <3>2. \A t \in Ids : ~HasSession(t)'
      BY <3>1, SessionsAssumption DEF HasSession, SessionsOf
    <3>3. \A t \in Ids : Phase(t)' \in {"absent", "idle"}
      BY <3>2, PhaseAfter DEF IInv
    <3> QED BY <3>3, ManyMove
  <2>2. ASSUME \/ \E s \in Serials : ObsStep(s)
               \/ \E p \in Profiles : ObsSwitchesProfile(p)
               \/ UNCHANGED vars
        PROVE  [Lifecycle!Next]_Mapped
    BY <1>1, <2>2 DEF ObsStep, ObsConnects, ObsLosesConnection, ObsReconnects, ObsStops,
       ObsCaptureEnds, ObsOnly, ObsSwitchesProfile, targetVars, vars
  <2> QED BY <1>3, <2>1, <2>2, TargetStepRefines, HandleSignalRefines, ReleaseTimerRefines,
             SceneCollectionRefines DEF Next, ManagerStep
<1> QED BY <1>2, <1>3

\* The output manager does with every target what TargetLifecycle allows: whatever
\* its handlers, OBS and the timers do in between, a target whose output is
\* closing neither runs nor starts before that output has been released.
THEOREM SessionsImplementLifecycle == Spec => ImplementsLifecycle
<1>1. Init => LInv
  <2> SUFFICES ASSUME Init PROVE LInv
    OBVIOUS
  <2> QED BY InitReleases DEF Init, LInv, Quiet
<1>2. LInv /\ [Next]_vars => LInv'
  BY NextReleases, NextQuiet DEF LInv
<1>3. Spec => []LInv
  BY <1>1, <1>2, PTL DEF Spec
<1>4. LInv /\ LInv' /\ [Next]_vars => [Lifecycle!Next]_[t \in Ids |-> Phase(t)]
  BY NextRefines DEF LInv, RInv, Mapped
<1> QED BY <1>3, <1>4, InitRefines, PTL DEF Spec, ImplementsLifecycle, Lifecycle!Spec
=============================================================================
