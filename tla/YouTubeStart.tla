---------------------------- MODULE YouTubeStart ----------------------------
(***************************************************************************)
(* The automatic start of a YouTube broadcast: once a target's output      *)
(* sends, the output manager looks for the broadcast the target streams to *)
(* and takes it live, by a chain of HTTP requests (refresh the token, list *)
(* upcoming and active broadcasts, look up their streams, transition) that *)
(* it repeats from a timer until the broadcast is live or it gives up.     *)
(*                                                                         *)
(* The module follows one YouTube target.  OutputSessions has the life of  *)
(* its sessions in full; here a session is starting, sending,              *)
(* reconnecting or closing.  Replies and timers outlive what they were     *)
(* for: each carries the serial and generation it belongs to.              *)
(*                                                                         *)
(* Bounds: MaxSerial sessions.  Once a session has begun MaxGeneration     *)
(* operations there are no more reconnects and answers of the user, its    *)
(* token no longer expires, and the wait for an automatic start has timed  *)
(* out before the next poll.  An output starts or reconnects only while    *)
(* fewer than MaxLeftOver requests and timers are left over.               *)
(***************************************************************************)
EXTENDS Naturals, FiniteSets, BroadcastSelection

CONSTANTS
  Broadcasts,          \* broadcasts of the channel
  NoStream,            \* of a broadcast that is bound to none
  Bindings,            \* the streams that broadcasts may be bound to
  OurStreams,          \* streams that have the target's stream key
  Keyed,               \* the target has a stream key
  Monitored,           \* broadcasts that are tested before they go live
  AutoStarting,        \* broadcasts that may be set to go live by themselves
  MaxAttempts,         \* polls before the start is given up
  MaxTransientRetries, \* retries in a row of failing requests
  MaxPages,            \* pages of a list that are read
  MaxSerial, MaxGeneration, MaxLeftOver

ASSUME YouTubeAssumption ==
  /\ NoBroadcast \notin Broadcasts
  /\ Keyed \in BOOLEAN /\ Monitored \subseteq Broadcasts /\ AutoStarting \subseteq Broadcasts
  /\ MaxAttempts \in Nat /\ MaxTransientRetries \in Nat /\ MaxPages \in Nat \ {0}
  /\ MaxSerial \in Nat /\ MaxGeneration \in Nat /\ MaxLeftOver \in Nat

Phases  == {"idle", "starting", "sending", "reconnecting", "closing"}
\* canContinuePlatformStart
Running == {"starting", "sending", "reconnecting"}

\* Statuses that promise that something will follow, and the others.
Pending == {"RtmpSignalOnly", "WaitingForSignal", "Testing", "LiveStarting"}
Settled == {"Unknown", "Live", "NeedsManualStart", "AuthExpired", "BroadcastMismatch",
            "MultipleBroadcasts", "Failed"}

Listings    == {"upcoming", "active"}
Transitions == {"testing", "live"}

\* A time stamp is unset ("no"), or set and, once "old", timed out.
Clock == {"no", "recent", "old"}

FreshSession ==
  [accessToken |-> FALSE, signalActive |-> "no", autoStartWaiting |-> "no",
   operationGeneration |-> 0, pollGeneration |-> 0, transientRetryCount |-> 0,
   operationInFlight |-> FALSE, authRefreshRetried |-> FALSE]

NoChoice == [serial |-> 0, generation |-> 0, candidates |-> {}]

VARIABLES
  serial, phase,   \* the target's latest session
  platform,        \* TargetRuntimeStatus::platform
  broadcastId,     \* TargetRuntimeStatus::broadcastId
  yt,              \* the session's youtube... fields
  requests,        \* HTTP requests not yet answered
  polls,           \* poll timers not yet fired
  choice,          \* the last youtubeBroadcastSelectionRequired
  login,           \* the target has a YouTube login
  boundStream,     \* YouTube: the stream each broadcast is bound to
  life,            \* YouTube: the life cycle of each broadcast
  autoStart        \* YouTube: broadcasts that go live by themselves

managerVars == <<serial, phase, platform, broadcastId, yt, requests, polls, choice>>
youTubeVars == <<login, boundStream, life, autoStart>>
vars == <<managerVars, youTubeVars>>

-----------------------------------------------------------------------------
(* Which requests and timers are current *)

\* youtubeOperationMatches and canContinuePlatformStart.
Current(m) ==
  /\ phase \in Running /\ m.serial = serial
  /\ yt.operationInFlight /\ m.generation = yt.operationGeneration

\* Faulty variant: a timer that only asks whether an operation is in flight.
PollIsOfSession(p) ==
  phase \in Running /\ p.serial = serial /\ ~yt.operationInFlight

\* The guard of scheduleYouTubePoll's timer, and the one it then meets.
PollIsCurrent(p) ==
  /\ phase \in Running /\ p.serial = serial
  /\ ~yt.operationInFlight
  /\ p.operation = yt.operationGeneration /\ p.poll = yt.pollGeneration

CurrentRequests == {m \in requests : Current(m)}
CurrentPolls    == {p \in polls : PollIsCurrent(p)}

-----------------------------------------------------------------------------
(* Parts of handlers *)

\* Attempts beyond the limit are all alike.
Later(attempt) == IF attempt > MaxAttempts THEN attempt ELSE attempt + 1

Completed(y) == [y EXCEPT !.operationInFlight = FALSE]

\* The operation of request m ends with a status and nothing to follow.
Ends(m, y, status) ==
  /\ yt' = Completed(y)
  /\ platform' = status
  /\ requests' = requests \ {m}
  /\ UNCHANGED polls

\* Faulty variant: a poll that is scheduled while the operation is still in
\* flight, so that scheduleYouTubePoll refuses it.
PollIsRefused(m, y, status, attempt) == Ends(m, y, status)

\* ... or with a poll to follow: scheduleYouTubePoll.
PollsAgain(m, y, status, attempt) ==
  /\ yt' = [Completed(y) EXCEPT !.pollGeneration = @ + 1]
  /\ platform' = status
  /\ requests' = requests \ {m}
  /\ polls' = polls \cup {[serial |-> serial, operation |-> y.operationGeneration,
                           poll |-> y.pollGeneration + 1, attempt |-> attempt]}

\* The operation goes on with its next request, unless the wait for an
\* automatic start has timed out (stopYouTubeAutoStartIfTimedOut).
Proceeds(m, y, next) ==
  \/ y.autoStartWaiting = "old" /\ Ends(m, y, "NeedsManualStart")
  \/ /\ y.autoStartWaiting # "old"
     /\ yt' = y
     /\ requests' = (requests \ {m}) \cup {next}
     /\ UNCHANGED <<platform, polls>>

\* maybeStartYouTubeBroadcast gives up: no login, or waited too long.
GivesUp(y, attempt) ==
  \/ ~login
  \/ y.autoStartWaiting = "no" /\ (attempt > MaxAttempts \/ y.signalActive = "old")
  \/ y.autoStartWaiting = "old"

Begun(y) == [y EXCEPT !.pollGeneration = @ + 1, !.operationGeneration = @ + 1,
                      !.operationInFlight = TRUE]

\* Faulty variant: a broadcast that is live is started again.
NothingInFlight(y, status) == y.operationInFlight

NothingToStart(y, status) == status = "Live" \/ y.operationInFlight

\* maybeStartYouTubeBroadcast for session fields y and the given status.
MaybeStart(y, status, attempt) ==
  \/ /\ NothingToStart(y, status)
     /\ yt' = y /\ platform' = status
     /\ UNCHANGED requests
  \/ /\ ~NothingToStart(y, status) /\ GivesUp(y, attempt)
     /\ yt' = y /\ platform' = "NeedsManualStart"
     /\ UNCHANGED requests
  \/ /\ ~NothingToStart(y, status) /\ ~GivesUp(y, attempt)
     /\ yt' = Begun(y) /\ platform' = "RtmpSignalOnly"
     /\ requests' = requests \cup
          {[serial |-> serial, generation |-> y.operationGeneration + 1,
            attempt |-> attempt, kind |-> IF y.accessToken THEN "upcoming" ELSE "token",
            page |-> 0, list |-> {}, id |-> NoBroadcast]}

-----------------------------------------------------------------------------
(* The session *)

FewLeftOver == Cardinality(requests) + Cardinality(polls) < MaxLeftOver

\* startTarget, with a status that starts from nothing.
OutputStarts ==
  /\ phase = "idle" /\ serial < MaxSerial /\ FewLeftOver
  /\ serial' = serial + 1
  /\ phase' = "starting"
  /\ yt' = FreshSession
  /\ platform' = "Unknown" /\ broadcastId' = NoBroadcast
  /\ UNCHANGED <<requests, polls, choice, youTubeVars>>

\* The signals "activate" and "start".
OutputConnects ==
  /\ phase = "starting"
  /\ phase' = "sending"
  /\ MaybeStart([yt EXCEPT !.signalActive = "recent"], "RtmpSignalOnly", 0)
  /\ UNCHANGED <<serial, broadcastId, polls, choice, youTubeVars>>

Superseded(y) ==
  [Completed(y) EXCEPT !.operationGeneration = @ + 1, !.pollGeneration = @ + 1]

\* "reconnect" ends what the lost connection had begun.
OutputReconnects ==
  /\ phase = "sending" /\ yt.operationGeneration < MaxGeneration /\ FewLeftOver
  /\ phase' = "reconnecting"
  /\ yt' = Superseded(yt)
  /\ UNCHANGED <<serial, platform, broadcastId, requests, polls, choice, youTubeVars>>

OutputReconnected ==
  /\ phase = "reconnecting"
  /\ phase' = "sending"
  /\ MaybeStart([yt EXCEPT !.signalActive = "recent"], platform, 0)
  /\ UNCHANGED <<serial, broadcastId, polls, choice, youTubeVars>>

\* stopTarget, or the signal "stopping".
StopRequested ==
  /\ phase \in Running
  /\ phase' = "closing"
  /\ UNCHANGED <<serial, platform, broadcastId, yt, requests, polls, choice, youTubeVars>>

\* The signal "stop": with success the status is reset.  It may follow a
\* requested stop or come by itself.
OutputStopped ==
  /\ phase \in Running \cup {"closing"}
  /\ phase' = "closing"
  /\ \/ platform' = "Unknown" /\ broadcastId' = NoBroadcast
     \/ platform' = "Failed" /\ UNCHANGED broadcastId
  /\ UNCHANGED <<serial, yt, requests, polls, choice, youTubeVars>>

SessionReleased ==
  /\ phase = "closing"
  /\ phase' = "idle"
  /\ yt' = FreshSession
  /\ \/ UNCHANGED <<platform, broadcastId>>
     \/ platform' = "Unknown" /\ broadcastId' = NoBroadcast
  /\ UNCHANGED <<serial, requests, polls, choice, youTubeVars>>

\* Another profile is loaded: abortPlatformRequests and releaseAllSessionsNow.
\* Poll timers are left.
ProfileReloaded ==
  /\ phase' = "idle"
  /\ yt' = FreshSession
  /\ platform' = "Unknown" /\ broadcastId' = NoBroadcast
  /\ requests' = {}
  /\ UNCHANGED <<serial, polls, choice, youTubeVars>>

\* applyYouTubeBroadcastSelection: the user answers the last question.
ApplySelection(id) ==
  /\ phase \in Running /\ choice.serial = serial
  /\ ~yt.operationInFlight /\ choice.generation = yt.operationGeneration
  /\ yt.operationGeneration < MaxGeneration
  /\ broadcastId' = id
  /\ MaybeStart([yt EXCEPT !.operationGeneration = @ + 1, !.autoStartWaiting = "no",
                           !.signalActive = "recent"], "RtmpSignalOnly", 0)
  /\ choice' = NoChoice
  /\ UNCHANGED <<serial, phase, polls, youTubeVars>>

PollTimer(p) ==
  /\ polls' = polls \ {p}
  /\ \/ /\ PollIsCurrent(p)
        /\ yt.autoStartWaiting = "recent" => yt.operationGeneration < MaxGeneration
        /\ MaybeStart(yt, platform, p.attempt)
     \/ ~PollIsCurrent(p) /\ UNCHANGED <<yt, platform, requests>>
  /\ UNCHANGED <<serial, phase, broadcastId, choice, youTubeVars>>

\* Time passes: the wait for a signal, the wait for an automatic start, the
\* access token's life.
SignalWaitExpires ==
  /\ phase \in Running /\ yt.signalActive = "recent"
  /\ yt' = [yt EXCEPT !.signalActive = "old"]
  /\ UNCHANGED <<serial, phase, platform, broadcastId, requests, polls, choice, youTubeVars>>

AutoStartWaitExpires ==
  /\ phase \in Running /\ yt.autoStartWaiting = "recent"
  /\ yt' = [yt EXCEPT !.autoStartWaiting = "old"]
  /\ UNCHANGED <<serial, phase, platform, broadcastId, requests, polls, choice, youTubeVars>>

TokenExpires ==
  /\ phase \in Running /\ yt.accessToken /\ yt.operationGeneration < MaxGeneration
  /\ yt' = [yt EXCEPT !.accessToken = FALSE]
  /\ UNCHANGED <<serial, phase, platform, broadcastId, requests, polls, choice, youTubeVars>>

-----------------------------------------------------------------------------
(* Replies *)

\* The request that follows m in its operation.
Following(m, kind) == [m EXCEPT !.kind = kind, !.page = 0]

Entry(b, listing) ==
  [id |-> b, life |-> life[b], auto |-> b \in autoStart, stream |-> boundStream[b], listing |-> listing]

\* What a listing returns.
Listed(kind) ==
  LET lives == IF kind = "upcoming" THEN {"created", "ready"}
               ELSE {"testStarting", "testing", "liveStarting", "live"}
  IN {Entry(b, kind) : b \in {c \in Broadcasts : life[c] \in lives}}

\* The session's fields after a failed request: the first 401 drops the token.
AfterFailure(error) ==
  IF error = "unauthorized" /\ ~yt.authRefreshRetried
    THEN [yt EXCEPT !.authRefreshRetried = TRUE, !.accessToken = FALSE]
    ELSE yt

\* isRetryableYouTubeResponse, or the first 401.
MayRetry(error) ==
  /\ error = "transient" \/ (error = "unauthorized" /\ ~yt.authRefreshRetried)
  /\ yt.transientRetryCount < MaxTransientRetries

WarningStatus(kind) == IF kind = "token" THEN "AuthExpired" ELSE "Failed"

\* Faulty variant: an error that is not retried leaves the operation open.
FailsSilently(m, error) ==
  \/ /\ MayRetry(error)
     /\ PollsAgain(m, [AfterFailure(error) EXCEPT !.transientRetryCount = @ + 1],
                   "RtmpSignalOnly", m.attempt)
  \/ /\ ~MayRetry(error)
     /\ yt' = AfterFailure(error) /\ requests' = requests \ {m}
     /\ UNCHANGED <<platform, polls>>

\* scheduleYouTubeRequestRetry, or a warning.  Quota errors are of the kind
\* "refused", and "Failed" stands for QuotaBlocked too.
Fails(m, error) ==
  \/ /\ MayRetry(error)
     /\ PollsAgain(m, [AfterFailure(error) EXCEPT !.transientRetryCount = @ + 1],
                   "RtmpSignalOnly", m.attempt)
  \/ /\ ~MayRetry(error)
     /\ Ends(m, AfterFailure(error), WarningStatus(m.kind))

\* What YouTube does with a transition it accepts.
Accepted(m) ==
  /\ life[m.id] \in IF m.kind = "testing" THEN {"ready"} ELSE {"ready", "testing"}
  /\ life' = [life EXCEPT ![m.id] = IF m.kind = "testing" THEN "testStarting"
                                                          ELSE "liveStarting"]
  /\ UNCHANGED <<login, boundStream, autoStart>>

\* Any request may fail, a transition also after YouTube has carried it out.
RequestFails(m, error) ==
  /\ Fails(m, error)
  /\ \/ UNCHANGED youTubeVars
     \/ error = "transient" /\ m.kind \in Transitions /\ Accepted(m)
  /\ UNCHANGED <<broadcastId, choice>>

TokenArrives(m) ==
  /\ m.kind = "token"
  /\ \/ Proceeds(m, [yt EXCEPT !.accessToken = TRUE, !.transientRetryCount = 0],
                 Following(m, "upcoming"))
     \/ Ends(m, yt, "AuthExpired")   \* no token in the reply
  /\ UNCHANGED <<broadcastId, choice, youTubeVars>>

\* A page that is not the last.  Broadcasts of no interest fill those pages.
PageArrives(m) ==
  /\ m.kind \in Listings
  /\ \/ m.page + 1 < MaxPages /\ Proceeds(m, yt, [m EXCEPT !.page = @ + 1])
     \/ m.page + 1 = MaxPages /\ Ends(m, yt, "Failed")
  /\ UNCHANGED <<broadcastId, choice, youTubeVars>>

UpcomingArrive(m) ==
  /\ m.kind = "upcoming"
  /\ Proceeds(m, yt, [Following(m, "active") EXCEPT !.list = Listed("upcoming")])
  /\ UNCHANGED <<broadcastId, choice, youTubeVars>>

Streams == {boundStream[b] : b \in Broadcasts} \ {NoStream}

\* There are broadcasts, and one of them has a stream.
HasStreams(list) == \E e \in list : e.stream # NoStream

ActiveArrive(m) ==
  LET list == m.list \cup Listed("active") IN
  /\ m.kind = "active"
  /\ \/ HasStreams(list) /\ Proceeds(m, yt, [Following(m, "streams") EXCEPT !.list = list])
     \/ ~HasStreams(list) /\ Ends(m, yt, "NeedsManualStart")
  /\ UNCHANGED <<broadcastId, choice, youTubeVars>>

\* youtubeBroadcastSelectionRequired.
Asks(m, candidates) ==
  choice' = [serial |-> serial, generation |-> m.generation,
             candidates |-> {e.id : e \in candidates}]

\* A broadcast that starts by itself is waited for, any other one is taken to
\* its next stage.
TakesLive(m, y, b) ==
  LET waited == y.autoStartWaiting # "no"
      stage  == IF b.id \in Monitored /\ b.life # "testing" THEN "testing" ELSE "live"
  IN
  \/ /\ b.life = "live"
     /\ Ends(m, [y EXCEPT !.transientRetryCount = 0, !.autoStartWaiting = "no"], "Live")
  \/ /\ b.life \in {"testStarting", "liveStarting"}
     /\ PollsAgain(m, [y EXCEPT !.transientRetryCount = 0], "LiveStarting",
                   Later(m.attempt))
  \/ /\ b.life \in {"ready", "testing"} /\ b.auto
     /\ PollsAgain(m, [y EXCEPT !.transientRetryCount = 0,
                                !.autoStartWaiting = IF waited THEN @ ELSE "recent"],
                   "LiveStarting", Later(m.attempt))
  \/ /\ b.life \in {"ready", "testing"} /\ ~b.auto
     /\ yt' = [y EXCEPT !.autoStartWaiting = "no",
                        !.signalActive = IF waited THEN "recent" ELSE @]
     /\ platform' = IF stage = "testing" THEN "Testing" ELSE "LiveStarting"
     /\ requests' = (requests \ {m}) \cup
          {[m EXCEPT !.kind = stage, !.id = b.id, !.list = {},
                     !.attempt = IF waited THEN 0 ELSE @]}
     /\ UNCHANGED polls

\* processYouTubeBroadcastSelection, for the streams that receive a signal.
Selects(m, receiving) ==
  LET selection == Select(m.list, receiving, OurStreams, Keyed, broadcastId)
      eligible  == Eligible(m.list, receiving, OurStreams, Keyed)
      y         == [yt EXCEPT !.transientRetryCount = 0]
  IN
  \/ /\ selection.state = "multiple"
     /\ Ends(m, y, "MultipleBroadcasts") /\ Asks(m, eligible)
     /\ UNCHANGED broadcastId
  \/ /\ selection.state = "unavailable"
     /\ Ends(m, y, "Failed")
     /\ IF eligible = {} THEN UNCHANGED choice ELSE Asks(m, eligible)
     /\ UNCHANGED broadcastId
  \/ /\ selection.state = "mismatch"
     /\ Ends(m, y, "BroadcastMismatch")
     /\ UNCHANGED <<choice, broadcastId>>
  \/ /\ selection.state = "none"
     /\ PollsAgain(m, y, "WaitingForSignal", Later(m.attempt))
     /\ UNCHANGED <<choice, broadcastId>>
  \/ /\ selection.state = "selected"
     /\ broadcastId' = selection.broadcast.id
     /\ TakesLive(m, yt, selection.broadcast)
     /\ UNCHANGED choice

StreamsArrive(m) ==
  /\ m.kind = "streams"
  /\ \/ /\ yt.autoStartWaiting = "old"
        /\ Ends(m, yt, "NeedsManualStart")
        /\ UNCHANGED <<broadcastId, choice>>
     \/ yt.autoStartWaiting # "old" /\ \E receiving \in SUBSET Streams : Selects(m, receiving)
  /\ UNCHANGED youTubeVars

TransitionAccepted(m) ==
  /\ m.kind \in Transitions /\ Accepted(m)
  /\ PollsAgain(m, [yt EXCEPT !.transientRetryCount = 0],
                IF m.kind = "testing" THEN "Testing" ELSE "LiveStarting", Later(m.attempt))
  /\ UNCHANGED <<broadcastId, choice>>

\* errorStreamInactive and redundantTransition.
TransitionPostponed(m) ==
  /\ m.kind \in Transitions
  /\ \/ PollsAgain(m, yt, "WaitingForSignal", Later(m.attempt))
     \/ /\ life[m.id] \in {"testStarting", "testing", "liveStarting", "live"}
        /\ PollsAgain(m, yt, "LiveStarting", Later(m.attempt))
  /\ UNCHANGED <<broadcastId, choice, youTubeVars>>

\* A reply that is no longer wanted.
StaleReply(m) ==
  /\ requests' = requests \ {m}
  /\ UNCHANGED <<platform, broadcastId, yt, polls, choice, youTubeVars>>

Reply(m) ==
  /\ \/ ~Current(m) /\ StaleReply(m)
     \/ /\ Current(m)
        /\ \/ \E error \in {"transient", "unauthorized", "refused"} : RequestFails(m, error)
           \/ TokenArrives(m)
           \/ PageArrives(m)
           \/ UpcomingArrive(m)
           \/ ActiveArrive(m)
           \/ StreamsArrive(m)
           \/ TransitionAccepted(m)
           \/ TransitionPostponed(m)
  /\ UNCHANGED <<serial, phase>>

-----------------------------------------------------------------------------
(* YouTube, its Studio and the user there.  What they change is only seen by
   requests, so it waits for the next one.  The target's login and the streams
   that broadcasts are bound to stay what they are. *)

Stages == {<<"created", "ready">>, <<"ready", "testStarting">>, <<"ready", "liveStarting">>,
           <<"testStarting", "testing">>, <<"testing", "liveStarting">>,
           <<"liveStarting", "live">>, <<"live", "complete">>}

BroadcastAdvances(b) ==
  /\ CurrentRequests # {}
  /\ \E stage \in Stages :
       life[b] = stage[1] /\ life' = [life EXCEPT ![b] = stage[2]]
  /\ UNCHANGED <<managerVars, login, boundStream, autoStart>>

AutoStartTurnedOff(b) ==
  /\ b \in autoStart /\ CurrentRequests # {}
  /\ autoStart' = autoStart \ {b}
  /\ UNCHANGED <<managerVars, login, boundStream, life>>

-----------------------------------------------------------------------------
Init ==
  /\ serial = 0 /\ phase = "idle"
  /\ platform = "Unknown" /\ broadcastId = NoBroadcast
  /\ yt = FreshSession
  /\ requests = {} /\ polls = {} /\ choice = NoChoice
  /\ login \in BOOLEAN
  /\ boundStream \in Bindings
  /\ life \in [Broadcasts -> {"created", "ready"}]
  /\ autoStart \in SUBSET AutoStarting

SessionStep ==
  \/ OutputStarts
  \/ OutputConnects
  \/ OutputReconnects
  \/ OutputReconnected
  \/ StopRequested
  \/ OutputStopped
  \/ SessionReleased
  \/ ProfileReloaded

Answer == \E id \in choice.candidates : ApplySelection(id)
SomeReply == \E m \in requests : Reply(m)
SomePoll == \E p \in polls : PollTimer(p)

Next ==
  \/ SessionStep
  \/ Answer
  \/ SomeReply
  \/ SomePoll
  \/ SignalWaitExpires
  \/ AutoStartWaitExpires
  \/ TokenExpires
  \/ \E b \in Broadcasts : BroadcastAdvances(b) \/ AutoStartTurnedOff(b)

Spec == Init /\ [][Next]_vars

\* Requests are answered or time out, timers fire and time passes.  Nothing is
\* assumed of YouTube, the user or the output.
FairSpec ==
  /\ Spec
  /\ WF_vars(SomeReply) /\ WF_vars(SomePoll)
  /\ WF_vars(SignalWaitExpires) /\ WF_vars(AutoStartWaitExpires)

-----------------------------------------------------------------------------
(* Properties *)

RequestKinds == {"token", "streams"} \cup Listings \cup Transitions

Lives == {"created", "ready", "testStarting", "testing", "liveStarting", "live", "complete"}

ListEntry ==
  [id : Broadcasts, life : Lives, auto : BOOLEAN,
   stream : {binding[b] : binding \in Bindings, b \in Broadcasts}, listing : Listings]

Request ==
  [serial : Nat, generation : Nat, attempt : 0 .. MaxAttempts + 1, kind : RequestKinds,
   page : 0 .. MaxPages - 1, list : SUBSET ListEntry, id : Broadcasts \cup {NoBroadcast}]

Poll == [serial : Nat, operation : Nat, poll : Nat, attempt : 0 .. MaxAttempts + 1]

YouTubeSession ==
  [accessToken : BOOLEAN, signalActive : Clock, autoStartWaiting : Clock,
   operationGeneration : Nat, pollGeneration : Nat, transientRetryCount : 0 .. MaxTransientRetries,
   operationInFlight : BOOLEAN, authRefreshRetried : BOOLEAN]

\* Types of the variables; a request or timer is of a session that has begun.
TypeOK ==
  /\ serial \in Nat /\ serial <= MaxSerial /\ phase \in Phases
  /\ platform \in Pending \cup Settled
  /\ broadcastId \in Broadcasts \cup {NoBroadcast}
  /\ yt \in YouTubeSession
  /\ requests \subseteq Request /\ polls \subseteq Poll
  /\ \A m \in requests \cup polls : m.serial \in 1 .. serial
  /\ choice \in [serial : 0 .. serial, generation : Nat, candidates : SUBSET Broadcasts]
  /\ boundStream \in Bindings /\ life \in [Broadcasts -> Lives]
  /\ autoStart \subseteq AutoStarting

\* A session's procedure has a single thread: at most one request or timer can
\* still move it on, however reconnects, answers and polls overlap.
OneStepAtATime == Cardinality(CurrentRequests) + Cardinality(CurrentPolls) <= 1

\* A status that promises more is backed by a request or a timer, and an
\* operation in flight by its request: no reply that is dropped may leave a
\* sending target "checking" for ever.
NothingIsForgotten ==
  /\ phase = "sending" /\ platform \in Pending => CurrentRequests \cup CurrentPolls # {}
  /\ phase \in Running /\ yt.operationInFlight => CurrentRequests # {}

\* A transition is only requested for the broadcast the target has settled on,
\* and that one is bound to a stream with the target's key.
TransitionsOurBroadcast ==
  \A m \in CurrentRequests :
    m.kind \in Transitions =>
      m.id = broadcastId /\ (Keyed => boundStream[m.id] \in OurStreams)

\* Once live is shown it stays until the output stops: no late reply, timer,
\* reconnect or answer takes a target back to "checking".
LiveIsKept ==
  [][platform = "Live" =>
       platform' = "Live" \/ phase' \in {"closing", "idle"} \/ serial' # serial]_vars

\* The target never moves to another broadcast by itself: only an answer of
\* the user does that while its output runs.
SwitchedOnlyByAnswer ==
  [][broadcastId # NoBroadcast /\ broadcastId' # broadcastId =>
       \/ choice.candidates # {} /\ choice' = NoChoice /\ broadcastId' \in choice.candidates
       \/ broadcastId' = NoBroadcast /\ (phase' \in {"closing", "idle"} \/ serial' # serial)]_vars

\* The automatic start comes to a decision: a target that keeps sending is
\* shown live, or a warning says what is missing.
StartIsDecided ==
  phase = "sending" /\ platform \in Pending ~> platform \in Settled \/ phase # "sending"

\* What docs/dsk-runtime-state-spec.md says of MultipleBroadcasts: "DSK found
\* multiple possible broadcasts".
MultipleMeansMultiple ==
  platform = "MultipleBroadcasts" => Cardinality(choice.candidates) > 1

=============================================================================
