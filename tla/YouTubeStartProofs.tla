------------------------- MODULE YouTubeStartProofs -------------------------
(***************************************************************************)
(* Proofs about YouTubeStart: a session's automatic start is one procedure *)
(* that is never forgotten, live is kept, and the broadcast that is taken  *)
(* live is the one the target streams to, for any broadcasts, numbers of   *)
(* sessions, retries, pages and operations.                                *)
(***************************************************************************)
EXTENDS YouTubeStart, FiniteSetTheorems, TLAPS

-----------------------------------------------------------------------------
(* Selecting a broadcast *)

LEMMA FirstIs ==
  ASSUME NEW S, S # {}
  PROVE  First(S) \in S
<1>1. \E e \in S : e.listing = "upcoming" \/ \A f \in S : f.listing # "upcoming"
  OBVIOUS
<1> QED BY <1>1 DEF First

\* What is selected is an entry that receives a signal, of a stream with the
\* target's key, and never another broadcast than the preferred one.
LEMMA SelectedIs ==
  ASSUME NEW list, NEW receiving, NEW ours, NEW keyed \in BOOLEAN, NEW preferred, NEW s,
         s = Select(list, receiving, ours, keyed, preferred), s.state = "selected"
  PROVE  /\ s.broadcast \in list
         /\ keyed => s.broadcast.stream \in ours
         /\ preferred # NoBroadcast => s.broadcast.id = preferred
<1>1. PICK eligible, active : eligible = Eligible(list, receiving, ours, keyed) /\ active = Active(list, receiving)
  OBVIOUS
<1>2. s = SelectFrom(eligible, active, keyed, preferred)
  BY <1>1 DEF Select
<1>3. \A e \in eligible : e \in list /\ (keyed => e.stream \in ours)
  BY <1>1 DEF Eligible, Active
<1>4. CASE preferred # NoBroadcast /\ WithId(eligible, preferred) # {}
  <2>1. s = [state |-> "selected", broadcast |-> First(WithId(eligible, preferred))]
    BY <1>2, <1>4 DEF SelectFrom
  <2>2. s.broadcast \in WithId(eligible, preferred)
    BY <2>1, <1>4, FirstIs
  <2> QED BY <2>2, <1>3 DEF WithId
<1>5. CASE preferred = NoBroadcast /\ Cardinality(eligible) = 1
  <2>1. s = [state |-> "selected", broadcast |-> First(eligible)]
    BY <1>2, <1>5 DEF SelectFrom
  <2>2. eligible # {}
    BY <1>5, FS_EmptySet
  <2>3. s.broadcast \in eligible
    BY <2>1, <2>2, FirstIs
  <2> QED BY <2>3, <1>3, <1>5
<1>6. CASE ~(preferred # NoBroadcast /\ WithId(eligible, preferred) # {})
           /\ ~(preferred = NoBroadcast /\ Cardinality(eligible) = 1)
  <2>1. s.state # "selected"
    BY <1>2, <1>6 DEF SelectFrom
  <2> QED BY <2>1
<1> QED BY <1>4, <1>5, <1>6

-----------------------------------------------------------------------------
(* What a reply's handler can do to the procedure *)

Types == TypeOK /\ \A m \in requests : \A e \in m.list : e.stream = boundStream[e.id]

\* Session fields y that leave the procedure where it is.
Alike(y) ==
  /\ y \in YouTubeSession
  /\ y.operationGeneration = yt.operationGeneration /\ y.pollGeneration = yt.pollGeneration
  /\ y.operationInFlight = yt.operationInFlight

\* Requests and lists that a handler may leave.
Sound(n) == n \in Request /\ n.serial \in 1 .. serial /\ \A e \in n.list : e.stream = boundStream[e.id]

\* It ends, ends with a poll to follow, or goes on with another request.
EndsBy(m) ==
  /\ yt' \in YouTubeSession /\ ~yt'.operationInFlight
  /\ yt'.operationGeneration = yt.operationGeneration /\ yt'.pollGeneration = yt.pollGeneration
  /\ platform' \in Settled
  /\ requests' = requests \ {m} /\ polls' = polls

PollsBy(m) ==
  /\ yt' \in YouTubeSession /\ ~yt'.operationInFlight
  /\ yt'.operationGeneration = yt.operationGeneration /\ yt'.pollGeneration = yt.pollGeneration + 1
  /\ platform' \in Pending
  /\ requests' = requests \ {m}
  /\ \E p \in Poll : /\ p.serial = serial /\ p.operation = yt.operationGeneration
                     /\ p.poll = yt.pollGeneration + 1 /\ polls' = polls \cup {p}

GoesOnBy(m) ==
  /\ Alike(yt')
  /\ platform' \in Pending \cup {platform}
  /\ polls' = polls
  /\ \E n : /\ Sound(n) /\ n.serial = m.serial /\ n.generation = m.generation
            /\ requests' = (requests \ {m}) \cup {n}
            /\ n.kind \in Transitions => n.id = broadcastId' /\ (Keyed => boundStream[n.id] \in OurStreams)

Moves(m) == EndsBy(m) \/ PollsBy(m) \/ GoesOnBy(m)

LEMMA EndsIs ==
  ASSUME NEW m, NEW y, Alike(y), NEW status \in Settled, Ends(m, y, status)
  PROVE  EndsBy(m)
<1>1. yt' = [y EXCEPT !.operationInFlight = FALSE] /\ platform' = status /\ requests' = requests \ {m} /\ polls' = polls
  BY DEF Ends, Completed
<1>2. yt' \in YouTubeSession /\ ~yt'.operationInFlight
      /\ yt'.operationGeneration = y.operationGeneration /\ yt'.pollGeneration = y.pollGeneration
  BY <1>1 DEF Alike, YouTubeSession
<1> QED BY <1>1, <1>2 DEF EndsBy, Alike

LEMMA PollsAgainIs ==
  ASSUME TypeOK, NEW m, NEW y, Alike(y), NEW status \in Pending, NEW attempt \in 0 .. MaxAttempts + 1,
         PollsAgain(m, y, status, attempt)
  PROVE  PollsBy(m)
<1>1. /\ yt' = [[y EXCEPT !.operationInFlight = FALSE] EXCEPT !.pollGeneration = @ + 1]
      /\ platform' = status /\ requests' = requests \ {m}
      /\ polls' = polls \cup {[serial |-> serial, operation |-> y.operationGeneration,
                               poll |-> y.pollGeneration + 1, attempt |-> attempt]}
  BY DEF PollsAgain, Completed
<1>2. PICK z : z = [y EXCEPT !.operationInFlight = FALSE]
  OBVIOUS
<1>3. z \in YouTubeSession /\ ~z.operationInFlight
      /\ z.operationGeneration = y.operationGeneration /\ z.pollGeneration = y.pollGeneration
  BY <1>2 DEF Alike, YouTubeSession
<1>4. yt' = [z EXCEPT !.pollGeneration = @ + 1]
  BY <1>1, <1>2
<1>5. yt' \in YouTubeSession /\ ~yt'.operationInFlight
      /\ yt'.operationGeneration = z.operationGeneration /\ yt'.pollGeneration = z.pollGeneration + 1
  BY <1>3, <1>4 DEF YouTubeSession
<1>6. PICK p : p = [serial |-> serial, operation |-> y.operationGeneration,
                    poll |-> y.pollGeneration + 1, attempt |-> attempt]
  OBVIOUS
<1>7. p \in Poll /\ p.serial = serial /\ p.operation = y.operationGeneration /\ p.poll = y.pollGeneration + 1
  BY <1>6 DEF Poll, TypeOK, Alike, YouTubeSession
<1> QED BY <1>1, <1>3, <1>5, <1>6, <1>7 DEF PollsBy, Alike

LEMMA ProceedsIs ==
  ASSUME NEW m, NEW y, Alike(y), NEW n, Sound(n), n.serial = m.serial, n.generation = m.generation,
         n.kind \notin Transitions, Proceeds(m, y, n)
  PROVE  EndsBy(m) \/ GoesOnBy(m)
<1>1. CASE Ends(m, y, "NeedsManualStart")
  <2>1. "NeedsManualStart" \in Settled
    BY DEF Settled
  <2> QED BY <1>1, <2>1, EndsIs
<1>2. CASE yt' = y /\ requests' = (requests \ {m}) \cup {n} /\ UNCHANGED <<platform, polls>>
  BY <1>2 DEF GoesOnBy
<1> QED BY <1>1, <1>2 DEF Proceeds

LEMMA Attempts ==
  ASSUME NEW m \in Request
  PROVE  m.attempt \in 0 .. MaxAttempts + 1 /\ Later(m.attempt) \in 0 .. MaxAttempts + 1
BY YouTubeAssumption DEF Request, Later

LEMMA FailsIs ==
  ASSUME TypeOK, NEW m \in Request, NEW error, Fails(m, error)
  PROVE  EndsBy(m) \/ PollsBy(m)
<1>1. PICK y : y = AfterFailure(error)
  OBVIOUS
<1>2. Alike(y) /\ y.transientRetryCount = yt.transientRetryCount
  <2>1. CASE y = yt
    BY <2>1 DEF Alike, TypeOK
  <2>2. CASE y = [yt EXCEPT !.authRefreshRetried = TRUE, !.accessToken = FALSE]
    BY <2>2 DEF Alike, TypeOK, YouTubeSession
  <2> QED BY <1>1, <2>1, <2>2 DEF AfterFailure
<1>3. CASE MayRetry(error) /\ PollsAgain(m, [y EXCEPT !.transientRetryCount = @ + 1], "RtmpSignalOnly", m.attempt)
  <2>1. PICK z : z = [y EXCEPT !.transientRetryCount = @ + 1]
    OBVIOUS
  <2>2. yt.transientRetryCount < MaxTransientRetries /\ yt.transientRetryCount \in 0 .. MaxTransientRetries
    BY <1>3 DEF MayRetry, TypeOK, YouTubeSession
  <2>3. yt.transientRetryCount + 1 \in 0 .. MaxTransientRetries
    BY <2>2, YouTubeAssumption
  <2>4. Alike(z)
    BY <1>2, <2>1, <2>3 DEF Alike, YouTubeSession
  <2>5. "RtmpSignalOnly" \in Pending
    BY DEF Pending
  <2>6. PollsAgain(m, z, "RtmpSignalOnly", m.attempt)
    BY <1>3, <2>1
  <2> QED BY <2>4, <2>5, <2>6, Attempts, PollsAgainIs
<1>4. CASE Ends(m, y, WarningStatus(m.kind))
  <2>1. WarningStatus(m.kind) \in Settled
    BY DEF WarningStatus, Settled
  <2> QED BY <1>2, <1>4, <2>1, EndsIs
<1> QED BY <1>1, <1>3, <1>4 DEF Fails

-----------------------------------------------------------------------------
(* The replies, one by one *)

LEMMA ListedIs ==
  ASSUME TypeOK, NEW kind \in Listings, NEW e \in Listed(kind)
  PROVE  e \in ListEntry /\ e.stream = boundStream[e.id]
<1>1. PICK b \in Broadcasts : e = Entry(b, kind)
  BY DEF Listed
<1>2. e = [id |-> b, life |-> life[b], auto |-> b \in autoStart, stream |-> boundStream[b], listing |-> kind]
  BY <1>1 DEF Entry
<1>3. life[b] \in Lives /\ boundStream[b] \in {binding[c] : binding \in Bindings, c \in Broadcasts}
  BY DEF TypeOK
<1> QED BY <1>2, <1>3 DEF ListEntry

\* The request that follows m in its operation, and one with another list.
LEMMA FollowingIs ==
  ASSUME Types, NEW m \in requests, NEW kind \in RequestKinds, NEW f, f = Following(m, kind)
  PROVE  Sound(f) /\ f.serial = m.serial /\ f.generation = m.generation /\ f.kind = kind
<1>1. m \in Request /\ m.serial \in 1 .. serial /\ \A e \in m.list : e.stream = boundStream[e.id]
  BY DEF Types, TypeOK
<1>2. 0 \in 0 .. MaxPages - 1
  BY YouTubeAssumption
<1>3. f \in Request /\ f.serial = m.serial /\ f.generation = m.generation /\ f.kind = kind /\ f.list = m.list
  BY <1>1, <1>2 DEF Request, Following
<1> QED BY <1>1, <1>3 DEF Sound

LEMMA ListedAfter ==
  ASSUME NEW f, Sound(f), NEW list \in SUBSET ListEntry, \A e \in list : e.stream = boundStream[e.id]
  PROVE  /\ Sound([f EXCEPT !.list = list])
         /\ [f EXCEPT !.list = list].serial = f.serial /\ [f EXCEPT !.list = list].generation = f.generation
         /\ [f EXCEPT !.list = list].kind = f.kind
BY DEF Request, Sound

LEMMA KindsAre ==
  /\ "token" \in RequestKinds /\ "upcoming" \in RequestKinds /\ "active" \in RequestKinds /\ "streams" \in RequestKinds
  /\ Transitions \subseteq RequestKinds
  /\ "token" \notin Transitions /\ "upcoming" \notin Transitions /\ "active" \notin Transitions /\ "streams" \notin Transitions
  /\ "upcoming" \in Listings /\ "active" \in Listings /\ \A k \in Listings : k \notin Transitions
BY DEF RequestKinds, Listings, Transitions

LEMMA AlikeNow ==
  ASSUME TypeOK
  PROVE  Alike(yt)
BY DEF TypeOK, Alike

LEMMA TokenIs ==
  ASSUME Types, NEW m \in requests, TokenArrives(m)
  PROVE  Moves(m)
<1>0. TypeOK
  BY DEF Types
<1>1. PICK y : y = [yt EXCEPT !.accessToken = TRUE, !.transientRetryCount = 0]
  OBVIOUS
<1>2. Alike(y)
  <2>1. yt \in YouTubeSession /\ 0 \in 0 .. MaxTransientRetries
    BY <1>0, YouTubeAssumption DEF TypeOK
  <2> QED BY <2>1, <1>1 DEF Alike, YouTubeSession
<1>3. CASE Proceeds(m, y, Following(m, "upcoming"))
  <2>1. PICK n : n = Following(m, "upcoming")
    OBVIOUS
  <2>2. Sound(n) /\ n.serial = m.serial /\ n.generation = m.generation /\ n.kind \notin Transitions
    BY <2>1, FollowingIs, KindsAre
  <2>3. Proceeds(m, y, n)
    BY <1>3, <2>1
  <2> QED BY <1>2, <2>2, <2>3, ProceedsIs DEF Moves
<1>4. CASE Ends(m, yt, "AuthExpired")
  <2>1. "AuthExpired" \in Settled
    BY DEF Settled
  <2> QED BY <1>0, <1>4, <2>1, AlikeNow, EndsIs DEF Moves
<1> QED BY <1>1, <1>3, <1>4 DEF TokenArrives

LEMMA PageIs ==
  ASSUME Types, NEW m \in requests, PageArrives(m)
  PROVE  Moves(m)
<1>0. TypeOK /\ m \in Request /\ m.serial \in 1 .. serial /\ \A e \in m.list : e.stream = boundStream[e.id]
  BY DEF Types, TypeOK
<1>1. CASE m.page + 1 < MaxPages /\ Proceeds(m, yt, [m EXCEPT !.page = @ + 1])
  <2>1. PICK n : n = [m EXCEPT !.page = @ + 1]
    OBVIOUS
  <2>2. m.page + 1 \in 0 .. MaxPages - 1
    BY <1>0, <1>1, YouTubeAssumption DEF Request
  <2>3. n \in Request /\ n.serial = m.serial /\ n.generation = m.generation /\ n.kind = m.kind /\ n.list = m.list
    BY <1>0, <2>1, <2>2 DEF Request
  <2>4. Sound(n) /\ n.kind \notin Transitions
    BY <2>3, <1>0, KindsAre DEF Sound, PageArrives
  <2>5. Proceeds(m, yt, n)
    BY <1>1, <2>1
  <2> QED BY <1>0, <2>3, <2>4, <2>5, AlikeNow, ProceedsIs DEF Moves
<1>2. CASE Ends(m, yt, "Failed")
  <2>1. "Failed" \in Settled
    BY DEF Settled
  <2> QED BY <1>0, <1>2, <2>1, AlikeNow, EndsIs DEF Moves
<1> QED BY <1>1, <1>2 DEF PageArrives

LEMMA UpcomingIs ==
  ASSUME Types, NEW m \in requests, UpcomingArrive(m)
  PROVE  Moves(m)
<1>0. TypeOK
  BY DEF Types
<1>1. PICK list : list = Listed("upcoming")
  OBVIOUS
<1>2. list \in SUBSET ListEntry /\ \A e \in list : e.stream = boundStream[e.id]
  BY <1>0, <1>1, ListedIs, KindsAre
<1>3. PICK n : n = [Following(m, "active") EXCEPT !.list = list]
  OBVIOUS
<1>4. Sound(n) /\ n.serial = m.serial /\ n.generation = m.generation /\ n.kind \notin Transitions
  <2>1. PICK f : f = Following(m, "active")
    OBVIOUS
  <2>2. Sound(f) /\ f.serial = m.serial /\ f.generation = m.generation /\ f.kind = "active"
    BY <2>1, FollowingIs, KindsAre
  <2>3. n = [f EXCEPT !.list = list]
    BY <1>3, <2>1
  <2>4. Sound(n) /\ n.serial = f.serial /\ n.generation = f.generation /\ n.kind = f.kind
    BY <1>2, <2>2, <2>3, ListedAfter
  <2> QED BY <2>2, <2>4, KindsAre
<1>5. Proceeds(m, yt, n)
  BY <1>1, <1>3 DEF UpcomingArrive
<1> QED BY <1>0, <1>4, <1>5, AlikeNow, ProceedsIs DEF Moves

LEMMA ActiveIs ==
  ASSUME Types, NEW m \in requests, ActiveArrive(m)
  PROVE  Moves(m)
<1>0. TypeOK /\ m \in Request /\ \A e \in m.list : e.stream = boundStream[e.id]
  BY DEF Types, TypeOK
<1>1. PICK list : list = m.list \cup Listed("active")
  OBVIOUS
<1>2. list \in SUBSET ListEntry /\ \A e \in list : e.stream = boundStream[e.id]
  BY <1>0, <1>1, ListedIs, KindsAre DEF Request
<1>3. CASE Proceeds(m, yt, [Following(m, "streams") EXCEPT !.list = list])
  <2>1. PICK n : n = [Following(m, "streams") EXCEPT !.list = list]
    OBVIOUS
  <2>2. Sound(n) /\ n.serial = m.serial /\ n.generation = m.generation /\ n.kind \notin Transitions
    <3>1. PICK f : f = Following(m, "streams")
      OBVIOUS
    <3>2. Sound(f) /\ f.serial = m.serial /\ f.generation = m.generation /\ f.kind = "streams"
      BY <3>1, FollowingIs, KindsAre
    <3>3. n = [f EXCEPT !.list = list]
      BY <2>1, <3>1
    <3>4. Sound(n) /\ n.serial = f.serial /\ n.generation = f.generation /\ n.kind = f.kind
      BY <1>2, <3>2, <3>3, ListedAfter
    <3> QED BY <3>2, <3>4, KindsAre
  <2>3. Proceeds(m, yt, n)
    BY <1>3, <2>1
  <2> QED BY <1>0, <2>2, <2>3, AlikeNow, ProceedsIs DEF Moves
<1>4. CASE Ends(m, yt, "NeedsManualStart")
  <2>1. "NeedsManualStart" \in Settled
    BY DEF Settled
  <2> QED BY <1>0, <1>4, <2>1, AlikeNow, EndsIs DEF Moves
<1> QED BY <1>1, <1>3, <1>4 DEF ActiveArrive

LEMMA TransitionIs ==
  ASSUME Types, NEW m \in requests, TransitionAccepted(m) \/ TransitionPostponed(m)
  PROVE  Moves(m)
<1>0. TypeOK /\ m \in Request
  BY DEF Types, TypeOK
<1>1. {"Testing", "LiveStarting", "WaitingForSignal"} \subseteq Pending
  BY DEF Pending
<1>2. PICK y : y = [yt EXCEPT !.transientRetryCount = 0]
  OBVIOUS
<1>3. Alike(y)
  BY <1>0, <1>2, YouTubeAssumption DEF TypeOK, Alike, YouTubeSession
<1>4. \E z \in {y, yt}, status \in Pending : PollsAgain(m, z, status, Later(m.attempt))
  <2>1. CASE TransitionAccepted(m)
    BY <2>1, <1>1, <1>2 DEF TransitionAccepted
  <2>2. CASE TransitionPostponed(m)
    BY <2>2, <1>1 DEF TransitionPostponed
  <2> QED BY <2>1, <2>2
<1>5. PollsBy(m)
  BY <1>0, <1>3, <1>4, AlikeNow, Attempts, PollsAgainIs
<1> QED BY <1>5 DEF Moves
\* The broadcast an entry stands for is taken to its next stage.
LEMMA TakesLiveIs ==
  ASSUME Types, NEW m \in requests, NEW b \in ListEntry, b.stream = boundStream[b.id],
         Keyed => b.stream \in OurStreams, broadcastId' = b.id, TakesLive(m, yt, b)
  PROVE  Moves(m)
<1>0. TypeOK /\ m \in Request /\ m.serial \in 1 .. serial /\ yt \in YouTubeSession /\ b.id \in Broadcasts
  BY DEF Types, TypeOK, ListEntry
<1>1. 0 \in 0 .. MaxTransientRetries /\ 0 \in 0 .. MaxAttempts + 1
  BY YouTubeAssumption
<1>2. PICK waited : waited = (yt.autoStartWaiting # "no")
  OBVIOUS
<1>3. PICK stage \in Transitions : stage = IF b.id \in Monitored /\ b.life # "testing" THEN "testing" ELSE "live"
  BY DEF Transitions
<1>4. {"Testing", "LiveStarting"} \subseteq Pending /\ "Live" \in Settled
  BY DEF Pending, Settled
<1>5. CASE Ends(m, [yt EXCEPT !.transientRetryCount = 0, !.autoStartWaiting = "no"], "Live")
  <2>1. PICK y : y = [yt EXCEPT !.transientRetryCount = 0, !.autoStartWaiting = "no"]
    OBVIOUS
  <2>2. Alike(y)
    BY <1>0, <1>1, <2>1 DEF Alike, YouTubeSession, Clock
  <2>3. Ends(m, y, "Live")
    BY <1>5, <2>1
  <2> QED BY <2>2, <2>3, <1>4, EndsIs DEF Moves
<1>6. CASE PollsAgain(m, [yt EXCEPT !.transientRetryCount = 0], "LiveStarting", Later(m.attempt))
  <2>1. PICK y : y = [yt EXCEPT !.transientRetryCount = 0]
    OBVIOUS
  <2>2. Alike(y)
    BY <1>0, <1>1, <2>1 DEF Alike, YouTubeSession
  <2>3. PollsAgain(m, y, "LiveStarting", Later(m.attempt))
    BY <1>6, <2>1
  <2> QED BY <1>0, <2>2, <2>3, <1>4, Attempts, PollsAgainIs DEF Moves
<1>7. CASE PollsAgain(m, [yt EXCEPT !.transientRetryCount = 0,
                                    !.autoStartWaiting = IF waited THEN @ ELSE "recent"],
                      "LiveStarting", Later(m.attempt))
  <2>1. PICK y : y = [yt EXCEPT !.transientRetryCount = 0, !.autoStartWaiting = IF waited THEN @ ELSE "recent"]
    OBVIOUS
  <2>2. Alike(y)
    BY <1>0, <1>1, <2>1 DEF Alike, YouTubeSession, Clock
  <2>3. PollsAgain(m, y, "LiveStarting", Later(m.attempt))
    BY <1>7, <2>1
  <2> QED BY <1>0, <2>2, <2>3, <1>4, Attempts, PollsAgainIs DEF Moves
<1>8. CASE /\ yt' = [yt EXCEPT !.autoStartWaiting = "no", !.signalActive = IF waited THEN "recent" ELSE @]
           /\ platform' = IF stage = "testing" THEN "Testing" ELSE "LiveStarting"
           /\ requests' = (requests \ {m}) \cup
                {[m EXCEPT !.kind = stage, !.id = b.id, !.list = {}, !.attempt = IF waited THEN 0 ELSE @]}
           /\ UNCHANGED polls
  <2>1. PICK n : n = [m EXCEPT !.kind = stage, !.id = b.id, !.list = {}, !.attempt = IF waited THEN 0 ELSE @]
    OBVIOUS
  <2>2. stage \in RequestKinds
    BY KindsAre
  <2>3. /\ n \in Request /\ n.serial = m.serial /\ n.generation = m.generation /\ n.kind = stage
        /\ n.id = b.id /\ n.list = {}
    BY <1>0, <1>1, <2>1, <2>2 DEF Request
  <2>4. Sound(n)
    BY <1>0, <2>3 DEF Sound
  <2>5. Alike(yt')
    BY <1>0, <1>8 DEF Alike, YouTubeSession, Clock
  <2>6. platform' \in Pending
    BY <1>4, <1>8
  <2>7. requests' = (requests \ {m}) \cup {n} /\ polls' = polls
    BY <1>8, <2>1
  <2>8. n.id = broadcastId' /\ (Keyed => boundStream[n.id] \in OurStreams)
    BY <2>3
  <2> QED BY <2>3, <2>4, <2>5, <2>6, <2>7, <2>8 DEF GoesOnBy, Moves
<1> QED BY <1>2, <1>3, <1>5, <1>6, <1>7, <1>8 DEF TakesLive

\* A question to the user ends the operation it belongs to.
AsksBy(m) ==
  /\ EndsBy(m) /\ platform' # "Live"
  /\ choice' \in [serial : {serial}, generation : {m.generation}, candidates : SUBSET Broadcasts]

LEMMA SelectsIs ==
  ASSUME Types, NEW m \in requests, NEW receiving, Selects(m, receiving)
  PROVE  /\ Moves(m)
         /\ choice' = choice \/ AsksBy(m)
         /\ broadcastId' \in Broadcasts \cup {NoBroadcast}
         /\ broadcastId # NoBroadcast => broadcastId' = broadcastId
<1>0. /\ TypeOK /\ m \in Request /\ m.serial \in 1 .. serial /\ yt \in YouTubeSession
      /\ \A e \in m.list : e \in ListEntry /\ e.stream = boundStream[e.id]
      /\ broadcastId \in Broadcasts \cup {NoBroadcast} /\ Keyed \in BOOLEAN
  BY YouTubeAssumption DEF Types, TypeOK, Request
<1>1. PICK s : s = Select(m.list, receiving, OurStreams, Keyed, broadcastId)
  OBVIOUS
<1>2. PICK eligible : eligible = Eligible(m.list, receiving, OurStreams, Keyed)
  OBVIOUS
<1>3. PICK y : y = [yt EXCEPT !.transientRetryCount = 0]
  OBVIOUS
<1>4. Alike(y)
  BY <1>0, <1>3, YouTubeAssumption DEF Alike, YouTubeSession
<1>5. {"MultipleBroadcasts", "Failed", "BroadcastMismatch"} \subseteq Settled /\ "WaitingForSignal" \in Pending
  BY DEF Settled, Pending
<1>6. Asks(m, eligible) => choice' \in [serial : {serial}, generation : {m.generation}, candidates : SUBSET Broadcasts]
  <2>1. \A e \in eligible : e.id \in Broadcasts
    BY <1>0, <1>2 DEF Eligible, Active, ListEntry
  <2>2. {e.id : e \in eligible} \in SUBSET Broadcasts
    BY <2>1
  <2> QED BY <2>2 DEF Asks
<1>7. CASE \E status \in {"MultipleBroadcasts", "Failed", "BroadcastMismatch"} :
             Ends(m, y, status) /\ (choice' = choice \/ Asks(m, eligible)) /\ broadcastId' = broadcastId
  <2>1. EndsBy(m) /\ platform' # "Live" /\ (choice' = choice \/ Asks(m, eligible)) /\ broadcastId' = broadcastId
    BY <1>4, <1>5, <1>7, EndsIs DEF Ends
  <2> QED BY <2>1, <1>0, <1>6 DEF Moves, AsksBy
<1>8. CASE PollsAgain(m, y, "WaitingForSignal", Later(m.attempt)) /\ choice' = choice /\ broadcastId' = broadcastId
  BY <1>0, <1>4, <1>5, <1>8, Attempts, PollsAgainIs DEF Moves
<1>9. CASE s.state = "selected" /\ broadcastId' = s.broadcast.id /\ TakesLive(m, yt, s.broadcast) /\ choice' = choice
  <2>1. /\ s.broadcast \in m.list /\ (Keyed => s.broadcast.stream \in OurStreams)
        /\ broadcastId # NoBroadcast => s.broadcast.id = broadcastId
    BY <1>0, <1>1, <1>9, SelectedIs
  <2>2. s.broadcast \in ListEntry /\ s.broadcast.stream = boundStream[s.broadcast.id]
    BY <1>0, <2>1
  <2>3. Moves(m)
    BY <1>9, <2>1, <2>2, TakesLiveIs
  <2>4. s.broadcast.id \in Broadcasts
    BY <2>2 DEF ListEntry
  <2> QED BY <1>9, <2>1, <2>3, <2>4
<1> QED
  <2>1. \/ Ends(m, y, "MultipleBroadcasts") /\ Asks(m, eligible) /\ broadcastId' = broadcastId
        \/ Ends(m, y, "Failed") /\ (choice' = choice \/ Asks(m, eligible)) /\ broadcastId' = broadcastId
        \/ Ends(m, y, "BroadcastMismatch") /\ choice' = choice /\ broadcastId' = broadcastId
        \/ PollsAgain(m, y, "WaitingForSignal", Later(m.attempt)) /\ choice' = choice /\ broadcastId' = broadcastId
        \/ s.state = "selected" /\ broadcastId' = s.broadcast.id /\ TakesLive(m, yt, s.broadcast) /\ choice' = choice
    BY <1>1, <1>2, <1>3 DEF Selects
  <2> QED BY <2>1, <1>7, <1>8, <1>9
LEMMA AcceptedIs ==
  ASSUME TypeOK, NEW m, Accepted(m)
  PROVE  life' \in [Broadcasts -> Lives]
<1>1. {"testStarting", "liveStarting"} \subseteq Lives
  BY DEF Lives
<1>2. PICK l \in Lives : life' = [life EXCEPT ![m.id] = l]
  BY <1>1 DEF Accepted
<1> QED BY <1>2 DEF TypeOK

\* Whatever is answered, a reply to the current request moves the procedure.
LEMMA ReplyIs ==
  ASSUME Types, NEW m \in requests, Current(m), Reply(m)
  PROVE  /\ Moves(m)
         /\ choice' = choice \/ AsksBy(m)
         /\ broadcastId' \in Broadcasts \cup {NoBroadcast}
         /\ broadcastId # NoBroadcast => broadcastId' = broadcastId
         /\ UNCHANGED <<serial, phase, login, boundStream, autoStart>> /\ life' \in [Broadcasts -> Lives]
<1>0. /\ TypeOK /\ m \in Request /\ broadcastId \in Broadcasts \cup {NoBroadcast} /\ life \in [Broadcasts -> Lives]
      /\ serial' = serial /\ phase' = phase
  BY DEF Types, TypeOK, Reply
<1>1. CASE \E error \in {"transient", "unauthorized", "refused"} : RequestFails(m, error)
  <2>1. PICK error : RequestFails(m, error)
    BY <1>1
  <2>2. EndsBy(m) \/ PollsBy(m)
    BY <1>0, <2>1, FailsIs DEF RequestFails
  <2>3. /\ life' \in [Broadcasts -> Lives]
        /\ UNCHANGED <<login, boundStream, autoStart, broadcastId, choice>>
    <3>1. CASE UNCHANGED youTubeVars
      BY <1>0, <2>1, <3>1 DEF RequestFails, youTubeVars
    <3>2. CASE Accepted(m)
      BY <1>0, <2>1, <3>2, AcceptedIs DEF RequestFails, Accepted
    <3> QED BY <2>1, <3>1, <3>2 DEF RequestFails
  <2> QED BY <1>0, <2>2, <2>3 DEF Moves
<1>2. CASE TokenArrives(m)
  <2>1. UNCHANGED <<broadcastId, choice, youTubeVars>>
    BY <1>2 DEF TokenArrives
  <2> QED BY <1>0, <1>2, <2>1, TokenIs DEF youTubeVars
<1>3. CASE PageArrives(m)
  <2>1. UNCHANGED <<broadcastId, choice, youTubeVars>>
    BY <1>3 DEF PageArrives
  <2> QED BY <1>0, <1>3, <2>1, PageIs DEF youTubeVars
<1>4. CASE UpcomingArrive(m)
  <2>1. UNCHANGED <<broadcastId, choice, youTubeVars>>
    BY <1>4 DEF UpcomingArrive
  <2> QED BY <1>0, <1>4, <2>1, UpcomingIs DEF youTubeVars
<1>5. CASE ActiveArrive(m)
  <2>1. UNCHANGED <<broadcastId, choice, youTubeVars>>
    BY <1>5 DEF ActiveArrive
  <2> QED BY <1>0, <1>5, <2>1, ActiveIs DEF youTubeVars
<1>6. CASE StreamsArrive(m)
  <2>1. UNCHANGED youTubeVars
    BY <1>6 DEF StreamsArrive
  <2>2. CASE Ends(m, yt, "NeedsManualStart") /\ UNCHANGED <<broadcastId, choice>>
    <3>1. "NeedsManualStart" \in Settled
      BY DEF Settled
    <3> QED BY <1>0, <2>1, <2>2, <3>1, AlikeNow, EndsIs DEF Moves, youTubeVars
  <2>3. CASE \E receiving : Selects(m, receiving)
    BY <1>0, <2>1, <2>3, SelectsIs DEF youTubeVars
  <2> QED BY <1>6, <2>2, <2>3 DEF StreamsArrive
<1>7. CASE TransitionAccepted(m)
  <2>1. UNCHANGED <<broadcastId, choice, login, boundStream, autoStart>> /\ Accepted(m)
    BY <1>7 DEF TransitionAccepted, Accepted
  <2> QED BY <1>0, <1>7, <2>1, TransitionIs, AcceptedIs
<1>8. CASE TransitionPostponed(m)
  <2>1. UNCHANGED <<broadcastId, choice, youTubeVars>>
    BY <1>8 DEF TransitionPostponed
  <2> QED BY <1>0, <1>8, <2>1, TransitionIs DEF youTubeVars
<1> QED BY <1>1, <1>2, <1>3, <1>4, <1>5, <1>6, <1>7, <1>8 DEF Reply

-----------------------------------------------------------------------------
(* The inductive invariant *)

\* The requests of the current operation, and its latest timer.
Own == {m \in requests : m.serial = serial /\ m.generation = yt.operationGeneration}
Due == {p \in polls : /\ p.serial = serial /\ p.operation = yt.operationGeneration
                      /\ p.poll = yt.pollGeneration}

Idle == ~yt.operationInFlight /\ Due = {}

\* Nothing is ahead of the generations, an operation in flight has one request
\* and no timer is due, and one that is not has no request and at most a timer.
OneProcedure ==
  /\ serial > 0
  /\ \A m \in requests : m.serial = serial => m.generation <= yt.operationGeneration
  /\ \A p \in polls : p.serial = serial => p.operation <= yt.operationGeneration /\ p.poll <= yt.pollGeneration
  /\ yt.operationInFlight => Due = {} /\ \E m \in requests : Own = {m}
  /\ ~yt.operationInFlight => Own = {}
  /\ Due = {} \/ \E p \in polls : Due = {p}

\* A question can only be answered while nothing else goes on.
QuestionIsOpen ==
  choice.serial = serial =>
    /\ choice.generation <= yt.operationGeneration
    /\ choice.generation = yt.operationGeneration => Idle /\ platform # "Live"

LiveIsLast == platform = "Live" => Idle

PendingIsBacked == phase = "sending" /\ platform \in Pending => ~Idle

OursIsTaken ==
  \A m \in Own : m.kind \in Transitions => m.id = broadcastId /\ (Keyed => boundStream[m.id] \in OurStreams)

StartingIsFresh ==
  phase = "starting" =>
    /\ yt.operationGeneration = 0 /\ ~yt.operationInFlight /\ platform = "Unknown"
    /\ choice.serial # serial
    /\ \A m \in requests \cup polls : m.serial # serial

Procedure ==
  /\ OneProcedure /\ QuestionIsOpen /\ LiveIsLast /\ PendingIsBacked
  /\ OursIsTaken /\ StartingIsFresh

StartInv == Types /\ (phase \in Running => Procedure)
-----------------------------------------------------------------------------
(* One step at a time *)

LEMMA OwnIs ==
  ASSUME NEW m
  PROVE  m \in Own <=> m \in requests /\ m.serial = serial /\ m.generation = yt.operationGeneration
BY DEF Own

LEMMA DueIs ==
  ASSUME NEW p
  PROVE  p \in Due <=> p \in polls /\ p.serial = serial /\ p.operation = yt.operationGeneration
                       /\ p.poll = yt.pollGeneration
BY DEF Due

\* Own requests of an operation in flight are the current ones, and a timer
\* that is due is current while none is.
LEMMA CurrentIs ==
  ASSUME phase \in Running
  PROVE  /\ CurrentRequests = IF yt.operationInFlight THEN Own ELSE {}
         /\ CurrentPolls = IF yt.operationInFlight THEN {} ELSE Due
BY DEF CurrentRequests, CurrentPolls, Current, PollIsCurrent, Own, Due

\* A reply to the current request keeps the procedure one.
LEMMA RepliesKeep ==
  ASSUME StartInv, NEW m \in requests, Current(m), Moves(m), choice' = choice \/ AsksBy(m),
         UNCHANGED <<serial, phase, boundStream>>
  PROVE  Procedure'
<1>0. /\ phase \in Running /\ Procedure /\ m \in Own /\ yt.operationInFlight /\ TypeOK
      /\ m.serial = serial /\ m.generation = yt.operationGeneration
  BY DEF StartInv, Current, Own, Types
<1>1. Own = {m} /\ Due = {} /\ serial > 0
  BY <1>0 DEF Procedure, OneProcedure
<1>2. /\ \A n \in requests : n.serial = serial => n.generation <= yt.operationGeneration
      /\ \A p \in polls : p.serial = serial => p.operation <= yt.operationGeneration /\ p.poll <= yt.pollGeneration
      /\ yt.operationGeneration \in Nat /\ yt.pollGeneration \in Nat /\ serial \in Nat
      /\ \A p \in polls : p.operation \in Nat /\ p.poll \in Nat /\ p.serial \in Nat
      /\ choice.serial = serial => choice.generation < yt.operationGeneration
      /\ choice.generation \in Nat
  BY <1>0 DEF Procedure, OneProcedure, QuestionIsOpen, Idle, TypeOK, YouTubeSession, Poll
<1>3. platform # "Live" /\ phase # "starting" /\ "Live" \notin Pending
  BY <1>0 DEF Procedure, LiveIsLast, StartingIsFresh, Idle, Pending
<1>4. serial' = serial /\ phase' = phase /\ boundStream' = boundStream
  OBVIOUS
<1>5. StartingIsFresh'
  BY <1>3, <1>4 DEF StartingIsFresh
<1>6. Settled \cap Pending = {}
  BY DEF Settled, Pending
<1>7. CASE EndsBy(m)
  <2>1. /\ yt'.operationGeneration = yt.operationGeneration /\ yt'.pollGeneration = yt.pollGeneration
        /\ ~yt'.operationInFlight /\ requests' = requests \ {m} /\ polls' = polls /\ platform' \in Settled
    BY <1>7 DEF EndsBy
  <2>2. Own' = {} /\ Due' = {}
    BY <1>1, <1>4, <2>1 DEF Own, Due
  <2>3. OneProcedure'
    BY <1>1, <1>2, <1>4, <2>1, <2>2 DEF OneProcedure
  <2>4. QuestionIsOpen'
    <3>1. CASE choice' = choice
      BY <1>2, <1>4, <2>1, <3>1 DEF QuestionIsOpen
    <3>2. CASE AsksBy(m)
      BY <1>0, <1>2, <1>4, <2>1, <2>2, <3>2 DEF QuestionIsOpen, AsksBy, Idle
    <3> QED BY <3>1, <3>2
  <2> QED BY <1>5, <1>6, <2>1, <2>2, <2>3, <2>4 DEF Procedure, LiveIsLast, PendingIsBacked, OursIsTaken, Idle
<1>8. CASE PollsBy(m)
  <2>1. PICK p \in Poll : /\ p.serial = serial /\ p.operation = yt.operationGeneration
                          /\ p.poll = yt.pollGeneration + 1 /\ polls' = polls \cup {p}
    BY <1>8 DEF PollsBy
  <2>2. /\ yt'.operationGeneration = yt.operationGeneration /\ yt'.pollGeneration = yt.pollGeneration + 1
        /\ ~yt'.operationInFlight /\ requests' = requests \ {m} /\ platform' \in Pending
    BY <1>8 DEF PollsBy
  <2>3. Own' = {}
    BY <1>1, <1>4, <2>2 DEF Own
  <2>4. Due' = {p}
    BY <1>2, <1>4, <2>1, <2>2 DEF Due
  <2>5. OneProcedure'
    <3>1. \A q \in polls' : q.serial = serial => q.operation <= yt.operationGeneration /\ q.poll <= yt.pollGeneration + 1
      BY <1>2, <2>1
    <3>2. p \in polls'
      BY <2>1
    <3> QED BY <1>1, <1>2, <1>4, <2>2, <2>3, <2>4, <3>1, <3>2 DEF OneProcedure
  <2>6. choice' = choice
    BY <1>6, <2>2 DEF AsksBy, EndsBy
  <2>7. QuestionIsOpen'
    BY <1>2, <1>4, <2>2, <2>6 DEF QuestionIsOpen
  <2> QED BY <1>3, <1>5, <2>2, <2>3, <2>4, <2>5, <2>7 DEF Procedure, LiveIsLast, PendingIsBacked, OursIsTaken, Idle
<1>9. CASE GoesOnBy(m)
  <2>1. PICK n : /\ n.serial = m.serial /\ n.generation = m.generation
                 /\ requests' = (requests \ {m}) \cup {n}
                 /\ n.kind \in Transitions => n.id = broadcastId' /\ (Keyed => boundStream[n.id] \in OurStreams)
    BY <1>9 DEF GoesOnBy
  <2>2. /\ yt'.operationGeneration = yt.operationGeneration /\ yt'.pollGeneration = yt.pollGeneration
        /\ yt'.operationInFlight /\ polls' = polls /\ platform' \in Pending \cup {platform}
    BY <1>0, <1>9 DEF GoesOnBy, Alike
  <2>3. Own' = {n} /\ Due' = {}
    BY <1>0, <1>1, <1>4, <2>1, <2>2 DEF Own, Due
  <2>4. OneProcedure'
    <3>1. \A q \in requests' : q.serial = serial => q.generation <= yt.operationGeneration
      BY <1>0, <1>2, <2>1
    <3>2. n \in requests'
      BY <2>1
    <3> QED BY <1>1, <1>2, <1>4, <2>2, <2>3, <3>1, <3>2 DEF OneProcedure
  <2>5. choice' = choice
    BY <2>2 DEF AsksBy, EndsBy
  <2>6. QuestionIsOpen'
    BY <1>2, <1>4, <2>2, <2>5 DEF QuestionIsOpen
  <2>7. OursIsTaken'
    BY <1>4, <2>1, <2>3 DEF OursIsTaken
  <2> QED BY <1>3, <1>5, <2>2, <2>3, <2>4, <2>6, <2>7 DEF Procedure, LiveIsLast, PendingIsBacked, Idle
<1> QED BY <1>7, <1>8, <1>9 DEF Moves
-----------------------------------------------------------------------------
(* The session's steps *)

\* Session fields with which an operation may begin.
MayBegin(y) ==
  /\ y \in YouTubeSession
  /\ y.operationGeneration \in {yt.operationGeneration, yt.operationGeneration + 1}
  /\ y.pollGeneration = yt.pollGeneration /\ y.operationInFlight = yt.operationInFlight

\* maybeStartYouTubeBroadcast begins an operation, or leaves the procedure.
Begins(y) ==
  /\ yt' \in YouTubeSession /\ yt'.operationInFlight
  /\ yt'.operationGeneration = y.operationGeneration + 1 /\ yt'.pollGeneration = y.pollGeneration + 1
  /\ platform' = "RtmpSignalOnly"
  /\ \E n : /\ Sound(n) /\ n.kind \notin Transitions
            /\ n.serial = serial /\ n.generation = y.operationGeneration + 1
            /\ requests' = requests \cup {n}

Leaves(y, status) ==
  /\ yt' = y /\ requests' = requests
  /\ \/ platform' = "NeedsManualStart" /\ status # "Live" /\ ~y.operationInFlight
     \/ platform' = status /\ (status = "Live" \/ y.operationInFlight)

LEMMA MaybeStartIs ==
  ASSUME Types, serial > 0, NEW y, MayBegin(y), NEW status, NEW attempt \in 0 .. MaxAttempts + 1,
         MaybeStart(y, status, attempt)
  PROVE  (Begins(y) /\ status # "Live") \/ Leaves(y, status)
<1>1. CASE Leaves(y, status)
  BY <1>1
<1>2. CASE /\ ~NothingToStart(y, status)
           /\ yt' = Begun(y) /\ platform' = "RtmpSignalOnly"
           /\ requests' = requests \cup
                {[serial |-> serial, generation |-> y.operationGeneration + 1,
                  attempt |-> attempt, kind |-> IF y.accessToken THEN "upcoming" ELSE "token",
                  page |-> 0, list |-> {}, id |-> NoBroadcast]}
  <2>1. PICK f : f = [y EXCEPT !.pollGeneration = @ + 1]
    OBVIOUS
  <2>2. /\ f \in YouTubeSession /\ f.pollGeneration = y.pollGeneration + 1
        /\ f.operationGeneration = y.operationGeneration
    BY <2>1 DEF MayBegin, YouTubeSession
  <2>3. PICK g : g = [f EXCEPT !.operationGeneration = @ + 1]
    OBVIOUS
  <2>4. /\ g \in YouTubeSession /\ g.pollGeneration = y.pollGeneration + 1
        /\ g.operationGeneration = y.operationGeneration + 1
    BY <2>2, <2>3 DEF YouTubeSession
  <2>5. yt' = [g EXCEPT !.operationInFlight = TRUE]
    BY <1>2, <2>1, <2>3 DEF Begun
  <2>6. /\ yt' \in YouTubeSession /\ yt'.operationInFlight /\ yt'.pollGeneration = y.pollGeneration + 1
        /\ yt'.operationGeneration = y.operationGeneration + 1
    BY <2>4, <2>5 DEF YouTubeSession
  <2>7. PICK kind \in RequestKinds \ Transitions : kind = IF y.accessToken THEN "upcoming" ELSE "token"
    BY KindsAre
  <2>8. PICK n : n = [serial |-> serial, generation |-> y.operationGeneration + 1, attempt |-> attempt,
                      kind |-> kind, page |-> 0, list |-> {}, id |-> NoBroadcast]
    OBVIOUS
  <2>9. 0 \in 0 .. MaxPages - 1 /\ serial \in 1 .. serial /\ serial \in Nat /\ y.operationGeneration + 1 \in Nat
    BY YouTubeAssumption DEF Types, TypeOK, MayBegin, YouTubeSession
  <2>10. /\ n \in Request /\ n.serial = serial /\ n.generation = y.operationGeneration + 1
         /\ n.kind = kind /\ n.list = {}
    BY <2>8, <2>9 DEF Request
  <2>11. Sound(n)
    BY <2>9, <2>10 DEF Sound
  <2>12. requests' = requests \cup {n}
    BY <1>2, <2>7, <2>8
  <2> QED BY <1>2, <2>6, <2>7, <2>10, <2>11, <2>12 DEF Begins, NothingToStart
<1>3. Leaves(y, status) \/ (/\ ~NothingToStart(y, status)
                            /\ yt' = Begun(y) /\ platform' = "RtmpSignalOnly"
                            /\ requests' = requests \cup
                                 {[serial |-> serial, generation |-> y.operationGeneration + 1,
                                   attempt |-> attempt, kind |-> IF y.accessToken THEN "upcoming" ELSE "token",
                                   page |-> 0, list |-> {}, id |-> NoBroadcast]})
  BY DEF MaybeStart, Leaves, NothingToStart
<1> QED BY <1>1, <1>2, <1>3

\* An operation that begins is the only thing under way, whatever was left.
LEMMA BeginningKeeps ==
  ASSUME StartInv, phase \in Running, NEW y, MayBegin(y), Begins(y), polls' \subseteq polls,
         choice' = choice \/ choice' = NoChoice, phase' \in {"sending", "reconnecting"},
         UNCHANGED <<serial, boundStream>>
  PROVE  Procedure'
<1>0. TypeOK /\ Procedure
  BY DEF StartInv, Types
<1>1. PICK n : /\ n.kind \notin Transitions /\ n.serial = serial /\ n.generation = y.operationGeneration + 1
               /\ requests' = requests \cup {n}
  BY DEF Begins
<1>2. /\ \A m \in requests : m.serial = serial => m.generation <= yt.operationGeneration
      /\ \A p \in polls : p.serial = serial => p.operation <= yt.operationGeneration /\ p.poll <= yt.pollGeneration
      /\ yt.operationGeneration \in Nat /\ yt.pollGeneration \in Nat /\ serial > 0 /\ serial \in Nat
      /\ \A m \in requests : m.generation \in Nat
      /\ \A p \in polls : p.operation \in Nat /\ p.poll \in Nat
      /\ choice.serial = serial => choice.generation <= yt.operationGeneration
      /\ choice.generation \in Nat
  BY <1>0 DEF Procedure, OneProcedure, QuestionIsOpen, TypeOK, YouTubeSession, Request, Poll
<1>3. PICK g \in Nat : g = y.operationGeneration + 1 /\ g > yt.operationGeneration
  BY <1>2 DEF MayBegin
<1>4. /\ yt'.operationGeneration = g /\ yt'.pollGeneration = yt.pollGeneration + 1 /\ yt'.operationInFlight
      /\ platform' = "RtmpSignalOnly" /\ serial' = serial
  BY <1>3 DEF Begins, MayBegin
<1>5. Own' = {n}
  BY <1>1, <1>2, <1>3, <1>4 DEF Own
<1>6. Due' = {}
  BY <1>2, <1>4 DEF Due
<1>7. OneProcedure'
  <2>1. n \in requests' /\ \A m \in requests' : m.serial = serial => m.generation <= g
    BY <1>1, <1>2, <1>3
  <2>2. \A p \in polls' : p.serial = serial => p.operation <= g /\ p.poll <= yt.pollGeneration + 1
    BY <1>2, <1>3
  <2> QED BY <1>2, <1>4, <1>5, <1>6, <2>1, <2>2 DEF OneProcedure
<1>8. QuestionIsOpen'
  <2>1. CASE choice' = choice
    BY <1>2, <1>3, <1>4, <2>1 DEF QuestionIsOpen
  <2>2. CASE choice' = NoChoice
    <3>1. choice'.serial = 0
      BY <2>2 DEF NoChoice
    <3> QED BY <1>2, <1>4, <3>1 DEF QuestionIsOpen
  <2> QED BY <2>1, <2>2
<1>9. LiveIsLast' /\ PendingIsBacked' /\ OursIsTaken' /\ StartingIsFresh'
  BY <1>1, <1>4, <1>5 DEF LiveIsLast, PendingIsBacked, OursIsTaken, StartingIsFresh, Idle
<1> QED BY <1>7, <1>8, <1>9 DEF Procedure
\* What only drops stale requests and timers, or gives up, keeps it one.
LEMMA LeavingKeeps ==
  ASSUME TypeOK, Procedure, requests' \subseteq requests, polls' \subseteq polls, Own' = Own,
         yt'.operationGeneration = yt.operationGeneration, yt'.pollGeneration = yt.pollGeneration,
         yt'.operationInFlight = yt.operationInFlight,
         UNCHANGED <<serial, broadcastId, choice, boundStream>>,
         platform' \in {platform, "NeedsManualStart"}, phase' \in {phase, "sending"},
         Due' = Due \/ (Due' = {} /\ platform' = "NeedsManualStart" /\ ~yt.operationInFlight),
         phase' = "starting" => platform' = platform,
         platform' \in Pending => phase' = phase \/ yt.operationInFlight
  PROVE  Procedure'
<1>1. /\ OneProcedure /\ QuestionIsOpen /\ LiveIsLast /\ PendingIsBacked
      /\ OursIsTaken /\ StartingIsFresh
  BY DEF Procedure
<1>2. "NeedsManualStart" \notin Pending /\ "NeedsManualStart" # "Live"
  BY DEF Pending
<1>3. Own' \subseteq requests' /\ Due' \subseteq polls'
  BY DEF Own, Due
<1>4. (Idle => Idle') /\ (platform' # "NeedsManualStart" => Idle' = Idle)
  BY DEF Idle
<1>5. OneProcedure'
  <2>1. yt'.operationInFlight => Due' = {} /\ \E m \in requests' : Own' = {m}
    BY <1>1, <1>3 DEF OneProcedure
  <2>2. Due' = {} \/ \E p \in polls' : Due' = {p}
    BY <1>1, <1>3 DEF OneProcedure
  <2> QED BY <1>1, <2>1, <2>2 DEF OneProcedure
<1>6. QuestionIsOpen' /\ LiveIsLast'
  BY <1>1, <1>2, <1>4 DEF QuestionIsOpen, LiveIsLast
<1>7. PendingIsBacked'
  <2>1. CASE platform' \in Pending /\ phase' = "sending"
    <3>1. platform' = platform /\ Idle' = Idle
      BY <1>2, <1>4, <2>1
    <3> QED BY <1>1, <2>1, <3>1 DEF PendingIsBacked, Idle
  <2> QED BY <2>1 DEF PendingIsBacked
<1>8. OursIsTaken' /\ StartingIsFresh'
  BY <1>1 DEF OursIsTaken, StartingIsFresh
<1> QED BY <1>5, <1>6, <1>7, <1>8 DEF Procedure

\* Session fields that differ in what is seen and waited for only.
LEMMA MayBeginNow ==
  ASSUME TypeOK, NEW clock \in Clock
  PROVE  /\ MayBegin([yt EXCEPT !.signalActive = clock])
         /\ [yt EXCEPT !.signalActive = clock].operationGeneration = yt.operationGeneration
BY DEF TypeOK, MayBegin, YouTubeSession

LEMMA StartsKeep ==
  ASSUME StartInv, OutputStarts
  PROVE  Procedure'
<1>0. TypeOK /\ serial \in Nat
  BY DEF StartInv, Types, TypeOK
<1>1. /\ serial' = serial + 1 /\ phase' = "starting" /\ yt' = FreshSession /\ platform' = "Unknown"
      /\ broadcastId' = NoBroadcast /\ requests' = requests /\ polls' = polls /\ choice' = choice
  BY DEF OutputStarts
<1>2. /\ \A m \in requests \cup polls : m.serial \in 1 .. serial
      /\ choice.serial \in 0 .. serial
  BY <1>0 DEF TypeOK
<1>3. (\A m \in requests \cup polls : m.serial # serial + 1) /\ choice.serial # serial + 1
  BY <1>0, <1>2
<1>4. yt'.operationGeneration = 0 /\ ~yt'.operationInFlight
  BY <1>1 DEF FreshSession
<1>5. Own' = {} /\ Due' = {}
  BY <1>1, <1>3 DEF Own, Due
<1>6. OneProcedure'
  BY <1>0, <1>1, <1>3, <1>4, <1>5 DEF OneProcedure
<1>7. QuestionIsOpen' /\ LiveIsLast' /\ PendingIsBacked' /\ OursIsTaken'
  BY <1>1, <1>3, <1>5 DEF QuestionIsOpen, LiveIsLast, PendingIsBacked, OursIsTaken
<1>8. StartingIsFresh'
  BY <1>1, <1>3, <1>4 DEF StartingIsFresh
<1> QED BY <1>6, <1>7, <1>8 DEF Procedure

LEMMA ConnectsKeep ==
  ASSUME StartInv, OutputConnects \/ OutputReconnected
  PROVE  Procedure'
<1>0. Types /\ TypeOK /\ phase \in Running /\ Procedure /\ serial > 0
  BY DEF StartInv, Types, OutputConnects, OutputReconnected, Running, Procedure, OneProcedure
<1>1. PICK y : y = [yt EXCEPT !.signalActive = "recent"]
  OBVIOUS
<1>2. MayBegin(y) /\ y.operationGeneration = yt.operationGeneration
  BY <1>0, <1>1, MayBeginNow DEF Clock
<1>3. PICK status : /\ MaybeStart(y, status, 0)
                    /\ status = IF phase = "starting" THEN "RtmpSignalOnly" ELSE platform
  BY <1>1 DEF OutputConnects, OutputReconnected
<1>4. /\ phase' = "sending" /\ polls' = polls /\ UNCHANGED <<serial, broadcastId, choice, boundStream>>
  BY DEF OutputConnects, OutputReconnected, youTubeVars
<1>5. 0 \in 0 .. MaxAttempts + 1
  BY YouTubeAssumption
<1>6. Begins(y) \/ Leaves(y, status)
  BY <1>0, <1>2, <1>3, <1>5, MaybeStartIs
<1>7. CASE Begins(y)
  BY <1>0, <1>2, <1>4, <1>7, BeginningKeeps
<1>8. CASE Leaves(y, status)
  <2>1. /\ yt'.operationGeneration = yt.operationGeneration /\ yt'.pollGeneration = yt.pollGeneration
        /\ yt'.operationInFlight = yt.operationInFlight /\ requests' = requests
    BY <1>2, <1>8 DEF Leaves, MayBegin
  <2>2. Own' = Own /\ Due' = Due
    BY <1>4, <2>1 DEF Own, Due
  <2>3. phase = "starting" => ~yt.operationInFlight
    BY <1>0 DEF Procedure, StartingIsFresh
  <2>4. platform' \in {platform, "NeedsManualStart"} /\ (platform' \in Pending => yt.operationInFlight)
    BY <1>2, <1>3, <1>8, <2>3 DEF Leaves, MayBegin, Pending
  <2> QED BY <1>0, <1>4, <2>1, <2>2, <2>4, LeavingKeeps
<1> QED BY <1>6, <1>7, <1>8

LEMMA ReconnectsKeep ==
  ASSUME StartInv, OutputReconnects
  PROVE  Procedure'
<1>0. Types /\ TypeOK /\ phase \in Running /\ Procedure /\ serial > 0 /\ yt \in YouTubeSession
  BY DEF StartInv, Types, TypeOK, OutputReconnects, Running, Procedure, OneProcedure
<1>1. /\ phase' = "reconnecting" /\ yt' = Superseded(yt)
      /\ UNCHANGED <<serial, platform, broadcastId, requests, polls, choice, boundStream>>
  BY DEF OutputReconnects, youTubeVars
<1>2. /\ yt'.operationGeneration = yt.operationGeneration + 1 /\ yt'.pollGeneration = yt.pollGeneration + 1
      /\ ~yt'.operationInFlight
  BY <1>0, <1>1 DEF Superseded, Completed, YouTubeSession
<1>3. /\ \A m \in requests : m.serial = serial => m.generation <= yt.operationGeneration
      /\ \A p \in polls : p.serial = serial => p.operation <= yt.operationGeneration /\ p.poll <= yt.pollGeneration
      /\ yt.operationGeneration \in Nat /\ yt.pollGeneration \in Nat
      /\ \A m \in requests : m.generation \in Nat
      /\ \A p \in polls : p.operation \in Nat /\ p.poll \in Nat
      /\ choice.serial = serial => choice.generation <= yt.operationGeneration
      /\ choice.generation \in Nat
  BY <1>0 DEF Procedure, OneProcedure, QuestionIsOpen, TypeOK, YouTubeSession, Request, Poll
<1>4. Own' = {} /\ Due' = {}
  BY <1>1, <1>2, <1>3 DEF Own, Due
<1>5. OneProcedure'
  <2>1. \A m \in requests : m.serial = serial => m.generation <= yt.operationGeneration + 1
    BY <1>3
  <2>2. \A p \in polls : p.serial = serial => p.operation <= yt.operationGeneration + 1 /\ p.poll <= yt.pollGeneration + 1
    BY <1>3
  <2> QED BY <1>0, <1>1, <1>2, <1>4, <2>1, <2>2 DEF OneProcedure
<1>6. QuestionIsOpen'
  BY <1>1, <1>2, <1>3 DEF QuestionIsOpen
<1> QED BY <1>1, <1>2, <1>4, <1>5, <1>6 DEF Procedure, LiveIsLast, PendingIsBacked, OursIsTaken, StartingIsFresh, Idle
LEMMA AnswersKeep ==
  ASSUME StartInv, NEW id, ApplySelection(id)
  PROVE  Procedure' /\ yt' \in YouTubeSession /\ platform' \in Pending \cup Settled
         /\ \A n \in requests' : n \in requests \/ Sound(n)
<1>0. Types /\ TypeOK /\ phase \in Running /\ Procedure /\ serial > 0 /\ yt \in YouTubeSession
  BY DEF StartInv, Types, TypeOK, ApplySelection, Procedure, OneProcedure
<1>1. PICK y : y = [yt EXCEPT !.operationGeneration = @ + 1, !.autoStartWaiting = "no", !.signalActive = "recent"]
  OBVIOUS
<1>2. /\ MayBegin(y) /\ y.operationGeneration = yt.operationGeneration + 1 /\ ~y.operationInFlight
      /\ y.pollGeneration = yt.pollGeneration
  <2>1. PICK x : x = [yt EXCEPT !.operationGeneration = @ + 1]
    OBVIOUS
  <2>2. /\ x \in YouTubeSession /\ x.operationGeneration = yt.operationGeneration + 1
        /\ x.pollGeneration = yt.pollGeneration /\ x.operationInFlight = yt.operationInFlight
    BY <1>0, <2>1 DEF YouTubeSession
  <2>3. y = [x EXCEPT !.autoStartWaiting = "no", !.signalActive = "recent"]
    BY <1>1, <2>1
  <2>4. /\ y \in YouTubeSession /\ y.operationGeneration = x.operationGeneration
        /\ y.pollGeneration = x.pollGeneration /\ y.operationInFlight = x.operationInFlight
    BY <2>2, <2>3 DEF YouTubeSession, Clock
  <2>5. ~yt.operationInFlight
    BY DEF ApplySelection
  <2> QED BY <2>2, <2>4, <2>5 DEF MayBegin
<1>3. MaybeStart(y, "RtmpSignalOnly", 0)
  BY <1>1 DEF ApplySelection
<1>4. /\ choice' = NoChoice /\ polls' = polls /\ choice.serial = serial
      /\ UNCHANGED <<serial, phase, boundStream>>
  BY DEF ApplySelection, youTubeVars
<1>5. phase \in {"sending", "reconnecting"}
  BY <1>0, <1>4 DEF Procedure, StartingIsFresh, Running
<1>6. 0 \in 0 .. MaxAttempts + 1
  BY YouTubeAssumption
<1>7. Begins(y) \/ Leaves(y, "RtmpSignalOnly")
  BY <1>0, <1>2, <1>3, <1>6, MaybeStartIs
<1>8. CASE Begins(y)
  <2>1. Procedure'
    BY <1>0, <1>2, <1>4, <1>5, <1>8, BeginningKeeps
  <2> QED BY <2>1, <1>8 DEF Begins, Pending
<1>9. CASE Leaves(y, "RtmpSignalOnly")
  <2>1. yt' = y /\ requests' = requests /\ platform' = "NeedsManualStart"
    BY <1>2, <1>9 DEF Leaves
  <2>2. /\ \A m \in requests : m.serial = serial => m.generation <= yt.operationGeneration
        /\ \A p \in polls : p.serial = serial => p.operation <= yt.operationGeneration /\ p.poll <= yt.pollGeneration
        /\ yt.operationGeneration \in Nat /\ yt.pollGeneration \in Nat
        /\ \A m \in requests : m.generation \in Nat
        /\ \A p \in polls : p.operation \in Nat /\ p.poll \in Nat
    BY <1>0 DEF Procedure, OneProcedure, TypeOK, YouTubeSession, Request, Poll
  <2>3. Own' = {} /\ Due' = {}
    BY <1>2, <1>4, <2>1, <2>2 DEF Own, Due
  <2>4. OneProcedure'
    <3>1. \A m \in requests : m.serial = serial => m.generation <= yt.operationGeneration + 1
      BY <2>2
    <3>2. \A p \in polls : p.serial = serial => p.operation <= yt.operationGeneration + 1
      BY <2>2
    <3> QED BY <1>0, <1>2, <1>4, <2>1, <2>2, <2>3, <3>1, <3>2 DEF OneProcedure
  <2>5. choice'.serial = 0
    BY <1>4 DEF NoChoice
  <2>6. "NeedsManualStart" \in Settled /\ "NeedsManualStart" \notin Pending
    BY DEF Settled, Pending
  <2>7. Procedure'
    BY <1>0, <1>4, <1>5, <2>1, <2>3, <2>4, <2>5, <2>6
       DEF Procedure, QuestionIsOpen, LiveIsLast, PendingIsBacked, OursIsTaken, StartingIsFresh
  <2>8. yt' \in YouTubeSession
    BY <1>2, <2>1 DEF MayBegin
  <2> QED BY <2>1, <2>6, <2>7, <2>8
<1> QED BY <1>7, <1>8, <1>9

\* A timer that is current is the one due, and nothing else goes on.
LEMMA TimersKeep ==
  ASSUME StartInv, phase \in Running, NEW p \in polls, PollTimer(p)
  PROVE  /\ Procedure' /\ yt' \in YouTubeSession /\ platform' \in Pending \cup Settled
         /\ \A n \in requests' : n \in requests \/ Sound(n)
         /\ platform = "Live" => platform' = "Live"
<1>0. /\ Types /\ TypeOK /\ Procedure /\ serial > 0 /\ yt \in YouTubeSession /\ p \in Poll
      /\ platform \in Pending \cup Settled
  BY DEF StartInv, Types, TypeOK, Procedure, OneProcedure
<1>1. /\ polls' = polls \ {p} /\ UNCHANGED <<serial, phase, broadcastId, choice, boundStream>>
  BY DEF PollTimer, youTubeVars
<1>2. CASE ~PollIsCurrent(p) /\ UNCHANGED <<yt, platform, requests>>
  <2>1. p \notin Due
    BY <1>0, <1>2 DEF Procedure, OneProcedure, PollIsCurrent, Due
  <2>2. Own' = Own /\ Due' = Due
    BY <1>1, <1>2, <2>1 DEF Own, Due
  <2>3. Procedure'
    BY <1>0, <1>1, <1>2, <2>2, LeavingKeeps
  <2> QED BY <1>0, <1>2, <2>3
<1>3. CASE PollIsCurrent(p) /\ MaybeStart(yt, platform, p.attempt)
  <2>1. p \in Due /\ ~yt.operationInFlight
    BY <1>3 DEF PollIsCurrent, Due
  <2>2. platform # "Live" /\ phase \in {"sending", "reconnecting"}
    BY <1>0, <1>3, <2>1 DEF Procedure, LiveIsLast, Idle, StartingIsFresh, PollIsCurrent, Running
  <2>3. p.attempt \in 0 .. MaxAttempts + 1
    BY <1>0 DEF Poll
  <2>4. MayBegin(yt)
    BY <1>0 DEF MayBegin
  <2>5. Begins(yt) \/ Leaves(yt, platform)
    BY <1>0, <1>3, <2>3, <2>4, MaybeStartIs
  <2>6. CASE Begins(yt)
    <3>1. Procedure'
      BY <1>1, <2>2, <2>4, <2>6, BeginningKeeps
    <3> QED BY <2>2, <2>6, <3>1 DEF Begins, Pending
  <2>7. CASE Leaves(yt, platform)
    <3>1. yt' = yt /\ requests' = requests /\ platform' = "NeedsManualStart"
      BY <2>1, <2>2, <2>7 DEF Leaves
    <3>2. Due = {p}
      BY <1>0, <2>1 DEF Procedure, OneProcedure
    <3>3. Own' = Own /\ Due' = {}
      BY <1>1, <3>1, <3>2 DEF Own, Due
    <3>4. "NeedsManualStart" \in Settled /\ "NeedsManualStart" \notin Pending
      BY DEF Settled, Pending
    <3>5. Procedure'
      BY <1>0, <1>1, <2>1, <2>2, <3>1, <3>3, <3>4, LeavingKeeps
    <3> QED BY <1>0, <2>2, <3>1, <3>4, <3>5
  <2> QED BY <2>5, <2>6, <2>7
<1> QED BY <1>2, <1>3 DEF PollTimer

\* A reply that is stale, and what passes without a request or a timer.
LEMMA StaleKeeps ==
  ASSUME StartInv, phase \in Running, NEW m \in requests, ~Current(m), StaleReply(m), UNCHANGED <<serial, phase>>
  PROVE  Procedure'
<1>0. TypeOK /\ Procedure
  BY DEF StartInv, Types
<1>1. /\ requests' = requests \ {m}
      /\ UNCHANGED <<platform, broadcastId, yt, polls, choice, boundStream>>
  BY DEF StaleReply, youTubeVars
<1>2. m \notin Own
  BY <1>0 DEF Procedure, OneProcedure, Current, Own
<1>3. Own' = Own /\ Due' = Due
  BY <1>1, <1>2 DEF Own, Due
<1> QED BY <1>0, <1>1, <1>3, LeavingKeeps

LEMMA WaitingKeeps ==
  ASSUME StartInv, phase \in Running, yt' \in YouTubeSession,
         yt'.operationGeneration = yt.operationGeneration, yt'.pollGeneration = yt.pollGeneration,
         yt'.operationInFlight = yt.operationInFlight,
         UNCHANGED <<serial, phase, platform, broadcastId, requests, polls, choice, boundStream>>
  PROVE  Procedure'
<1>0. TypeOK /\ Procedure
  BY DEF StartInv, Types
<1>1. Own' = Own /\ Due' = Due
  BY DEF Own, Due
<1> QED BY <1>0, <1>1, LeavingKeeps

LEMMA TimePasses ==
  ASSUME TypeOK, SignalWaitExpires \/ AutoStartWaitExpires \/ TokenExpires
  PROVE  /\ yt' \in YouTubeSession
         /\ yt'.operationGeneration = yt.operationGeneration /\ yt'.pollGeneration = yt.pollGeneration
         /\ yt'.operationInFlight = yt.operationInFlight
         /\ phase \in Running
         /\ UNCHANGED <<serial, phase, platform, broadcastId, requests, polls, choice>>
         /\ UNCHANGED <<boundStream, life, autoStart>>
<1>1. yt \in YouTubeSession
  BY DEF TypeOK
<1>2. CASE SignalWaitExpires
  BY <1>1, <1>2 DEF SignalWaitExpires, YouTubeSession, Clock, youTubeVars
<1>3. CASE AutoStartWaitExpires
  BY <1>1, <1>3 DEF AutoStartWaitExpires, YouTubeSession, Clock, youTubeVars
<1>4. CASE TokenExpires
  BY <1>1, <1>4 DEF TokenExpires, YouTubeSession, youTubeVars
<1> QED BY <1>2, <1>3, <1>4
-----------------------------------------------------------------------------
(* Every step *)

LEMMA TypesKeep ==
  ASSUME Types, serial' \in Nat, serial' <= MaxSerial, serial <= serial', phase' \in Phases,
         platform' \in Pending \cup Settled, broadcastId' \in Broadcasts \cup {NoBroadcast},
         yt' \in YouTubeSession, \A n \in requests' : n \in requests \/ Sound(n),
         \A p \in polls' : p \in polls \/ (p \in Poll /\ p.serial \in 1 .. serial),
         choice' \in [serial : 0 .. serial, generation : Nat, candidates : SUBSET Broadcasts],
         boundStream' = boundStream, life' \in [Broadcasts -> Lives], autoStart' \subseteq AutoStarting
  PROVE  Types'
<1>0. TypeOK /\ \A m \in requests : \A e \in m.list : e.stream = boundStream[e.id]
  BY DEF Types
<1>1. serial \in Nat /\ \A k \in 0 .. serial : k \in 0 .. serial' /\ (k >= 1 => k \in 1 .. serial')
  BY <1>0 DEF TypeOK
<1>2. requests' \subseteq Request /\ polls' \subseteq Poll
  BY <1>0 DEF TypeOK, Sound
<1>3. \A m \in requests' \cup polls' : m.serial \in 1 .. serial'
  <2>1. \A m \in requests' \cup polls' : m.serial \in 1 .. serial
    BY <1>0 DEF TypeOK, Sound
  <2> QED BY <2>1, <1>1
<1>4. choice' \in [serial : 0 .. serial', generation : Nat, candidates : SUBSET Broadcasts]
  BY <1>1
<1>5. \A m \in requests' : \A e \in m.list : e.stream = boundStream'[e.id]
  BY <1>0 DEF Sound
<1>6. boundStream' \in Bindings
  BY <1>0 DEF TypeOK
<1> QED BY <1>2, <1>3, <1>4, <1>5, <1>6 DEF Types, TypeOK

LEMMA FreshIsSession == FreshSession \in YouTubeSession
<1>1. 0 \in 0 .. MaxTransientRetries
  BY YouTubeAssumption
<1> QED BY <1>1 DEF FreshSession, YouTubeSession, Clock

LEMMA StatusesAre ==
  /\ {"Unknown", "Failed", "NeedsManualStart", "Live"} \subseteq Settled /\ "RtmpSignalOnly" \in Pending
  /\ {"idle", "starting", "sending", "reconnecting", "closing"} = Phases /\ Running \subseteq Phases
  /\ "idle" \notin Running /\ "closing" \notin Running
BY DEF Settled, Pending, Phases, Running

LEMMA NoChoiceIs ==
  ASSUME serial \in Nat
  PROVE  NoChoice \in [serial : 0 .. serial, generation : Nat, candidates : SUBSET Broadcasts]
<1>1. 0 \in 0 .. serial
  OBVIOUS
<1> QED BY <1>1 DEF NoChoice

LEMMA SessionSteps ==
  ASSUME StartInv, SessionStep
  PROVE  Types' /\ (phase' \in Running => Procedure')
<1>0. /\ Types /\ TypeOK /\ serial \in Nat /\ serial <= MaxSerial /\ platform \in Pending \cup Settled
      /\ broadcastId \in Broadcasts \cup {NoBroadcast} /\ yt \in YouTubeSession
      /\ choice \in [serial : 0 .. serial, generation : Nat, candidates : SUBSET Broadcasts]
      /\ life \in [Broadcasts -> Lives] /\ autoStart \subseteq AutoStarting
  BY DEF StartInv, Types, TypeOK
<1>1. CASE OutputStarts
  <2>1. /\ serial' = serial + 1 /\ serial < MaxSerial /\ phase' = "starting" /\ yt' = FreshSession
        /\ platform' = "Unknown" /\ broadcastId' = NoBroadcast
        /\ UNCHANGED <<requests, polls, choice, boundStream, life, autoStart>>
    BY <1>1 DEF OutputStarts, youTubeVars
  <2>2. serial' \in Nat /\ serial' <= MaxSerial /\ serial <= serial'
    BY <1>0, <2>1, YouTubeAssumption
  <2>3. Types'
    BY <1>0, <2>1, <2>2, FreshIsSession, StatusesAre, TypesKeep
  <2> QED BY <1>1, <2>3, StartsKeep
<1>2. CASE OutputConnects \/ OutputReconnected
  <2>1. PICK y : y = [yt EXCEPT !.signalActive = "recent"]
    OBVIOUS
  <2>2. MayBegin(y)
    BY <1>0, <2>1, MayBeginNow DEF Clock
  <2>3. PICK status \in Pending \cup Settled : MaybeStart(y, status, 0)
    BY <1>0, <1>2, <2>1, StatusesAre DEF OutputConnects, OutputReconnected
  <2>4. phase \in Running /\ 0 \in 0 .. MaxAttempts + 1
    BY <1>2, YouTubeAssumption DEF OutputConnects, OutputReconnected, Running
  <2>5. serial > 0
    BY <2>4 DEF StartInv, Procedure, OneProcedure
  <2>6. Begins(y) \/ Leaves(y, status)
    BY <1>0, <2>2, <2>3, <2>4, <2>5, MaybeStartIs
  <2>7. yt' \in YouTubeSession /\ platform' \in Pending \cup Settled /\ \A n \in requests' : n \in requests \/ Sound(n)
    BY <2>2, <2>6, StatusesAre DEF Begins, Leaves, MayBegin
  <2>8. phase' = "sending" /\ UNCHANGED <<serial, broadcastId, polls, choice, boundStream, life, autoStart>>
    BY <1>2 DEF OutputConnects, OutputReconnected, youTubeVars
  <2>9. Types'
    BY <1>0, <2>7, <2>8, StatusesAre, TypesKeep
  <2> QED BY <1>2, <2>9, ConnectsKeep
<1>3. CASE OutputReconnects
  <2>1. /\ phase' = "reconnecting" /\ yt' = Superseded(yt)
        /\ UNCHANGED <<serial, platform, broadcastId, requests, polls, choice, boundStream, life, autoStart>>
    BY <1>3 DEF OutputReconnects, youTubeVars
  <2>2. yt' \in YouTubeSession
    <3>1. PICK z : z = [yt EXCEPT !.operationInFlight = FALSE]
      OBVIOUS
    <3>2. z \in YouTubeSession
      BY <1>0, <3>1 DEF YouTubeSession
    <3>3. PICK w : w = [z EXCEPT !.operationGeneration = @ + 1]
      OBVIOUS
    <3>4. w \in YouTubeSession
      BY <3>2, <3>3 DEF YouTubeSession
    <3>5. yt' = [w EXCEPT !.pollGeneration = @ + 1]
      BY <2>1, <3>1, <3>3 DEF Superseded, Completed
    <3> QED BY <3>4, <3>5 DEF YouTubeSession
  <2>3. Types'
    BY <1>0, <2>1, <2>2, StatusesAre, TypesKeep
  <2> QED BY <1>3, <2>3, ReconnectsKeep
<1>4. CASE StopRequested \/ OutputStopped \/ SessionReleased \/ ProfileReloaded
  <2>1. /\ phase' \in {"idle", "closing"} /\ yt' \in {yt, FreshSession} /\ platform' \in {platform, "Unknown", "Failed"}
        /\ broadcastId' \in {broadcastId, NoBroadcast} /\ requests' \subseteq requests
        /\ UNCHANGED <<serial, polls, choice, boundStream, life, autoStart>>
    BY <1>4 DEF StopRequested, OutputStopped, SessionReleased, ProfileReloaded, youTubeVars
  <2>2. Types'
    BY <1>0, <2>1, FreshIsSession, StatusesAre, TypesKeep
  <2> QED BY <2>1, <2>2, StatusesAre
<1> QED BY <1>1, <1>2, <1>3, <1>4 DEF SessionStep

LEMMA AnswerSteps ==
  ASSUME StartInv, NEW id \in choice.candidates, ApplySelection(id)
  PROVE  Types' /\ Procedure'
<1>0. /\ Types /\ serial \in Nat /\ serial <= MaxSerial /\ phase \in Phases
      /\ choice \in [serial : 0 .. serial, generation : Nat, candidates : SUBSET Broadcasts]
      /\ life \in [Broadcasts -> Lives] /\ autoStart \subseteq AutoStarting
  BY DEF StartInv, Types, TypeOK
<1>1. /\ broadcastId' = id /\ choice' = NoChoice
      /\ UNCHANGED <<serial, phase, polls, boundStream, life, autoStart>>
  BY DEF ApplySelection, youTubeVars
<1>2. Procedure' /\ yt' \in YouTubeSession /\ platform' \in Pending \cup Settled
      /\ \A n \in requests' : n \in requests \/ Sound(n)
  BY AnswersKeep
<1>3. id \in Broadcasts
  BY <1>0
<1>4. Types'
  BY <1>0, <1>1, <1>2, <1>3, NoChoiceIs, TypesKeep
<1> QED BY <1>2, <1>4

LEMMA ReplySteps ==
  ASSUME StartInv, NEW m \in requests, Reply(m)
  PROVE  Types' /\ (phase' \in Running => Procedure')
<1>0. /\ Types /\ TypeOK /\ serial \in Nat /\ serial <= MaxSerial /\ phase \in Phases
      /\ platform \in Pending \cup Settled /\ broadcastId \in Broadcasts \cup {NoBroadcast} /\ yt \in YouTubeSession
      /\ choice \in [serial : 0 .. serial, generation : Nat, candidates : SUBSET Broadcasts]
      /\ life \in [Broadcasts -> Lives] /\ autoStart \subseteq AutoStarting
      /\ m \in Request /\ m.serial \in 1 .. serial
  BY DEF StartInv, Types, TypeOK
<1>1. serial' = serial /\ phase' = phase
  BY DEF Reply
<1>2. CASE ~Current(m) /\ StaleReply(m)
  <2>1. /\ requests' = requests \ {m}
        /\ UNCHANGED <<platform, broadcastId, yt, polls, choice, boundStream, life, autoStart>>
    BY <1>2 DEF StaleReply, youTubeVars
  <2>2. Types'
    BY <1>0, <1>1, <2>1, TypesKeep
  <2> QED BY <1>1, <1>2, <2>2, StaleKeeps
<1>3. CASE Current(m)
  <2>1. /\ Moves(m) /\ (choice' = choice \/ AsksBy(m)) /\ broadcastId' \in Broadcasts \cup {NoBroadcast}
        /\ UNCHANGED <<boundStream, autoStart>> /\ life' \in [Broadcasts -> Lives]
    BY <1>0, <1>3, ReplyIs
  <2>2. Procedure'
    BY <1>1, <1>3, <2>1, RepliesKeep
  <2>3. /\ yt' \in YouTubeSession /\ platform' \in Pending \cup Settled
        /\ \A n \in requests' : n \in requests \/ Sound(n)
        /\ \A p \in polls' : p \in polls \/ (p \in Poll /\ p.serial = serial)
    BY <1>0, <2>1 DEF Moves, EndsBy, PollsBy, GoesOnBy, Alike
  <2>4. choice' \in [serial : 0 .. serial, generation : Nat, candidates : SUBSET Broadcasts]
    <3>1. CASE AsksBy(m)
      <4>1. serial \in 0 .. serial /\ m.generation \in Nat
        BY <1>0 DEF Request
      <4> QED BY <3>1, <4>1 DEF AsksBy
    <3> QED BY <1>0, <2>1, <3>1
  <2>5. serial \in 1 .. serial
    BY <1>0
  <2>6. Types'
    BY <1>0, <1>1, <2>1, <2>3, <2>4, <2>5, TypesKeep
  <2> QED BY <2>2, <2>6
<1> QED BY <1>2, <1>3 DEF Reply

LEMMA TimerSteps ==
  ASSUME StartInv, NEW p \in polls, PollTimer(p)
  PROVE  Types' /\ (phase' \in Running => Procedure')
<1>0. /\ Types /\ serial \in Nat /\ serial <= MaxSerial /\ phase \in Phases
      /\ platform \in Pending \cup Settled /\ broadcastId \in Broadcasts \cup {NoBroadcast} /\ yt \in YouTubeSession
      /\ choice \in [serial : 0 .. serial, generation : Nat, candidates : SUBSET Broadcasts]
      /\ life \in [Broadcasts -> Lives] /\ autoStart \subseteq AutoStarting
  BY DEF StartInv, Types, TypeOK
<1>1. polls' = polls \ {p} /\ UNCHANGED <<serial, phase, broadcastId, choice, boundStream, life, autoStart>>
  BY DEF PollTimer, youTubeVars
<1>2. /\ yt' \in YouTubeSession /\ platform' \in Pending \cup Settled
      /\ \A n \in requests' : n \in requests \/ Sound(n)
  <2>1. CASE phase \in Running
    BY <2>1, TimersKeep
  <2>2. CASE phase \notin Running
    BY <1>0, <2>2 DEF PollTimer, PollIsCurrent
  <2> QED BY <2>1, <2>2
<1>3. Types'
  BY <1>0, <1>1, <1>2, TypesKeep
<1> QED BY <1>1, <1>3, TimersKeep

LEMMA PassiveSteps ==
  ASSUME StartInv,
         \/ SignalWaitExpires \/ AutoStartWaitExpires \/ TokenExpires
         \/ \E b \in Broadcasts : BroadcastAdvances(b) \/ AutoStartTurnedOff(b)
         \/ UNCHANGED vars
  PROVE  Types' /\ (phase' \in Running => Procedure')
<1>0. /\ Types /\ TypeOK /\ serial \in Nat /\ serial <= MaxSerial /\ phase \in Phases
      /\ platform \in Pending \cup Settled /\ broadcastId \in Broadcasts \cup {NoBroadcast} /\ yt \in YouTubeSession
      /\ choice \in [serial : 0 .. serial, generation : Nat, candidates : SUBSET Broadcasts]
      /\ life \in [Broadcasts -> Lives] /\ autoStart \subseteq AutoStarting
  BY DEF StartInv, Types, TypeOK
<1>1. /\ yt' \in YouTubeSession
      /\ yt'.operationGeneration = yt.operationGeneration /\ yt'.pollGeneration = yt.pollGeneration
      /\ yt'.operationInFlight = yt.operationInFlight
      /\ UNCHANGED <<serial, phase, platform, broadcastId, requests, polls, choice, boundStream>>
      /\ life' \in [Broadcasts -> Lives] /\ autoStart' \subseteq AutoStarting
  <2>1. CASE SignalWaitExpires \/ AutoStartWaitExpires \/ TokenExpires
    BY <1>0, <2>1, TimePasses
  <2>2. ASSUME NEW b \in Broadcasts, BroadcastAdvances(b)
        PROVE  UNCHANGED <<managerVars, boundStream, autoStart>> /\ life' \in [Broadcasts -> Lives]
    <3>1. PICK stage \in Stages : life' = [life EXCEPT ![b] = stage[2]]
      BY <2>2 DEF BroadcastAdvances
    <3>2. stage[2] \in Lives
      BY <3>1 DEF Stages, Lives
    <3> QED BY <1>0, <2>2, <3>1, <3>2 DEF BroadcastAdvances
  <2>3. ASSUME NEW b \in Broadcasts, AutoStartTurnedOff(b)
        PROVE  UNCHANGED <<managerVars, boundStream, life>> /\ autoStart' \subseteq AutoStarting
    BY <1>0, <2>3 DEF AutoStartTurnedOff
  <2>4. CASE UNCHANGED vars
    BY <1>0, <2>4 DEF vars, managerVars, youTubeVars
  <2> QED BY <1>0, <2>1, <2>2, <2>3, <2>4 DEF managerVars
<1>2. Types'
  BY <1>0, <1>1, TypesKeep
<1>3. phase' \in Running => Procedure'
  BY <1>1, WaitingKeeps
<1> QED BY <1>2, <1>3
LEMMA StepsKeep ==
  ASSUME StartInv, [Next]_vars
  PROVE  StartInv'
<1>1. CASE SessionStep
  BY <1>1, SessionSteps DEF StartInv
<1>2. CASE Answer
  BY <1>2, AnswerSteps DEF StartInv, Answer
<1>3. CASE SomeReply
  BY <1>3, ReplySteps DEF StartInv, SomeReply
<1>4. CASE SomePoll
  BY <1>4, TimerSteps DEF StartInv, SomePoll
<1>5. CASE \/ SignalWaitExpires \/ AutoStartWaitExpires \/ TokenExpires
           \/ \E b \in Broadcasts : BroadcastAdvances(b) \/ AutoStartTurnedOff(b)
           \/ UNCHANGED vars
  BY <1>5, PassiveSteps DEF StartInv
<1> QED BY <1>1, <1>2, <1>3, <1>4, <1>5 DEF Next

LEMMA StartsInInv ==
  ASSUME Init
  PROVE  StartInv
<1>1. /\ serial = 0 /\ phase = "idle" /\ platform = "Unknown" /\ broadcastId = NoBroadcast
      /\ yt = FreshSession /\ requests = {} /\ polls = {} /\ choice = NoChoice
      /\ boundStream \in Bindings /\ autoStart \subseteq AutoStarting
  BY DEF Init
<1>2. life \in [Broadcasts -> Lives]
  BY DEF Init, Lives
<1>3. 0 \in Nat /\ 0 <= MaxSerial
  BY YouTubeAssumption
<1>4. choice \in [serial : 0 .. serial, generation : Nat, candidates : SUBSET Broadcasts]
  BY <1>1, <1>3, NoChoiceIs
<1>5. TypeOK
  BY <1>1, <1>2, <1>3, <1>4, FreshIsSession, StatusesAre DEF TypeOK
<1>6. "idle" \notin Running
  BY StatusesAre
<1> QED BY <1>1, <1>5, <1>6 DEF StartInv, Types

\* The procedure's invariant holds in every behaviour.
THEOREM StartInvariance == Spec => []StartInv
<1>1. Init => StartInv
  BY StartsInInv
<1>2. StartInv /\ [Next]_vars => StartInv'
  BY StepsKeep
<1> QED BY <1>1, <1>2, PTL DEF Spec

\* Every request, timer, question and list keeps its type; none is of a session
\* that has not begun.
THEOREM TypeCorrect == Spec => []TypeOK
<1>1. StartInv => TypeOK
  BY DEF StartInv, Types
<1> QED BY <1>1, StartInvariance, PTL

\* At most one request or timer can move a session on, with any number of
\* reconnects, answers, retries and replies left over.
THEOREM StartHasOneThread == Spec => []OneStepAtATime
<1>1. StartInv => OneStepAtATime
  <2>1. SUFFICES ASSUME StartInv
                 PROVE  OneStepAtATime
    OBVIOUS
  <2>2. CurrentRequests = {} \/ \E m : CurrentRequests = {m}
    <3>1. CASE phase \notin Running
      BY <3>1 DEF CurrentRequests, Current
    <3>2. CASE phase \in Running
      BY <2>1, <3>2, CurrentIs DEF StartInv, Procedure, OneProcedure
    <3> QED BY <3>1, <3>2
  <2>3. CurrentPolls = {} \/ \E p : CurrentPolls = {p}
    <3>1. CASE phase \notin Running
      BY <3>1 DEF CurrentPolls, PollIsCurrent
    <3>2. CASE phase \in Running
      BY <2>1, <3>2, CurrentIs DEF StartInv, Procedure, OneProcedure
    <3> QED BY <3>1, <3>2
  <2>4. CurrentRequests = {} \/ CurrentPolls = {}
    <3>1. CASE yt.operationInFlight
      BY <3>1 DEF CurrentPolls, PollIsCurrent
    <3>2. CASE ~yt.operationInFlight
      BY <3>2 DEF CurrentRequests, Current
    <3> QED BY <3>1, <3>2
  <2>5. Cardinality(CurrentRequests) \in {0, 1} /\ Cardinality(CurrentPolls) \in {0, 1}
    BY <2>2, <2>3, FS_EmptySet, FS_Singleton
  <2>6. Cardinality(CurrentRequests) = 0 \/ Cardinality(CurrentPolls) = 0
    BY <2>4, FS_EmptySet
  <2> QED BY <2>5, <2>6 DEF OneStepAtATime
<1> QED BY <1>1, StartInvariance, PTL

\* No status promises more than a request or a timer is going to bring.
THEOREM StartIsNeverForgotten == Spec => []NothingIsForgotten
<1>1. StartInv => NothingIsForgotten
  <2>1. SUFFICES ASSUME StartInv, phase \in Running
                 PROVE  NothingIsForgotten
    BY DEF NothingIsForgotten, Running
  <2>2. Procedure
    BY <2>1 DEF StartInv
  <2>3. yt.operationInFlight => CurrentRequests # {}
    BY <2>1, <2>2, CurrentIs DEF Procedure, OneProcedure
  <2>4. phase = "sending" /\ platform \in Pending => CurrentRequests \cup CurrentPolls # {}
    <3>1. CASE yt.operationInFlight
      BY <2>3, <3>1
    <3>2. CASE ~yt.operationInFlight
      BY <2>1, <2>2, <3>2, CurrentIs DEF Procedure, PendingIsBacked, Idle
    <3> QED BY <3>1, <3>2
  <2> QED BY <2>3, <2>4 DEF NothingIsForgotten
<1> QED BY <1>1, StartInvariance, PTL

\* Only the broadcast the target streams to is ever tested or taken live.
THEOREM OnlyOursIsTakenLive == Spec => []TransitionsOurBroadcast
<1>1. StartInv => TransitionsOurBroadcast
  <2>1. SUFFICES ASSUME StartInv, NEW m \in CurrentRequests
                 PROVE  m.kind \in Transitions => m.id = broadcastId /\ (Keyed => boundStream[m.id] \in OurStreams)
    BY DEF TransitionsOurBroadcast
  <2>2. phase \in Running /\ m \in Own
    BY DEF CurrentRequests, Current, Own
  <2> QED BY <2>1, <2>2 DEF StartInv, Procedure, OursIsTaken
<1> QED BY <1>1, StartInvariance, PTL

\* No reply, timer, reconnect or answer takes a target that is live back.
THEOREM LiveStays == Spec => LiveIsKept
<1>1. ASSUME StartInv, [Next]_vars, platform = "Live"
      PROVE  platform' = "Live" \/ phase' \in {"closing", "idle"} \/ serial' # serial
  <2>1. CASE SessionStep
    <3>1. CASE OutputStarts
      BY <1>1, <3>1 DEF OutputStarts, StartInv, Types, TypeOK
    <3>2. CASE OutputConnects
      <4>1. phase = "starting" /\ phase \in Running /\ Procedure
        BY <1>1, <3>2 DEF OutputConnects, StartInv, Running
      <4> QED BY <1>1, <4>1 DEF Procedure, StartingIsFresh
    <3>3. CASE OutputReconnected
      <4>1. MaybeStart([yt EXCEPT !.signalActive = "recent"], "Live", 0)
        BY <1>1, <3>3 DEF OutputReconnected
      <4> QED BY <4>1 DEF MaybeStart, NothingToStart
    <3>4. CASE OutputReconnects \/ StopRequested \/ OutputStopped \/ SessionReleased \/ ProfileReloaded
      BY <1>1, <3>4 DEF OutputReconnects, StopRequested, OutputStopped, SessionReleased, ProfileReloaded
    <3> QED BY <2>1, <3>1, <3>2, <3>3, <3>4 DEF SessionStep
  <2>2. CASE Answer
    <3>1. PICK id : ApplySelection(id)
      BY <2>2 DEF Answer
    <3>2. Procedure
      BY <1>1, <3>1 DEF ApplySelection, StartInv
    <3> QED BY <1>1, <3>1, <3>2 DEF ApplySelection, Procedure, QuestionIsOpen
  <2>3. CASE SomeReply
    <3>1. PICK m \in requests : Reply(m)
      BY <2>3 DEF SomeReply
    <3>2. ~Current(m)
      BY <1>1 DEF Current, StartInv, Procedure, LiveIsLast, Idle
    <3> QED BY <1>1, <3>1, <3>2 DEF Reply, StaleReply
  <2>4. CASE SomePoll
    <3>1. PICK p \in polls : PollTimer(p)
      BY <2>4 DEF SomePoll
    <3>2. CASE phase \in Running
      BY <1>1, <3>1, <3>2, TimersKeep
    <3>3. CASE phase \notin Running
      BY <1>1, <3>1, <3>3 DEF PollTimer, PollIsCurrent
    <3> QED BY <3>2, <3>3
  <2>5. CASE SignalWaitExpires \/ AutoStartWaitExpires \/ TokenExpires
    BY <1>1, <2>5 DEF SignalWaitExpires, AutoStartWaitExpires, TokenExpires
  <2>6. CASE (\E b \in Broadcasts : BroadcastAdvances(b) \/ AutoStartTurnedOff(b)) \/ UNCHANGED vars
    BY <1>1, <2>6 DEF BroadcastAdvances, AutoStartTurnedOff, vars, managerVars
  <2> QED BY <1>1, <2>1, <2>2, <2>3, <2>4, <2>5, <2>6 DEF Next
<1> QED BY <1>1, StartInvariance, PTL DEF Spec, LiveIsKept

\* While its output runs a target moves to another broadcast only by an answer
\* of the user.
THEOREM OnlyAnswersSwitch == Spec => SwitchedOnlyByAnswer
<1>1. ASSUME StartInv, [Next]_vars, broadcastId # NoBroadcast, broadcastId' # broadcastId
      PROVE  \/ choice.candidates # {} /\ choice' = NoChoice /\ broadcastId' \in choice.candidates
             \/ broadcastId' = NoBroadcast /\ (phase' \in {"closing", "idle"} \/ serial' # serial)
  <2>1. CASE SessionStep
    BY <1>1, <2>1 DEF SessionStep, OutputStarts, OutputConnects, OutputReconnects, OutputReconnected,
       StopRequested, OutputStopped, SessionReleased, ProfileReloaded, StartInv, Types, TypeOK
  <2>2. CASE Answer
    BY <2>2 DEF Answer, ApplySelection
  <2>3. CASE SomeReply
    <3>1. PICK m \in requests : Reply(m)
      BY <2>3 DEF SomeReply
    <3>2. CASE Current(m)
      BY <1>1, <3>1, <3>2, ReplyIs DEF StartInv
    <3>3. CASE StaleReply(m)
      BY <1>1, <3>3 DEF StaleReply
    <3> QED BY <3>1, <3>2, <3>3 DEF Reply
  <2>4. CASE SomePoll
    BY <1>1, <2>4 DEF SomePoll, PollTimer
  <2>5. CASE SignalWaitExpires \/ AutoStartWaitExpires \/ TokenExpires
    BY <1>1, <2>5 DEF SignalWaitExpires, AutoStartWaitExpires, TokenExpires
  <2>6. CASE (\E b \in Broadcasts : BroadcastAdvances(b) \/ AutoStartTurnedOff(b)) \/ UNCHANGED vars
    BY <1>1, <2>6 DEF BroadcastAdvances, AutoStartTurnedOff, vars, managerVars
  <2> QED BY <1>1, <2>1, <2>2, <2>3, <2>4, <2>5, <2>6 DEF Next
<1> QED BY <1>1, StartInvariance, PTL DEF Spec, SwitchedOnlyByAnswer

=============================================================================
