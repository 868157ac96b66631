-------------------------- MODULE TargetLoginProofs --------------------------
(***************************************************************************)
(* Proofs about logging in from the target dialog (TargetLogin) and the    *)
(* HTTP client below it (HttpClient), for every number of requests, of     *)
(* worker threads, of logins and of connections, and every set of login    *)
(* modes.                                                                  *)
(*                                                                         *)
(* The argument is about where a request is.  It waits for a worker, is at *)
(* a worker, is about to be posted or has been posted, and is in one of    *)
(* these places only once; and everything that is in one of them is either *)
(* wanted (pending) or marked as cancelled, which is where the GUI thread  *)
(* and the workers agree.  A login that ends leaves nothing that is        *)
(* wanted, so what is wanted is of the login that is running, or was asked *)
(* for a browser that came without a state while none ran (login 0).       *)
(***************************************************************************)
EXTENDS TargetLogin, SequenceTheorems, TLAPS

Distinct(s) == \A i, j \in DOMAIN s : s[i] = s[j] => i = j

\* A request is in one place, once.
EachOnce ==
  /\ Distinct(waiting) /\ Distinct(posted)
  /\ working \cap posting = {}
  /\ Elements(waiting) \cap (working \cup posting) = {}
  /\ Elements(posted) \cap (working \cup posting \cup Elements(waiting)) = {}

\* A request that is somewhere is wanted or cancelled, one of them.
Accounted == InFlight = pending \cup cancelled /\ pending \cap cancelled = {}

\* Nothing of the client outlives the dialog; a login is of a mode that is
\* selected, and what is asked for it is of that mode; a browser's connection and a
\* request have a mode behind them.
LoginSound ==
  /\ shuttingDown = (dialog = "closing")
  /\ dialog = "closed" => InFlight = {}
  /\ ~Open => login = NoLogin /\ pending = {}
  /\ sockets > 0 => login.mode \in LoginModes
  /\ \A r \in pending : call[r].mode \in LoginModes /\ (call[r].login # 0 => call[r].mode = login.mode)
  /\ login.running =>
       login.mode \in LoginModes /\ login.state \in 1 .. logins /\ login.mode = editor.mode

HttpSound == HttpTypeOK /\ EachOnce /\ Accounted

LoginInv == TypeOK /\ EachOnce /\ Accounted /\ LoginSound /\ LoginIsWhole

-----------------------------------------------------------------------------
(* Queues *)

\* What a queue holds when a request is put at its end.
LEMMA QueueAppend ==
  ASSUME NEW S, NEW s \in Seq(S), NEW e \in S
  PROVE  /\ Append(s, e) \in Seq(S)
         /\ Elements(Append(s, e)) = Elements(s) \cup {e}
         /\ Distinct(s) /\ e \notin Elements(s) => Distinct(Append(s, e))
<1> DEFINE t == Append(s, e)
<1>1. /\ t \in Seq(S) /\ Len(t) = Len(s) + 1
      /\ \A i \in 1 .. Len(s) : t[i] = s[i]
      /\ t[Len(s) + 1] = e
  BY AppendProperties
<1>2. /\ DOMAIN s = 1 .. Len(s) /\ Len(s) \in Nat
      /\ DOMAIN t = 1 .. Len(s) + 1
  BY <1>1
<1>3. DOMAIN t = DOMAIN s \cup {Len(s) + 1}
  BY <1>2
<1> HIDE DEF t
<1>4. Elements(t) = Elements(s) \cup {e}
  BY <1>1, <1>2, <1>3 DEF Elements
<1>5. ASSUME Distinct(s), e \notin Elements(s)
      PROVE  Distinct(t)
  <2>1. \A i \in 1 .. Len(s) : s[i] # e
    BY <1>2, <1>5 DEF Elements
  <2> QED BY <2>1, <1>1, <1>2, <1>3, <1>5 DEF Distinct
<1> QED BY <1>1, <1>4, <1>5 DEF t

\* What it holds when the first is taken from it.
LEMMA QueueTail ==
  ASSUME NEW S, NEW s \in Seq(S), s # <<>>, Distinct(s)
  PROVE  /\ Head(s) \in S /\ Head(s) \in Elements(s)
         /\ Tail(s) \in Seq(S)
         /\ Elements(Tail(s)) = Elements(s) \ {Head(s)}
         /\ Distinct(Tail(s))
<1> DEFINE t == Tail(s)
           h == Head(s)
<1>1. /\ h \in S /\ t \in Seq(S) /\ Len(t) = Len(s) - 1
      /\ \A i \in 1 .. Len(t) : t[i] = s[i + 1]
  BY HeadTailProperties
<1>2. Len(s) \in Nat /\ Len(s) # 0 /\ h = s[1] /\ DOMAIN s = 1 .. Len(s)
  OBVIOUS
<1>3. DOMAIN t = 1 .. Len(s) - 1
  BY <1>1, <1>2
<1> HIDE DEF t, h
<1>4. h \in Elements(s)
  BY <1>2 DEF Elements
<1>5. Elements(t) = Elements(s) \ {h}
  <2>1. ASSUME NEW x \in Elements(t) PROVE x \in Elements(s) \ {h}
    <3>1. PICK i \in 1 .. Len(s) - 1 : x = s[i + 1]
      BY <2>1, <1>1, <1>2, <1>3 DEF Elements
    <3>2. i + 1 \in DOMAIN s /\ 1 \in DOMAIN s /\ i + 1 # 1
      BY <3>1, <1>2
    <3> QED BY <3>1, <3>2, <1>2 DEF Elements, Distinct
  <2>2. ASSUME NEW x \in Elements(s) \ {h} PROVE x \in Elements(t)
    <3>1. PICK i \in 1 .. Len(s) : x = s[i] /\ i # 1
      BY <2>2, <1>2 DEF Elements
    <3>2. i - 1 \in 1 .. Len(s) - 1 /\ (i - 1) + 1 = i
      BY <3>1, <1>2
    <3> QED BY <3>1, <3>2, <1>1, <1>2, <1>3 DEF Elements
  <2> QED BY <2>1, <2>2
<1>6. Distinct(t)
  <2> SUFFICES ASSUME NEW i \in DOMAIN t, NEW j \in DOMAIN t, t[i] = t[j]
               PROVE  i = j
    BY DEF Distinct
  <2>1. i + 1 \in DOMAIN s /\ j + 1 \in DOMAIN s /\ s[i + 1] = s[j + 1]
    BY <1>1, <1>2, <1>3
  <2> QED BY <2>1, <1>2, <1>3 DEF Distinct
<1> QED BY <1>1, <1>4, <1>5, <1>6 DEF t, h

LEMMA QueueEmpty == Elements(<<>>) = {} /\ Distinct(<<>>) /\ \A S : <<>> \in Seq(S)
<1>1. Elements(<<>>) = {} /\ Distinct(<<>>)
  BY DEF Elements, Distinct
<1>2. \A S : <<>> \in Seq(S)
  OBVIOUS
<1> QED BY <1>1, <1>2

-----------------------------------------------------------------------------
(* The HTTP client *)

LEMMA HttpStarts == HttpInit => HttpSound /\ InFlight = {}
<1> SUFFICES ASSUME HttpInit PROVE HttpSound /\ InFlight = {}
  OBVIOUS
<1>1. InFlight = {}
  BY QueueEmpty DEF HttpInit, InFlight
<1>2. HttpTypeOK
  BY QueueEmpty DEF HttpInit, HttpTypeOK
<1>3. EachOnce
  <2>1. Elements(waiting) = {} /\ Elements(posted) = {} /\ Distinct(waiting) /\ Distinct(posted)
    BY QueueEmpty DEF HttpInit
  <2> QED BY <2>1 DEF HttpInit, EachOnce
<1>4. Accounted
  BY <1>1 DEF HttpInit, Accounted
<1> QED BY <1>1, <1>2, <1>3, <1>4 DEF HttpSound

LEMMA HttpStutters ==
  HttpSound /\ UNCHANGED http => HttpSound' /\ InFlight' = InFlight
BY DEF http, HttpSound, HttpTypeOK, EachOnce, Accounted, InFlight, Elements, Distinct

\* abortAll leaves every request where it is, and none that is wanted.
LEMMA AbortedIsSound ==
  ASSUME HttpSound, AbortAll(pending), UNCHANGED <<working, posting, posted>>,
         shuttingDown' \in BOOLEAN
  PROVE  HttpSound' /\ InFlight' = InFlight
<1>1. InFlight' = InFlight
  BY DEF AbortAll, InFlight, Elements
<1>2. HttpTypeOK' /\ EachOnce'
  BY DEF HttpSound, HttpTypeOK, EachOnce, AbortAll, Elements, Distinct
<1>3. Accounted'
  BY <1>1 DEF HttpSound, Accounted, AbortAll
<1> QED BY <1>1, <1>2, <1>3 DEF HttpSound

\* A request that is nowhere is sent.
LEMMA SentIsSound ==
  ASSUME HttpSound, NEW q \in Calls \ InFlight, Send(q, pending),
         UNCHANGED <<working, posting, posted, shuttingDown>>
  PROVE  HttpSound' /\ pending' = pending \cup {q}
<1>1. /\ waiting' \in Seq(Calls)
      /\ Elements(waiting') = Elements(waiting) \cup {q}
      /\ Distinct(waiting')
  <2>1. q \notin Elements(waiting)
    BY DEF InFlight
  <2> QED BY <2>1, QueueAppend DEF HttpSound, HttpTypeOK, EachOnce, Send
<1>2. Elements(posted') = Elements(posted) /\ Distinct(posted')
  BY DEF HttpSound, EachOnce
<1>3. Elements(waiting)' = Elements(waiting) \cup {q} /\ Elements(posted)' = Elements(posted)
  BY <1>1, <1>2 DEF Elements
<1>4. HttpTypeOK'
  BY <1>1 DEF HttpSound, HttpTypeOK, Send
<1>5. EachOnce'
  BY <1>1, <1>2, <1>3 DEF HttpSound, EachOnce, InFlight
<1>6. Accounted'
  BY <1>3 DEF HttpSound, Accounted, InFlight, Send
<1> QED BY <1>4, <1>5, <1>6 DEF HttpSound, Send

\* What is where when a posted callback has been taken up.
LEMMA TakenUp ==
  ASSUME HttpSound, NEW r \in Calls, Take(r)
  PROVE  /\ posted' \in Seq(Calls) /\ Distinct(posted')
         /\ r \in InFlight
         /\ Elements(posted)' = Elements(posted) \ {r}
         /\ r \in Elements(posted)
         /\ r \notin working \cup posting \cup Elements(waiting)
<1>1. posted # <<>> /\ r = Head(posted) /\ posted' = Tail(posted)
  BY DEF Take
<1>2. posted \in Seq(Calls) /\ Distinct(posted)
  BY DEF HttpSound, HttpTypeOK, EachOnce
<1>3. /\ r \in Elements(posted)
      /\ posted' \in Seq(Calls)
      /\ Elements(posted') = Elements(posted) \ {r}
      /\ Distinct(posted')
  BY <1>1, <1>2, QueueTail
<1> QED BY <1>3 DEF HttpSound, EachOnce, InFlight, Elements

\* It was not wanted.
LEMMA UnwantedIsSound ==
  ASSUME HttpSound, NEW r \in Calls, Take(r),
         pending' = pending \ {r}, cancelled' = cancelled \ {r},
         UNCHANGED <<waiting, working, posting, shuttingDown>>
  PROVE  HttpSound'
<1>1. /\ posted' \in Seq(Calls) /\ Distinct(posted')
      /\ Elements(posted)' = Elements(posted) \ {r}
      /\ r \in Elements(posted) /\ r \notin working \cup posting \cup Elements(waiting)
  BY TakenUp
<1>2. Elements(waiting)' = Elements(waiting) /\ Distinct(waiting')
  BY DEF HttpSound, EachOnce, Elements
<1>3. HttpTypeOK'
  BY <1>1 DEF HttpSound, HttpTypeOK
<1>4. EachOnce'
  BY <1>1, <1>2 DEF HttpSound, EachOnce
<1>5. Accounted'
  BY <1>1, <1>2 DEF HttpSound, Accounted, InFlight
<1> QED BY <1>3, <1>4, <1>5 DEF HttpSound

\* It was wanted, and its owner has aborted whatever else there is.
LEMMA AnsweredIsSound ==
  ASSUME HttpSound, NEW r \in Calls, Take(r), r \in pending, AbortAll(pending \ {r}),
         UNCHANGED <<working, posting, shuttingDown>>
  PROVE  HttpSound'
<1>1. /\ posted' \in Seq(Calls) /\ Distinct(posted')
      /\ Elements(posted)' = Elements(posted) \ {r}
      /\ r \in Elements(posted) /\ r \notin working \cup posting \cup Elements(waiting)
  BY TakenUp
<1>2. Elements(waiting)' = Elements(waiting) /\ Distinct(waiting')
  BY DEF HttpSound, EachOnce, Elements, AbortAll
<1>3. HttpTypeOK'
  BY <1>1 DEF HttpSound, HttpTypeOK, AbortAll
<1>4. EachOnce'
  BY <1>1, <1>2 DEF HttpSound, EachOnce
<1>5. Accounted'
  BY <1>1, <1>2 DEF HttpSound, Accounted, InFlight, AbortAll
<1> QED BY <1>3, <1>4, <1>5 DEF HttpSound

\* It was wanted, and its owner has sent the next, which may have its number.
LEMMA FollowedUpIsSound ==
  ASSUME HttpSound, NEW r \in Calls, Take(r), r \in pending,
         NEW q \in (Calls \ InFlight) \cup {r}, Send(q, pending \ {r}),
         UNCHANGED <<working, posting, shuttingDown>>
  PROVE  HttpSound'
<1>1. /\ posted' \in Seq(Calls) /\ Distinct(posted')
      /\ Elements(posted)' = Elements(posted) \ {r}
      /\ r \in Elements(posted) /\ r \notin working \cup posting \cup Elements(waiting)
  BY TakenUp
<1>2. q \in Calls /\ q \notin Elements(waiting) \cup working \cup posting
  BY <1>1 DEF InFlight
<1>3. /\ waiting' \in Seq(Calls) /\ Distinct(waiting')
      /\ Elements(waiting') = Elements(waiting) \cup {q}
  BY <1>2, QueueAppend DEF HttpSound, HttpTypeOK, EachOnce, Send
<1>4. Elements(waiting)' = Elements(waiting) \cup {q}
  BY <1>3 DEF Elements
<1>5. HttpTypeOK'
  BY <1>1, <1>2, <1>3 DEF HttpSound, HttpTypeOK, Send
<1>6. EachOnce'
  BY <1>1, <1>2, <1>3, <1>4 DEF HttpSound, EachOnce, InFlight
<1>7. Accounted'
  BY <1>1, <1>2, <1>4 DEF HttpSound, Accounted, InFlight, Send
<1> QED BY <1>5, <1>6, <1>7 DEF HttpSound

\* A worker's steps
LEMMA WorkIsSound ==
  ASSUME HttpSound, Work
  PROVE  HttpSound' /\ (~shuttingDown => pending' = pending) /\ pending' \subseteq pending
         /\ UNCHANGED shuttingDown /\ InFlight' \subseteq InFlight
<1>1. CASE StartWork
  <2>1. /\ Head(waiting) \in Calls /\ Head(waiting) \in Elements(waiting)
        /\ waiting' \in Seq(Calls)
        /\ Elements(waiting') = Elements(waiting) \ {Head(waiting)}
        /\ Distinct(waiting')
    BY <1>1, QueueTail DEF StartWork, HttpSound, HttpTypeOK, EachOnce
  <2>2. /\ Elements(waiting)' = Elements(waiting) \ {Head(waiting)}
        /\ Elements(posted)' = Elements(posted) /\ Distinct(posted')
    BY <1>1, <2>1 DEF StartWork, Elements, HttpSound, EachOnce
  <2>3. /\ working' = working \cup {Head(waiting)}
        /\ UNCHANGED <<posting, posted, pending, cancelled, shuttingDown>>
    BY <1>1 DEF StartWork
  <2>4. HttpTypeOK'
    BY <2>1, <2>3 DEF HttpSound, HttpTypeOK
  <2>5. EachOnce'
    BY <2>1, <2>2, <2>3 DEF HttpSound, EachOnce
  <2>6. InFlight' = InFlight
    BY <2>1, <2>2, <2>3 DEF InFlight
  <2>7. Accounted'
    BY <2>3, <2>6 DEF HttpSound, Accounted
  <2> QED BY <2>3, <2>4, <2>5, <2>6, <2>7 DEF HttpSound
<1>2. ASSUME NEW r \in Calls, PerformRequest(r)
      PROVE  HttpSound' /\ (~shuttingDown => pending' = pending) /\ pending' \subseteq pending
             /\ UNCHANGED shuttingDown /\ InFlight' \subseteq InFlight
  <2>1. /\ Elements(waiting)' = Elements(waiting) /\ Distinct(waiting')
        /\ Elements(posted)' = Elements(posted) /\ Distinct(posted')
    BY <1>2 DEF PerformRequest, Elements, HttpSound, EachOnce
  <2>2. HttpTypeOK'
    BY <1>2 DEF PerformRequest, HttpSound, HttpTypeOK
  <2>3. EachOnce'
    BY <1>2, <2>1 DEF PerformRequest, HttpSound, EachOnce
  <2>4. Accounted' /\ InFlight' \subseteq InFlight
    <3>1. CASE Wanted(r)
      BY <1>2, <2>1, <3>1 DEF PerformRequest, HttpSound, Accounted, InFlight
    <3>2. CASE ~Wanted(r)
      <4>1. r \in working /\ r \notin posting \cup Elements(waiting) \cup Elements(posted)
        BY <1>2 DEF PerformRequest, HttpSound, EachOnce
      <4> QED BY <1>2, <2>1, <3>2, <4>1 DEF PerformRequest, HttpSound, Accounted, InFlight
    <3> QED BY <3>1, <3>2
  <2>5. ~shuttingDown => pending' = pending
    <3>1. ASSUME ~Wanted(r), ~shuttingDown PROVE r \notin pending
      BY <3>1 DEF Wanted, HttpSound, Accounted
    <3> QED BY <1>2, <3>1 DEF PerformRequest
  <2>6. pending' \subseteq pending /\ UNCHANGED shuttingDown
    BY <1>2 DEF PerformRequest
  <2> QED BY <2>2, <2>3, <2>4, <2>5, <2>6 DEF HttpSound
<1>3. ASSUME NEW r \in Calls, Post(r)
      PROVE  HttpSound' /\ (~shuttingDown => pending' = pending) /\ pending' \subseteq pending
             /\ UNCHANGED shuttingDown /\ InFlight' \subseteq InFlight
  <2>1. /\ r \in posting /\ posting' = posting \ {r}
        /\ UNCHANGED <<waiting, working, pending, cancelled, shuttingDown>>
    BY <1>3 DEF Post
  <2>2. /\ posted' \in Seq(Calls) /\ Distinct(posted')
        /\ Elements(posted') = Elements(posted) \cup {r}
    BY <1>3, QueueAppend DEF Post, HttpSound, HttpTypeOK, EachOnce
  <2>3. /\ Elements(waiting)' = Elements(waiting) /\ Distinct(waiting')
        /\ Elements(posted)' = Elements(posted) \cup {r}
    BY <2>1, <2>2 DEF Elements, HttpSound, EachOnce
  <2>4. HttpTypeOK'
    BY <2>1, <2>2 DEF HttpSound, HttpTypeOK
  <2>5. EachOnce'
    BY <2>1, <2>2, <2>3 DEF HttpSound, EachOnce
  <2>6. InFlight' = InFlight
    BY <2>1, <2>3 DEF InFlight
  <2>7. Accounted'
    BY <2>1, <2>6 DEF HttpSound, Accounted
  <2> QED BY <2>1, <2>4, <2>5, <2>6, <2>7 DEF HttpSound
<1> QED BY <1>1, <1>2, <1>3 DEF Work

\* The client is destroyed when no worker is at anything: nothing is left.
LEMMA DestroyedIsSound ==
  ASSUME HttpSound, pending = {}, Destroyed
  PROVE  HttpSound' /\ InFlight' = {} /\ pending' = {} /\ shuttingDown' = FALSE
<1>1. /\ waiting' = <<>> /\ posted' = <<>> /\ working' = {} /\ posting' = {}
      /\ cancelled' = {} /\ pending' = {} /\ shuttingDown' = FALSE
  BY DEF Destroyed
<1>2. /\ Elements(waiting)' = {} /\ Elements(posted)' = {}
      /\ Distinct(waiting') /\ Distinct(posted')
  BY <1>1, QueueEmpty DEF Elements
<1>3. InFlight' = {}
  BY <1>1, <1>2 DEF InFlight
<1>4. HttpTypeOK'
  BY <1>1, QueueEmpty DEF HttpTypeOK
<1>5. EachOnce'
  BY <1>1, <1>2 DEF EachOnce
<1>6. Accounted'
  BY <1>1, <1>3 DEF Accounted
<1> QED BY <1>1, <1>3, <1>4, <1>5, <1>6 DEF HttpSound

-----------------------------------------------------------------------------
(* The dialog and its connector *)

\* What the dialog makes of the end of a login
LEMMA FinishedEditor ==
  ASSUME editor \in Editors, NEW mode \in LoginModes \cup {None}, NEW c, NEW running \in BOOLEAN,
         c # None => c \in Requests /\ c.mode \in LoginModes,
         HandleFinished(mode, c, running)
  PROVE  /\ editor' \in Editors /\ editor'.mode = editor.mode
         /\ editor'.locked = running
         /\ \/ editor'.account = editor.account
            \/ /\ c # None /\ mode = editor.mode
               /\ editor'.account = [mode |-> c.mode, login |-> c.login]
<1> DEFINE e == [editor EXCEPT !.locked = running]
<1>1. /\ e \in Editors /\ e.mode = editor.mode /\ e.locked = running
      /\ e.account = editor.account
  BY DEF Editors
<1>2. editor' = IF mode = editor.mode /\ c # None THEN WithGrant(e, mode, c) ELSE e
  BY DEF HandleFinished
<1> HIDE DEF e
<1>3. ASSUME c # None
      PROVE  /\ WithGrant(e, mode, c) \in Editors /\ WithGrant(e, mode, c).mode = e.mode
             /\ WithGrant(e, mode, c).locked = e.locked
             /\ WithGrant(e, mode, c).account = [mode |-> c.mode, login |-> c.login]
  <2> DEFINE g == [mode |-> c.mode, login |-> c.login]
             token == IF mode # "youtube" THEN e.token ELSE IF c.step = "token" THEN Secret ELSE None
             key   == IF c.step \in {"key", "channel"} THEN Secret ELSE e.key
  <2>1. g \in Grants
    <3>1. c.mode \in LoginModes /\ c.login \in 0 .. MaxLogins
      BY <1>3 DEF Requests
    <3>2. c.login \in 0 .. Earlier
      BY <3>1, LoginAssumption DEF Earlier
    <3> QED BY <3>1, <3>2 DEF Grants
  <2>2. token \in Secrets
    BY <1>1 DEF Editors, Secrets
  <2>3. key \in Secrets
    BY <1>1 DEF Editors, Secrets
  <2>4. WithGrant(e, mode, c) =
          [e EXCEPT !.account = g, !.connected = mode, !.token = token, !.key = key]
    BY <1>1 DEF Editors, WithGrant
  <2> HIDE DEF g, token, key
  <2>5. /\ WithGrant(e, mode, c) \in Editors /\ WithGrant(e, mode, c).mode = e.mode
        /\ WithGrant(e, mode, c).locked = e.locked /\ WithGrant(e, mode, c).account = g
    BY <1>1, <2>1, <2>2, <2>3, <2>4 DEF Editors
  <2> QED BY <2>5 DEF g
<1> QED BY <1>1, <1>2, <1>3

LEMMA NoLoginOK ==
  ASSUME NEW m \in LoginModes \cup {None}
  PROVE  /\ [NoLogin EXCEPT !.mode = m] \in Logins
         /\ [NoLogin EXCEPT !.mode = m].mode = m /\ [NoLogin EXCEPT !.mode = m].state = 0
         /\ [NoLogin EXCEPT !.mode = m].running = FALSE /\ [NoLogin EXCEPT !.mode = m].timer = FALSE
         /\ [NoLogin EXCEPT !.mode = m].handled = FALSE /\ [NoLogin EXCEPT !.mode = m].listening = FALSE
         /\ NoLogin \in Logins /\ NoLogin.mode = None /\ NoLogin.state = 0
         /\ NoLogin.running = FALSE /\ NoLogin.timer = FALSE
         /\ NoLogin.handled = FALSE /\ NoLogin.listening = FALSE
<1>1. 0 \in 0 .. MaxLogins
  BY LoginAssumption
<1>2. NoLogin \in Logins
  BY <1>1 DEF NoLogin, Logins
<1>3. /\ NoLogin.mode = None /\ NoLogin.state = 0 /\ NoLogin.running = FALSE /\ NoLogin.timer = FALSE
      /\ NoLogin.handled = FALSE /\ NoLogin.listening = FALSE
  BY DEF NoLogin
<1> QED BY <1>2, <1>3 DEF Logins

LEMMA NoCallsOK == NoCalls \in [Calls -> Requests]
<1>1. 0 \in 0 .. MaxLogins
  BY LoginAssumption
<1> QED BY <1>1 DEF NoCalls, NoRequest, Requests

\* What LoginIsWhole says of the state after a step, part by part
LEMMA WholeAfter ==
  ASSUME login'.running = login'.timer,
         login'.running = (login'.state # 0),
         login'.listening = (login'.running /\ ~login'.handled),
         login'.handled => \E r \in pending' : call'[r].login = login'.state,
         \A r \in pending' : call'[r].login \in {0, login'.state},
         Open' => editor'.locked = login'.running
  PROVE  LoginIsWhole'
BY Zenon DEF LoginIsWhole

\* After the step no login runs, nothing is wanted and the controls are free.
LEMMA IdleAfter ==
  ASSUME login'.running = FALSE, login'.timer = FALSE, login'.state = 0, login'.handled = FALSE,
         login'.listening = FALSE, pending' = {}, Open' => editor'.locked = FALSE
  PROVE  LoginIsWhole'
<1>1. login'.running = login'.timer /\ login'.running = (login'.state # 0)
  OBVIOUS
<1>2. login'.listening = (login'.running /\ ~login'.handled)
  OBVIOUS
<1>3. login'.handled => \E r \in pending' : call'[r].login = login'.state
  OBVIOUS
<1>4. \A r \in pending' : call'[r].login \in {0, login'.state}
  OBVIOUS
<1>5. Open' => editor'.locked = login'.running
  OBVIOUS
<1> QED BY <1>1, <1>2, <1>3, <1>4, <1>5, WholeAfter

\* A login that ends, in whatever way, with nothing or with what it yielded
LEMMA FinishIsSound ==
  ASSUME LoginInv, Open, NEW P, P \subseteq pending, NEW c, Finish(P, c),
         c # None => c \in Requests /\ c.mode \in LoginModes,
         HttpSound', shuttingDown' = shuttingDown,
         UNCHANGED <<saved, dialog, logins>>, sockets' \in 0 .. MaxSockets, sockets' > 0 => sockets > 0
  PROVE  LoginInv'
<1>1. /\ editor \in Editors /\ login \in Logins /\ login.mode \in LoginModes \cup {None}
  BY DEF LoginInv, TypeOK, Logins
<1>2. /\ login' = [NoLogin EXCEPT !.mode = login.mode] /\ call' = NoCalls
      /\ AbortAll(P) /\ HandleFinished(login.mode, c, FALSE)
  BY DEF Finish, Reset
<1>3. /\ login' \in Logins /\ login'.mode = login.mode /\ login'.state = 0
      /\ login'.running = FALSE /\ login'.timer = FALSE
      /\ login'.handled = FALSE /\ login'.listening = FALSE
  BY <1>1, <1>2, NoLoginOK
<1>4. editor' \in Editors /\ editor'.locked = FALSE
  BY <1>1, <1>2, FinishedEditor
<1>5. pending' = {}
  BY <1>2 DEF AbortAll
<1>6. TypeOK'
  BY <1>2, <1>3, <1>4, NoCallsOK DEF LoginInv, TypeOK, HttpSound
<1>7. dialog' = "open"
  BY DEF Open
<1>8. LoginSound'
  BY <1>3, <1>5, <1>7 DEF LoginInv, LoginSound, Open
<1>9. LoginIsWhole'
  BY <1>3, <1>4, <1>5, IdleAfter
<1> QED BY <1>6, <1>8, <1>9 DEF LoginInv, HttpSound

\* A request, for the login that is running or for a browser without a state
LEMMA AskedIsSound ==
  ASSUME LoginInv, Open, NEW c \in Requests, c.mode \in LoginModes, c.login \in {0, login.state},
         c.login # 0 => c.mode = login.mode,
         NEW P, P \subseteq pending, NEW free \in SUBSET (Calls \ P), Ask(c, P, free),
         HttpSound', shuttingDown' = shuttingDown, UNCHANGED <<saved, dialog, editor, logins>>,
         login' \in Logins, \A f \in {"running", "mode", "state", "timer"} : login'[f] = login[f],
         login'.listening = (login'.running /\ ~login'.handled),
         login'.handled => c.login = login.state \/ \E r \in P : call[r].login = login.state,
         sockets' \in 0 .. MaxSockets, sockets' > 0 => sockets > 0
  PROVE  LoginInv'
<1>1. PICK r \in free :
        /\ Send(r, P)
        /\ call' = [q \in Calls |-> IF q = r THEN c ELSE IF q \in P THEN call[q] ELSE NoRequest]
  BY DEF Ask
<1>2. /\ login'.running = login.running /\ login'.mode = login.mode
      /\ login'.state = login.state /\ login'.timer = login.timer
  OBVIOUS
<1>3. r \in Calls /\ pending' = P \cup {r} /\ P \subseteq Calls /\ call \in [Calls -> Requests]
  BY <1>1 DEF Send, LoginInv, TypeOK, HttpTypeOK
<1>4. NoRequest \in Requests
  <2>1. 0 \in 0 .. MaxLogins
    BY LoginAssumption
  <2> QED BY <2>1 DEF NoRequest, Requests
<1>5. call' \in [Calls -> Requests]
  <2> SUFFICES ASSUME NEW q \in Calls
               PROVE  (IF q = r THEN c ELSE IF q \in P THEN call[q] ELSE NoRequest) \in Requests
    BY <1>1
  <2> QED BY <1>3, <1>4
<1>6. call'[r] = c /\ \A q \in P \ {r} : call'[q] = call[q]
  BY <1>1, <1>3
<1>7. ASSUME NEW q \in pending'
      PROVE  /\ call'[q].mode \in LoginModes /\ call'[q].login \in {0, login'.state}
             /\ call'[q].login # 0 => call'[q].mode = login'.mode
  <2>1. CASE q = r
    BY <1>2, <1>6, <2>1
  <2>2. CASE q # r
    <3>1. q \in P \ {r} /\ q \in pending
      BY <1>3, <1>7, <2>2
    <3> QED BY <1>2, <1>6, <3>1 DEF LoginInv, LoginSound, LoginIsWhole
  <2> QED BY <2>1, <2>2
<1>8. TypeOK'
  BY <1>5 DEF LoginInv, TypeOK, HttpSound
<1>9. dialog' = "open"
  BY DEF Open
<1>10. LoginSound'
  BY <1>2, <1>7, <1>9 DEF LoginInv, LoginSound, Open
<1>11. LoginIsWhole'
  <2>1. login'.running = login'.timer /\ login'.running = (login'.state # 0)
    BY <1>2 DEF LoginInv, LoginIsWhole
  <2>2. login'.handled => \E q \in pending' : call'[q].login = login'.state
    <3>1. CASE c.login = login.state
      BY <1>2, <1>3, <1>6, <3>1
    <3>2. ASSUME NEW q \in P, call[q].login = login.state PROVE call'[q].login = login'.state /\ q \in pending'
      BY <1>2, <1>3, <1>6, <3>2
    <3> QED BY <3>1, <3>2
  <2>3. Open' => editor'.locked = login'.running
    BY <1>2 DEF LoginInv, LoginIsWhole
  <2> QED BY <1>7, <2>1, <2>2, <2>3, WholeAfter
<1> QED BY <1>8, <1>10, <1>11 DEF LoginInv, HttpSound

-----------------------------------------------------------------------------
(* The steps *)

LEMMA TypesAre ==
  ASSUME LoginInv
  PROVE  /\ HttpSound /\ editor \in Editors /\ login \in Logins /\ saved \in Saved
         /\ call \in [Calls -> Requests] /\ pending \subseteq Calls
         /\ ~Open => login = NoLogin /\ pending = {}
         /\ Open => editor.locked = login.running
         /\ login.mode \in LoginModes \cup {None} /\ login.running \in BOOLEAN
         /\ editor.mode \in Modes
<1>1. /\ HttpSound /\ editor \in Editors /\ login \in Logins /\ saved \in Saved
      /\ call \in [Calls -> Requests] /\ pending \subseteq Calls
  BY DEF LoginInv, HttpSound, TypeOK, HttpTypeOK
<1>2. /\ ~Open => login = NoLogin /\ pending = {}
      /\ Open => editor.locked = login.running
  BY DEF LoginInv, LoginSound, LoginIsWhole
<1>3. login.mode \in LoginModes \cup {None} /\ login.running \in BOOLEAN /\ editor.mode \in Modes
  BY <1>1 DEF Logins, Editors
<1> QED BY <1>1, <1>2, <1>3

LEMMA InitIsSound == Init => LoginInv
<1> SUFFICES ASSUME Init PROVE LoginInv
  OBVIOUS
<1>1. HttpSound /\ InFlight = {}
  BY HttpStarts DEF Init
<1>2. /\ dialog = "closed" /\ editor = NoEditor /\ login = NoLogin /\ sockets = 0 /\ logins = 0
      /\ call = NoCalls /\ saved \in FirstTargets /\ pending = {} /\ shuttingDown = FALSE
  BY DEF Init, HttpInit
<1>3. 0 \in 0 .. MaxLogins /\ 0 \in 0 .. MaxSockets /\ Earlier \in 0 .. Earlier
  BY LoginAssumption DEF Earlier
<1>4. saved \in Saved
  <2>1. CASE saved = [mode |-> Manual, account |-> None, key |-> Secret, token |-> None]
    BY <2>1 DEF Saved, Secrets, Modes
  <2>2. ASSUME NEW m \in LoginModes,
               saved = [mode |-> m, account |-> [mode |-> m, login |-> Earlier], key |-> Secret,
                        token |-> IF m = "youtube" THEN Secret ELSE None]
        PROVE  saved \in Saved
    <3> DEFINE g == [mode |-> m, login |-> Earlier]
    <3>1. g \in Grants
      BY <1>3 DEF Grants
    <3> HIDE DEF g
    <3>2. saved = [mode |-> m, account |-> g, key |-> Secret, token |-> IF m = "youtube" THEN Secret ELSE None]
      BY <2>2 DEF g
    <3> QED BY <3>1, <3>2 DEF Saved, Secrets, Modes
  <2> QED BY <1>2, <2>1, <2>2 DEF FirstTargets
<1>5. NoEditor \in Editors
  BY DEF NoEditor, Editors, Modes, Secrets
<1>6. /\ NoLogin \in Logins /\ NoLogin.state = 0 /\ NoLogin.running = FALSE /\ NoLogin.timer = FALSE
      /\ NoLogin.handled = FALSE /\ NoLogin.listening = FALSE
  BY NoLoginOK
<1>7. TypeOK
  BY <1>1, <1>2, <1>3, <1>4, <1>5, <1>6, NoCallsOK DEF TypeOK, HttpSound
<1>8. LoginSound
  <2>1. ~(sockets > 0) /\ login.running = FALSE
    BY <1>2, <1>6
  <2>2. shuttingDown = FALSE /\ dialog # "closing"
    BY <1>2
  <2> QED BY <1>1, <1>2, <2>1, <2>2 DEF LoginSound
<1>9. LoginIsWhole
  <2>1. login.running = login.timer /\ login.running = (login.state # 0)
    BY <1>2, <1>6
  <2>2. login.listening = (login.running /\ ~login.handled) /\ ~login.handled
    BY <1>2, <1>6
  <2>3. pending = {} /\ ~Open
    BY <1>2 DEF Open
  <2> QED BY <2>1, <2>2, <2>3, Zenon DEF LoginIsWhole
<1> QED BY <1>1, <1>7, <1>8, <1>9 DEF LoginInv, HttpSound

\* Connections of the browser, and what the user does in the dialog, change
\* nothing of the login and of its requests.
LEMMA EditedIsSound ==
  ASSUME LoginInv, UNCHANGED <<http, login, call, logins, dialog, saved>>, sockets' \in 0 .. MaxSockets,
         sockets' > 0 => login.mode \in LoginModes,
         editor' \in Editors, editor'.locked = editor.locked,
         login.running => editor'.mode = editor.mode
  PROVE  LoginInv'
<1>1. HttpSound' /\ InFlight' = InFlight /\ pending' = pending /\ shuttingDown' = shuttingDown
  BY HttpStutters, TypesAre DEF http
<1>2. TypeOK'
  BY <1>1 DEF LoginInv, TypeOK, HttpSound
<1>3. LoginSound'
  BY <1>1 DEF LoginInv, LoginSound, Open
<1>4. LoginIsWhole'
  BY <1>1 DEF LoginInv, LoginIsWhole, Open
<1> QED BY <1>1, <1>2, <1>3, <1>4 DEF LoginInv, HttpSound

\* The dialog is destroyed, whatever is saved.
LEMMA CloseIsSound ==
  ASSUME LoginInv, Open, Close, saved' \in Saved
  PROVE  LoginInv'
<1>1. /\ dialog' = "closing" /\ login' = NoLogin /\ sockets' = 0 /\ editor' = NoEditor
      /\ call' = NoCalls /\ logins' = logins /\ AbortAll(pending) /\ shuttingDown' = TRUE
      /\ UNCHANGED <<working, posting, posted>>
  BY DEF Close, ShutDown
<1>2. HttpSound' /\ pending' = {}
  BY <1>1, AbortedIsSound, TypesAre DEF AbortAll
<1>3. 0 \in 0 .. MaxSockets
  BY LoginAssumption
<1>4. NoEditor \in Editors
  BY DEF NoEditor, Editors, Modes, Secrets
<1>5. /\ login' \in Logins /\ login'.state = 0 /\ login'.running = FALSE /\ login'.timer = FALSE
      /\ login'.handled = FALSE /\ login'.listening = FALSE
  BY <1>1, NoLoginOK
<1>6. TypeOK'
  BY <1>1, <1>2, <1>3, <1>4, <1>5, NoCallsOK DEF LoginInv, TypeOK, HttpSound
<1>7. LoginSound'
  <2>1. ~(sockets' > 0) /\ login'.running = FALSE
    BY <1>1, <1>5
  <2>2. shuttingDown' = TRUE /\ dialog' = "closing" /\ dialog' # "closed"
    BY <1>1
  <2> QED BY <1>1, <1>2, <2>1, <2>2 DEF LoginSound
<1>8. LoginIsWhole'
  <2>1. ~Open'
    BY <1>1 DEF Open
  <2> QED BY <1>2, <1>5, <2>1, IdleAfter
<1> QED BY <1>2, <1>6, <1>7, <1>8 DEF LoginInv, HttpSound

LEMMA FilledOK == LoginInv => Filled \in Saved
<1> SUFFICES ASSUME LoginInv PROVE Filled \in Saved
  OBVIOUS
<1>1. editor \in Editors
  BY TypesAre
<1>2. /\ editor.mode \in Modes /\ editor.account \in Grants \cup {None}
      /\ {editor.key, editor.keyRef, editor.token, editor.tokenRef} \subseteq Secrets /\ None \in Secrets
  BY <1>1 DEF Editors, Secrets
<1> QED BY <1>2 DEF Filled, Saved

LEMMA BeginIsSound ==
  ASSUME LoginInv, Begin
  PROVE  LoginInv'
<1>1. /\ Open /\ editor.locked = FALSE /\ editor.mode # Manual /\ login.running = FALSE
      /\ logins < MaxLogins /\ logins' = logins + 1
      /\ login' = [running |-> TRUE, mode |-> editor.mode, state |-> logins + 1,
                   handled |-> FALSE, listening |-> TRUE, timer |-> TRUE]
      /\ editor' = [editor EXCEPT !.locked = TRUE]
      /\ UNCHANGED <<http, saved, dialog, sockets, call>>
  BY TypesAre DEF Begin, Editors
<1>2. HttpSound' /\ InFlight' = InFlight /\ pending' = pending /\ shuttingDown' = shuttingDown
  BY <1>1, HttpStutters, TypesAre DEF http
<1>3. editor.mode \in LoginModes
  BY <1>1, TypesAre DEF Modes
<1>4. logins + 1 \in 1 .. MaxLogins /\ logins + 1 \in 0 .. MaxLogins
  BY <1>1, LoginAssumption DEF LoginInv, TypeOK
<1>5. editor' \in Editors /\ editor'.locked = TRUE /\ editor'.mode = editor.mode
  BY <1>1, TypesAre DEF Editors
<1>6. /\ login' \in Logins /\ login'.running = TRUE /\ login'.timer = TRUE
      /\ login'.mode = editor.mode /\ login'.state = logins + 1
  BY <1>1, <1>3, <1>4 DEF Logins
<1>7. TypeOK'
  BY <1>1, <1>2, <1>4, <1>5, <1>6 DEF LoginInv, TypeOK, HttpSound
<1>8. dialog = "open" /\ dialog' = "open"
  BY <1>1 DEF Open
<1>9. \A r \in pending : call[r].login = 0
  <2>1. login.state = 0
    BY <1>1, TypesAre DEF LoginInv, LoginIsWhole, Logins
  <2> QED BY <2>1 DEF LoginInv, LoginIsWhole
<1>10. LoginSound'
  <2>1. login'.state \in 1 .. logins'
    BY <1>1, <1>4, <1>6
  <2> QED BY <1>1, <1>2, <1>3, <1>5, <1>6, <1>8, <1>9, <2>1 DEF LoginInv, LoginSound, Open
<1>11. LoginIsWhole'
  <2>1. login'.running = login'.timer /\ login'.running = (login'.state # 0)
    <3>1. login'.state # 0
      BY <1>4, <1>6
    <3> QED BY <1>6, <3>1
  <2>2. login'.listening = (login'.running /\ ~login'.handled) /\ ~login'.handled
    BY <1>1
  <2>3. \A r \in pending' : call'[r].login \in {0, login'.state}
    BY <1>1, <1>2, <1>9
  <2> QED BY <1>5, <1>6, <2>1, <2>2, <2>3, WholeAfter
<1> QED BY <1>2, <1>7, <1>10, <1>11 DEF LoginInv, HttpSound

LEMMA BeginFailsIsSound ==
  ASSUME LoginInv, BeginFails
  PROVE  LoginInv'
<1>1. /\ Open /\ editor.mode # Manual
      /\ login' = [NoLogin EXCEPT !.mode = editor.mode] /\ AbortAll(pending) /\ call' = NoCalls
      /\ HandleFinished(editor.mode, None, FALSE)
      /\ UNCHANGED <<working, posting, posted, shuttingDown, saved, dialog, sockets, logins>>
  BY DEF BeginFails
<1>2. HttpSound' /\ pending' = {}
  BY <1>1, AbortedIsSound, TypesAre DEF AbortAll, HttpSound, HttpTypeOK
<1>3. editor.mode \in LoginModes
  BY <1>1, TypesAre DEF Modes
<1>4. editor' \in Editors /\ editor'.locked = FALSE
  BY <1>1, <1>3, TypesAre, FinishedEditor
<1>5. /\ login' \in Logins /\ login'.mode = editor.mode /\ login'.state = 0
      /\ login'.running = FALSE /\ login'.timer = FALSE
      /\ login'.handled = FALSE /\ login'.listening = FALSE
  BY <1>1, <1>3, NoLoginOK
<1>6. TypeOK'
  BY <1>1, <1>2, <1>4, <1>5, NoCallsOK DEF LoginInv, TypeOK, HttpSound
<1>7. LoginSound'
  <2>1. dialog = "open" /\ dialog' = "open"
    BY <1>1 DEF Open
  <2> QED BY <1>1, <1>2, <1>3, <1>5, <2>1 DEF LoginInv, LoginSound, Open
<1>8. LoginIsWhole'
  BY <1>2, <1>4, <1>5, IdleAfter
<1> QED BY <1>2, <1>6, <1>7, <1>8 DEF LoginInv, HttpSound

LEMMA CallbackIsSound ==
  ASSUME LoginInv, NEW n \in 0 .. MaxLogins, Callback(n)
  PROVE  LoginInv'
<1>1. /\ Open /\ sockets > 0 /\ sockets' = sockets - 1
      /\ UNCHANGED <<working, posting, posted, shuttingDown, saved, dialog, logins>>
  BY DEF Callback
<1>2. sockets' \in 0 .. MaxSockets
  BY <1>1, LoginAssumption DEF LoginInv, TypeOK
<1> DEFINE c == [step |-> "token", mode |-> login.mode, login |-> n]
<1>3. ASSUME n = login.state,
             login' = [login EXCEPT !.handled = TRUE, !.listening = FALSE],
             Ask(c, pending, Calls \ InFlight), UNCHANGED editor
      PROVE  LoginInv'
  <2>1. login.mode \in LoginModes
    BY <1>1 DEF LoginInv, LoginSound
  <2>2. /\ c \in Requests /\ c.mode \in LoginModes /\ c.login \in {0, login.state}
        /\ c.mode = login.mode /\ c.login = login.state
    BY <1>3, <2>1 DEF Requests
  <2> HIDE DEF c
  <2>3. /\ login' \in Logins /\ \A f \in {"running", "mode", "state", "timer"} : login'[f] = login[f]
        /\ login'.handled = TRUE /\ login'.listening = FALSE
    BY <1>3, TypesAre DEF Logins
  <2>4. PICK q \in Calls \ InFlight : Send(q, pending)
    BY <1>3 DEF Ask
  <2>5. HttpSound'
    BY <1>1, <2>4, SentIsSound, TypesAre
  <2>6. Calls \ InFlight \in SUBSET (Calls \ pending)
    BY TypesAre DEF HttpSound, Accounted
  <2>7. login'.listening = (login'.running /\ ~login'.handled)
    BY <2>3
  <2> QED BY <1>1, <1>2, <1>3, <2>2, <2>3, <2>5, <2>6, <2>7, AskedIsSound
<1>4. ASSUME Finish(pending, None)
      PROVE  LoginInv'
  <2>1. HttpSound'
    BY <1>1, <1>4, AbortedIsSound, TypesAre DEF Finish, Reset, HttpSound, HttpTypeOK
  <2> QED BY <1>1, <1>2, <1>4, <2>1, FinishIsSound
<1>5. ASSUME UNCHANGED <<login, editor, call>>, NoCall(pending)
      PROVE  LoginInv'
  <2>1. UNCHANGED http
    BY <1>1, <1>5 DEF NoCall, http
  <2>2. login.mode \in LoginModes
    BY <1>1 DEF LoginInv, LoginSound
  <2> QED BY <1>1, <1>2, <1>5, <2>1, <2>2, EditedIsSound, TypesAre
<1> QED BY <1>3, <1>4, <1>5 DEF Callback

LEMMA ReplyIsSound ==
  ASSUME LoginInv, NEW r \in Calls, Reply(r)
  PROVE  LoginInv'
<1> DEFINE P    == pending \ {r}
           then == NextStep(login.mode, call[r].step)
<1>1. /\ Open /\ Take(r)
      /\ UNCHANGED <<working, posting, shuttingDown, saved, dialog, sockets, logins>>
      /\ sockets' \in 0 .. MaxSockets
  BY DEF Reply, LoginInv, TypeOK
<1>2. call[r] \in Requests
  BY TypesAre
<1>3. ASSUME Wanted(r)
      PROVE  /\ r \in pending /\ call[r].mode \in LoginModes /\ call[r].login \in {0, login.state}
             /\ call[r].login # 0 => call[r].mode = login.mode
  BY <1>3 DEF Wanted, LoginInv, LoginSound, LoginIsWhole
<1>4. ASSUME ~Wanted(r), pending' = P, cancelled' = cancelled \ {r}, UNCHANGED <<waiting, login, editor, call>>
      PROVE  LoginInv'
  <2>1. HttpSound'
    BY <1>1, <1>4, UnwantedIsSound, TypesAre
  <2>2. TypeOK'
    BY <1>1, <1>4, <2>1 DEF LoginInv, TypeOK, HttpSound
  <2>3. dialog = "open" /\ dialog' = "open"
    BY <1>1 DEF Open
  <2>4. pending' = pending
    BY <1>4, <2>3 DEF Wanted, LoginInv, LoginSound, Accounted
  <2> HIDE DEF P
  <2>5. LoginSound'
    BY <1>1, <1>4, <2>3, <2>4 DEF LoginInv, LoginSound, Open
  <2>6. LoginIsWhole'
    BY <1>1, <1>4, <2>3, <2>4 DEF LoginInv, LoginIsWhole, Open
  <2> QED BY <2>1, <2>2, <2>5, <2>6 DEF LoginInv, HttpSound
<1>5. ASSUME Wanted(r), NEW d \in {None, call[r]}, Finish(P, d)
      PROVE  LoginInv'
  <2>1. HttpSound'
    BY <1>1, <1>3, <1>5, AnsweredIsSound, TypesAre DEF Finish, Reset
  <2>2. P \subseteq pending
    OBVIOUS
  <2>3. d # None => d \in Requests /\ d.mode \in LoginModes
    BY <1>2, <1>3, <1>5
  <2> HIDE DEF P
  <2> QED BY <1>1, <1>5, <2>1, <2>2, <2>3, FinishIsSound
<1>6. ASSUME Wanted(r), then # None,
             Ask([call[r] EXCEPT !.step = then], P, (Calls \ InFlight) \cup {r}), UNCHANGED <<login, editor>>
      PROVE  LoginInv'
  <2> DEFINE n == [call[r] EXCEPT !.step = then]
  <2>1. PICK q \in (Calls \ InFlight) \cup {r} : Send(q, P)
    BY <1>6 DEF Ask
  <2>2. HttpSound'
    BY <1>1, <1>3, <1>6, <2>1, FollowedUpIsSound, TypesAre
  <2>3. then \in {"token", "user", "key", "channel"}
    BY <1>6 DEF NextStep
  <2> HIDE DEF then
  <2>4. n \in Requests /\ n.mode = call[r].mode /\ n.login = call[r].login
    BY <1>2, <2>3 DEF Requests
  <2>5. Ask(n, P, (Calls \ InFlight) \cup {r})
    BY <1>6
  <2> HIDE DEF n
  <2>6. P \subseteq pending /\ (Calls \ InFlight) \cup {r} \in SUBSET (Calls \ P)
    BY TypesAre DEF HttpSound, Accounted
  <2>7. login.handled => n.login = login.state \/ \E p \in P : call[p].login = login.state
    BY <2>4 DEF LoginInv, LoginIsWhole
  <2>8. login.listening = (login.running /\ ~login.handled)
    BY DEF LoginInv, LoginIsWhole
  <2> HIDE DEF P
  <2> QED BY <1>1, <1>3, <1>6, <2>2, <2>4, <2>5, <2>6, <2>7, <2>8, AskedIsSound, TypesAre
<1>7. \/ ~Wanted(r) /\ pending' = P /\ cancelled' = cancelled \ {r} /\ UNCHANGED <<waiting, login, editor, call>>
      \/ Wanted(r) /\ \E d \in {None, call[r]} : Finish(P, d)
      \/ /\ Wanted(r) /\ then # None
         /\ Ask([call[r] EXCEPT !.step = then], P, (Calls \ InFlight) \cup {r})
         /\ UNCHANGED <<login, editor>>
  BY DEF Reply
<1> QED BY <1>4, <1>5, <1>6, <1>7

LEMMA WorkerIsSound ==
  ASSUME LoginInv, Worker
  PROVE  LoginInv'
<1>1. Work /\ UNCHANGED <<saved, dialog, editor, login, sockets, call, logins>>
  BY DEF Worker
<1>2. /\ HttpSound' /\ pending' = pending /\ UNCHANGED shuttingDown
      /\ InFlight' \subseteq InFlight
  <2>1. pending = {} \/ ~shuttingDown
    BY TypesAre DEF LoginInv, LoginSound, Open
  <2> QED BY <1>1, <2>1, WorkIsSound, TypesAre
<1>3. TypeOK'
  BY <1>1, <1>2 DEF LoginInv, TypeOK, HttpSound
<1>4. LoginSound'
  BY <1>1, <1>2 DEF LoginInv, LoginSound, Open
<1>5. LoginIsWhole'
  BY <1>1, <1>2 DEF LoginInv, LoginIsWhole, Open
<1> QED BY <1>2, <1>3, <1>4, <1>5 DEF LoginInv, HttpSound

LEMMA ClosedIsSound ==
  ASSUME LoginInv, Closed
  PROVE  LoginInv'
<1>1. /\ dialog = "closing" /\ dialog' = "closed" /\ Destroyed
      /\ UNCHANGED <<saved, editor, login, sockets, call, logins>>
  BY DEF Closed
<1>2. login = NoLogin /\ pending = {}
  BY <1>1, TypesAre DEF Open
<1>3. /\ login.state = 0 /\ login.running = FALSE /\ login.timer = FALSE
      /\ login.handled = FALSE /\ login.listening = FALSE
  BY <1>2, NoLoginOK
<1>4. HttpSound' /\ InFlight' = {} /\ pending' = {} /\ shuttingDown' = FALSE
  BY <1>1, <1>2, DestroyedIsSound, TypesAre
<1>5. TypeOK'
  BY <1>1, <1>4 DEF LoginInv, TypeOK, HttpSound
<1>6. LoginSound'
  BY <1>1, <1>2, <1>3, <1>4 DEF LoginInv, LoginSound, Open
<1>7. LoginIsWhole'
  <2>1. ~Open'
    BY <1>1 DEF Open
  <2> QED BY <1>1, <1>3, <1>4, <2>1, IdleAfter
<1> QED BY <1>4, <1>5, <1>6, <1>7 DEF LoginInv, HttpSound

LEMMA OpenDialogIsSound ==
  ASSUME LoginInv, OpenDialog
  PROVE  LoginInv'
<1>1. PICK key \in {None, saved.key} :
        editor' = [mode |-> saved.mode, loaded |-> saved.mode, account |-> saved.account,
                   key |-> key, keyRef |-> saved.key, token |-> None, tokenRef |-> saved.token,
                   connected |-> None, locked |-> FALSE]
  BY DEF OpenDialog
<1>2. /\ dialog = "closed" /\ dialog' = "open"
      /\ UNCHANGED <<http, saved, login, sockets, call, logins>>
  BY DEF OpenDialog
<1>3. /\ saved.mode \in Modes /\ saved.account \in Grants \cup {None} /\ saved.key \in Secrets
      /\ saved.token \in Secrets /\ key \in Secrets
  BY TypesAre DEF Saved, Secrets
<1>4. editor' \in Editors /\ editor'.locked = FALSE
  BY <1>1, <1>3 DEF Editors, Secrets
<1>5. login = NoLogin /\ pending = {}
  BY <1>2, TypesAre DEF Open
<1>6. /\ login.state = 0 /\ login.running = FALSE /\ login.timer = FALSE
      /\ login.handled = FALSE /\ login.listening = FALSE
  BY <1>5, NoLoginOK
<1>7. HttpSound' /\ InFlight' = InFlight /\ pending' = {} /\ shuttingDown' = shuttingDown
  BY <1>2, <1>5, HttpStutters, TypesAre DEF http
<1>8. TypeOK'
  BY <1>2, <1>4, <1>7 DEF LoginInv, TypeOK, HttpSound
<1>9. LoginSound'
  BY <1>2, <1>6, <1>7 DEF LoginInv, LoginSound, Open
<1>10. LoginIsWhole'
  BY <1>2, <1>4, <1>6, <1>7, IdleAfter
<1> QED BY <1>7, <1>8, <1>9, <1>10 DEF LoginInv, HttpSound

LEMMA ChooseModeIsSound ==
  ASSUME LoginInv, ChooseMode
  PROVE  LoginInv' /\ editor'.account = editor.account
<1>1. /\ Open /\ editor.locked = FALSE /\ login.running = FALSE
      /\ UNCHANGED <<http, saved, dialog, login, sockets, call, logins>>
  BY TypesAre DEF ChooseMode, Editors
<1>2. PICK m \in Modes \ {editor.mode} : editor' = [editor EXCEPT !.mode = m, !.locked = login.running]
  BY DEF ChooseMode
<1>3. editor' \in Editors /\ editor'.locked = editor.locked /\ editor'.account = editor.account
  BY <1>1, <1>2, TypesAre DEF Editors
<1>4. sockets' \in 0 .. MaxSockets /\ (sockets' > 0 => login.mode \in LoginModes)
  BY <1>1 DEF LoginInv, TypeOK, LoginSound
<1> QED BY <1>1, <1>3, <1>4, EditedIsSound

LEMMA TypeKeyIsSound ==
  ASSUME LoginInv, TypeKey
  PROVE  LoginInv' /\ editor'.account = editor.account
<1>1. UNCHANGED <<http, saved, dialog, login, sockets, call, logins>>
  BY DEF TypeKey
<1>2. PICK key \in {Secret, None} : editor' = [editor EXCEPT !.key = key]
  BY DEF TypeKey
<1>3. /\ editor' \in Editors /\ editor'.locked = editor.locked /\ editor'.account = editor.account
      /\ editor'.mode = editor.mode
  BY <1>2, TypesAre DEF Editors, Secrets
<1>4. sockets' \in 0 .. MaxSockets /\ (sockets' > 0 => login.mode \in LoginModes)
  BY <1>1 DEF LoginInv, TypeOK, LoginSound
<1> QED BY <1>1, <1>3, <1>4, EditedIsSound

LEMMA DisconnectIsSound ==
  ASSUME LoginInv, Disconnect
  PROVE  LoginInv' /\ editor'.account = None
<1> DEFINE e == [editor EXCEPT !.account = None, !.token = None, !.tokenRef = None, !.connected = None]
<1>1. /\ UNCHANGED <<http, saved, dialog, login, sockets, call, logins>>
      /\ editor' = IF editor.mode \in Managed THEN [e EXCEPT !.key = None, !.keyRef = None] ELSE e
  BY DEF Disconnect
<1>2. /\ e \in Editors /\ e.mode = editor.mode /\ e.locked = editor.locked /\ e.account = None
  BY TypesAre DEF Editors, Secrets
<1> HIDE DEF e
<1>3. /\ editor' \in Editors /\ editor'.locked = editor.locked /\ editor'.account = None
      /\ editor'.mode = editor.mode
  BY <1>1, <1>2, ZenonT(60) DEF Editors, Secrets
<1>4. sockets' \in 0 .. MaxSockets /\ (sockets' > 0 => login.mode \in LoginModes)
  BY <1>1 DEF LoginInv, TypeOK, LoginSound
<1> QED BY <1>1, <1>3, <1>4, EditedIsSound

LEMMA ConnectionIsSound ==
  ASSUME LoginInv, AcceptCallbackConnection \/ ConnectionEnds
  PROVE  LoginInv' /\ editor' = editor
<1>1. UNCHANGED <<http, saved, dialog, editor, login, call, logins>>
  BY DEF AcceptCallbackConnection, ConnectionEnds
<1>2. sockets' \in 0 .. MaxSockets
  BY LoginAssumption DEF LoginInv, TypeOK, AcceptCallbackConnection, ConnectionEnds
<1>3. login.mode \in LoginModes
  <2>1. CASE AcceptCallbackConnection
    <3>1. login.listening
      BY <2>1 DEF AcceptCallbackConnection
    <3>2. login.running
      BY <3>1 DEF LoginInv, LoginIsWhole
    <3> QED BY <3>2 DEF LoginInv, LoginSound
  <2>2. CASE ConnectionEnds
    BY <2>2 DEF ConnectionEnds, LoginInv, LoginSound
  <2> QED BY <2>1, <2>2
<1> QED BY <1>1, <1>2, <1>3, EditedIsSound, TypesAre

LEMMA CallbackRejectedIsSound ==
  ASSUME LoginInv, CallbackRejected
  PROVE  LoginInv'
<1>1. /\ Open /\ sockets > 0 /\ sockets' = sockets - 1
      /\ UNCHANGED <<working, posting, posted, shuttingDown, saved, dialog, logins>>
  BY DEF CallbackRejected
<1>2. sockets' \in 0 .. MaxSockets /\ login.mode \in LoginModes
  BY <1>1, LoginAssumption DEF LoginInv, TypeOK, LoginSound
<1>3. CASE UNCHANGED <<login, editor, call>> /\ NoCall(pending)
  <2>1. UNCHANGED http
    BY <1>1, <1>3 DEF NoCall, http
  <2> QED BY <1>1, <1>2, <1>3, <2>1, EditedIsSound, TypesAre
<1>4. CASE Finish(pending, None)
  <2>1. HttpSound'
    BY <1>1, <1>4, AbortedIsSound, TypesAre DEF Finish, Reset, HttpSound, HttpTypeOK
  <2> QED BY <1>1, <1>2, <1>4, <2>1, FinishIsSound
<1> QED BY <1>3, <1>4 DEF CallbackRejected

LEMMA TimeoutIsSound ==
  ASSUME LoginInv, Timeout
  PROVE  LoginInv'
<1>1. /\ Open /\ Finish(pending, None)
      /\ UNCHANGED <<working, posting, posted, shuttingDown, saved, dialog, sockets, logins>>
  BY DEF Timeout
<1>2. HttpSound'
  BY <1>1, AbortedIsSound, TypesAre DEF Finish, Reset, HttpSound, HttpTypeOK
<1>3. sockets' \in 0 .. MaxSockets
  BY <1>1 DEF LoginInv, TypeOK
<1> QED BY <1>1, <1>2, <1>3, FinishIsSound

LEMMA SaveAndCancelAreSound ==
  ASSUME LoginInv, Save \/ Cancel
  PROVE  LoginInv' /\ editor'.account = None
<1>1. Open /\ Close /\ saved' \in {saved, Filled}
  BY DEF Save, Cancel
<1>2. saved' \in Saved
  BY <1>1, FilledOK, TypesAre
<1>3. editor' = NoEditor
  BY <1>1 DEF Close
<1>4. NoEditor.account = None
  BY DEF NoEditor
<1> QED BY <1>1, <1>2, <1>3, <1>4, CloseIsSound

LEMMA StutterIsSound ==
  ASSUME LoginInv, UNCHANGED vars
  PROVE  LoginInv'
<1>1. UNCHANGED <<http, saved, dialog, editor, login, sockets, call, logins>>
  BY DEF vars
<1>2. sockets' \in 0 .. MaxSockets /\ (sockets' > 0 => login.mode \in LoginModes)
  BY <1>1 DEF LoginInv, TypeOK, LoginSound
<1> QED BY <1>1, <1>2, EditedIsSound, TypesAre

LEMMA StepIsSound ==
  ASSUME LoginInv, [Next]_vars
  PROVE  LoginInv'
<1>1. CASE OpenDialog
  BY <1>1, OpenDialogIsSound
<1>2. CASE ChooseMode
  BY <1>2, ChooseModeIsSound
<1>3. CASE TypeKey
  BY <1>3, TypeKeyIsSound
<1>4. CASE Disconnect
  BY <1>4, DisconnectIsSound
<1>5. CASE Save \/ Cancel
  BY <1>5, SaveAndCancelAreSound
<1>6. CASE Closed
  BY <1>6, ClosedIsSound
<1>7. CASE Begin
  BY <1>7, BeginIsSound
<1>8. CASE BeginFails
  BY <1>8, BeginFailsIsSound
<1>9. CASE AcceptCallbackConnection \/ ConnectionEnds
  BY <1>9, ConnectionIsSound
<1>10. ASSUME NEW n \in 0 .. MaxLogins, Callback(n) PROVE LoginInv'
  BY <1>10, CallbackIsSound
<1>11. CASE CallbackRejected
  BY <1>11, CallbackRejectedIsSound
<1>12. CASE Timeout
  BY <1>12, TimeoutIsSound
<1>13. ASSUME NEW r \in Calls, Reply(r) PROVE LoginInv'
  BY <1>13, ReplyIsSound
<1>14. CASE Worker
  BY <1>14, WorkerIsSound
<1>15. CASE UNCHANGED vars
  BY <1>15, StutterIsSound
<1> QED
  BY <1>1, <1>2, <1>3, <1>4, <1>5, <1>6, <1>7, <1>8, <1>9, <1>10, <1>11, <1>12, <1>13, <1>14, <1>15
  DEF Next

-----------------------------------------------------------------------------
(* What is proved *)

\* The argument: requests are in one place and accounted for, and a login owns
\* whatever of them is wanted.
THEOREM LoginInvariance == Spec => []LoginInv
<1>1. Init => LoginInv
  BY InitIsSound
<1>2. LoginInv /\ [Next]_vars => LoginInv'
  BY StepIsSound
<1> QED BY <1>1, <1>2, PTL DEF Spec

\* Every variable keeps its type (TypeOK).
THEOREM TypeCorrect == Spec => []TypeOK
<1>1. LoginInv => TypeOK
  BY DEF LoginInv
<1> QED BY <1>1, LoginInvariance, PTL

\* However a login ends, and whoever ends it, it leaves the controls unlocked,
\* no time-out armed, the port free and nothing of its own wanted; while one runs, its
\* time-out is armed, the controls are locked, and once its callback has been accepted
\* a request of it is under way (OAuthConnector::reset, processCallbackRequest).
THEOREM LoginsAreWhole == Spec => []LoginIsWhole
<1>1. LoginInv => LoginIsWhole
  BY DEF LoginInv
<1> QED BY <1>1, LoginInvariance, PTL

\* A request is in one place: queued, at a worker, about to be posted or posted;
\* it is wanted or cancelled, never both or neither; and none is anywhere when
\* the dialog that owns the client has been closed (HttpClient::~HttpClient).
THEOREM RequestsAreAccountedFor ==
  Spec => [](EachOnce /\ Accounted /\ (dialog = "closed" => InFlight = {}))
<1>1. LoginInv => EachOnce /\ Accounted /\ (dialog = "closed" => InFlight = {})
  BY DEF LoginInv, LoginSound
<1> QED BY <1>1, LoginInvariance, PTL

\* The end of a login that has yielded nothing gives the dialog no account.
LEMMA FailureTellsNothing ==
  ASSUME LoginInv, NEW mode \in LoginModes \cup {None}, HandleFinished(mode, None, FALSE)
  PROVE  editor'.account = editor.account
<1>1. editor \in Editors
  BY TypesAre
<1> QED BY <1>1, FinishedEditor

\* An account that the dialog gets to know is of the login that is running and of the
\* mode that is selected, or was got for a browser that came without a state while no
\* login ran: a late answer to a login that has ended, or one that was on its way to
\* the GUI thread when it ended, does not reach the dialog
\* (OAuthConnector::reset, HttpClient's second look in the posted callback).
THEOREM OnlyThisLoginAnswers == Spec => CredentialsAreOfThisLogin
<1>1. ASSUME LoginInv, [Next]_vars, Open, editor'.account \notin {editor.account, None}
      PROVE  \/ editor'.account = [mode |-> editor.mode, login |-> login.state]
             \/ editor'.account.login = 0
  <2>1. CASE OpenDialog
    BY <1>1, <2>1 DEF OpenDialog, Open
  <2>2. CASE ChooseMode
    BY <1>1, <2>2, ChooseModeIsSound
  <2>3. CASE TypeKey
    BY <1>1, <2>3, TypeKeyIsSound
  <2>4. CASE Disconnect
    BY <1>1, <2>4, DisconnectIsSound
  <2>5. CASE Save \/ Cancel
    BY <1>1, <2>5, SaveAndCancelAreSound
  <2>6. CASE Closed
    BY <1>1, <2>6 DEF Closed
  <2>7. CASE Begin
    BY <1>1, <2>7, TypesAre DEF Begin, Editors
  <2>8. CASE BeginFails
    <3>1. editor.mode \in LoginModes /\ HandleFinished(editor.mode, None, FALSE)
      BY <1>1, <2>8, TypesAre DEF BeginFails, Modes
    <3> QED BY <1>1, <3>1, FailureTellsNothing
  <2>9. CASE AcceptCallbackConnection \/ ConnectionEnds
    BY <1>1, <2>9, ConnectionIsSound
  <2>10. ASSUME NEW P, Finish(P, None) PROVE FALSE
    <3>1. login.mode \in LoginModes \cup {None} /\ HandleFinished(login.mode, None, FALSE)
      BY <1>1, <2>10, TypesAre DEF Finish
    <3> QED BY <1>1, <3>1, FailureTellsNothing
  <2>11. ASSUME CallbackRejected \/ Timeout \/ \E n \in 0 .. MaxLogins : Callback(n) PROVE FALSE
    BY <1>1, <2>10, <2>11 DEF Callback, CallbackRejected, Timeout
  <2>12. ASSUME NEW r \in Calls, Reply(r)
         PROVE  \/ editor'.account = [mode |-> editor.mode, login |-> login.state]
                \/ editor'.account.login = 0
    <3> DEFINE c == call[r]
    <3>1. \/ UNCHANGED editor
          \/ \E P : Finish(P, None)
          \/ Wanted(r) /\ \E P : Finish(P, c)
      BY <2>12 DEF Reply
    <3>2. PICK P : Wanted(r) /\ Finish(P, c)
      BY <1>1, <2>10, <3>1
    <3>3. /\ c \in Requests /\ c.mode \in LoginModes /\ c.login \in {0, login.state}
          /\ c.login # 0 => c.mode = login.mode
      BY <1>1, <3>2, TypesAre DEF Wanted, LoginInv, LoginSound, LoginIsWhole
    <3> HIDE DEF c
    <3>4. HandleFinished(login.mode, c, FALSE) /\ login.mode \in LoginModes \cup {None}
      BY <1>1, <3>2, TypesAre DEF Finish
    <3>5. login.mode = editor.mode /\ editor'.account = [mode |-> c.mode, login |-> c.login]
      BY <1>1, <3>3, <3>4, FinishedEditor, TypesAre
    <3> QED BY <3>3, <3>5
  <2>13. CASE Worker
    BY <1>1, <2>13 DEF Worker
  <2>14. CASE UNCHANGED vars
    BY <1>1, <2>14 DEF vars
  <2> QED
    BY <1>1, <2>1, <2>2, <2>3, <2>4, <2>5, <2>6, <2>7, <2>8, <2>9, <2>11, <2>12, <2>13, <2>14
    DEF Next
<1>2. LoginInv /\ [Next]_vars =>
        [Open /\ editor'.account \notin {editor.account, None}
           => \/ editor'.account = [mode |-> editor.mode, login |-> login.state]
              \/ editor'.account.login = 0]_vars
  BY <1>1
<1> QED BY <1>2, LoginInvariance, PTL DEF Spec, CredentialsAreOfThisLogin
=============================================================================
