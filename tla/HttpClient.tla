----------------------------- MODULE HttpClient -----------------------------
(***************************************************************************)
(* HttpClient sends requests on a pool of worker threads and runs their    *)
(* callbacks on the GUI thread, unless they have been aborted: a worker    *)
(* that has its answer looks whether it is still wanted, posts the         *)
(* callback to the GUI thread, and there it is looked at once more,        *)
(* because the GUI thread may have aborted it in between.  What the lock   *)
(* protects is one step, the posting is another.                           *)
(*                                                                         *)
(* The GUI thread's steps are effects, for the module of its owner to use. *)
(* A request is a number that is used again when nothing refers to it any  *)
(* more, where the code counts on to 2^64.                                 *)
(***************************************************************************)
EXTENDS Naturals, Sequences, FiniteSets

CONSTANTS
  Calls,     \* how many requests there may be at a time: a bound
  PoolSize   \* setMaxThreadCount

ASSUME HttpAssumption == Calls \subseteq Nat /\ PoolSize \in Nat \ {0}

VARIABLES
  waiting,       \* requests the pool has not started yet
  working,       \* requests a worker is at
  posting,       \* those a worker has found wanted, and not posted yet
  posted,        \* callbacks posted to the GUI thread
  pending,       \* SharedState::pending
  cancelled,     \* the requests whose cancel flag is set
  shuttingDown

http == <<waiting, working, posting, posted, pending, cancelled, shuttingDown>>

Elements(s) == {s[i] : i \in DOMAIN s}

InFlight == Elements(waiting) \cup working \cup posting \cup Elements(posted)

HttpInit ==
  /\ waiting = <<>> /\ posted = <<>>
  /\ working = {} /\ posting = {} /\ pending = {} /\ cancelled = {}
  /\ shuttingDown = FALSE

-----------------------------------------------------------------------------
(* Effects of the GUI thread's steps.  P is what is pending when they come. *)

Send(r, P) ==
  /\ ~shuttingDown
  /\ waiting' = Append(waiting, r)
  /\ pending' = P \cup {r}
  /\ UNCHANGED cancelled

AbortAll(P) ==
  /\ pending' = {}
  /\ cancelled' = cancelled \cup P
  /\ UNCHANGED waiting

NoCall(P) == pending' = P /\ UNCHANGED <<waiting, cancelled>>

Wanted(r) == ~shuttingDown /\ r \notin cancelled /\ r \in pending

\* The posted callback of r is taken up; its owner runs it if it is wanted.
Take(r) == posted # <<>> /\ r = Head(posted) /\ posted' = Tail(posted)

\* The destructor: nothing is wanted any more, and the GUI thread waits ...
ShutDown ==
  /\ AbortAll(pending)
  /\ shuttingDown' = TRUE
  /\ UNCHANGED <<working, posting, posted>>

\* ... for the pool; callbacks that were posted go with their receiver.
Destroyed ==
  /\ shuttingDown /\ waiting = <<>> /\ working = {} /\ posting = {}
  /\ posted' = <<>> /\ cancelled' = {}
  /\ shuttingDown' = FALSE
  /\ UNCHANGED <<waiting, working, posting, pending>>

-----------------------------------------------------------------------------
(* Workers *)

\* A worker that is free takes the next request.
StartWork ==
  /\ waiting # <<>> /\ Cardinality(working \cup posting) < PoolSize
  /\ working' = working \cup {Head(waiting)}
  /\ waiting' = Tail(waiting)
  /\ UNCHANGED <<posting, posted, pending, cancelled, shuttingDown>>

\* The transfer ends: answered, failed, timed out, or cut short by the flag.
PerformRequest(r) ==
  /\ r \in working
  /\ working' = working \ {r}
  /\ IF Wanted(r)
     THEN posting' = posting \cup {r} /\ UNCHANGED <<pending, cancelled>>
     ELSE pending' = pending \ {r} /\ cancelled' = cancelled \ {r} /\ UNCHANGED posting
  /\ UNCHANGED <<waiting, posted, shuttingDown>>

\* Faulty variant: the worker waits until the callback has run, which it does
\* not while the GUI thread waits for the worker.
PostBlocking(r) ==
  /\ r \in posting /\ ~shuttingDown
  /\ posting' = posting \ {r}
  /\ posted' = Append(posted, r)
  /\ UNCHANGED <<waiting, working, pending, cancelled, shuttingDown>>

\* QMetaObject::invokeMethod, which does not wait
Post(r) ==
  /\ r \in posting
  /\ posting' = posting \ {r}
  /\ posted' = Append(posted, r)
  /\ UNCHANGED <<waiting, working, pending, cancelled, shuttingDown>>

Work == StartWork \/ \E r \in Calls : PerformRequest(r) \/ Post(r)

-----------------------------------------------------------------------------
(* Properties *)

\* Types: queues and sets of requests
HttpTypeOK ==
  /\ waiting \in Seq(Calls) /\ posted \in Seq(Calls)
  /\ working \subseteq Calls /\ posting \subseteq Calls
  /\ pending \subseteq Calls /\ cancelled \subseteq Calls
  /\ shuttingDown \in BOOLEAN
=============================================================================
