---------------------------- MODULE TargetLogin ----------------------------
(***************************************************************************)
(* A target is edited in a dialog, in which the user may log in to the     *)
(* platform: OAuthConnector opens the browser, listens on a port of this   *)
(* machine for the browser's return, and then asks for what the target     *)
(* needs, request by request (HttpClient).  The browser may return late,   *)
(* twice, from an earlier login or not at all; answers may come when the   *)
(* login has ended and another has begun; the dialog may be closed at any  *)
(* moment.                                                                 *)
(*                                                                         *)
(* A login is a number, which stands for its state_: 0 is the empty state  *)
(* of a connector that has no login running.  A browser that comes without *)
(* a state is taken at its word then, and what its code yields is of login *)
(* 0.  An account is the platform's login mode and the number of the login *)
(* whose code yielded it.  Of a stream key and of a refresh token only     *)
(* whether there is one is modelled.                                       *)
(* Bounds: MaxLogins, MaxSockets, and Calls of HttpClient.                 *)
(***************************************************************************)
EXTENDS HttpClient

CONSTANTS
  LoginModes,     \* subset of {"twitch", "youtube", "kick"}
  Secret,         \* a stream key or a refresh token
  None,
  MaxLogins,
  MaxSockets

Manual  == "manual"
Managed == {"twitch", "kick"}  \* isPublisherManagedAuth
Modes   == LoginModes \cup {Manual}

ASSUME LoginAssumption ==
  /\ LoginModes \subseteq {"twitch", "youtube", "kick"}
  /\ MaxLogins \in Nat /\ MaxSockets \in Nat
  /\ Secret # None

\* The number of a login of an earlier session of OBS
Earlier == MaxLogins + 1

\* An account is None or [mode, login]; keys and tokens are None or Secret.
VARIABLES
  saved,    \* the target as saved: [mode, account, key, token]
  dialog,   \* "closed", "open", or "closing" while the GUI thread waits for workers
  editor,   \* what the dialog holds, see OpenDialog
  login,    \* OAuthConnector
  sockets,  \* connections of the browser that have not been used
  call,     \* of each request that is wanted: its step, and the mode and the login of
            \* the code behind it
  logins    \* how many there have been

vars == <<http, saved, dialog, editor, login, sockets, call, logins>>

NoLogin == [running |-> FALSE, mode |-> None, state |-> 0, handled |-> FALSE, listening |-> FALSE, timer |-> FALSE]

NoEditor ==
  [mode |-> Manual, loaded |-> Manual, account |-> None, key |-> None, keyRef |-> None,
   token |-> None, tokenRef |-> None, connected |-> None, locked |-> FALSE]
NoRequest == [step |-> "token", mode |-> None, login |-> 0]
NoCalls   == [r \in Calls |-> NoRequest]

Open == dialog = "open"

-----------------------------------------------------------------------------
(* The connector *)

\* Faulty variant: requests under way are not aborted.
ResetKeepingRequests(P) ==
  login' = [NoLogin EXCEPT !.mode = login.mode] /\ NoCall(P) /\ UNCHANGED call

Reset(P) ==
  login' = [NoLogin EXCEPT !.mode = login.mode] /\ AbortAll(P) /\ call' = NoCalls

\* TargetEditDialog::handleOAuthFinished, for the answer to request c: a lookup of
\* the channel has a key, and the end of a YouTube login the refresh token.
WithGrant(e, mode, c) ==
  [e EXCEPT !.account = [mode |-> c.mode, login |-> c.login], !.connected = mode,
            !.token = IF mode # "youtube" THEN @ ELSE IF c.step = "token" THEN Secret ELSE None,
            !.key = IF c.step \in {"key", "channel"} THEN Secret ELSE @]

\* c is None if the login has failed.
HandleFinished(mode, c, running) ==
  LET e == [editor EXCEPT !.locked = running]
  IN editor' = IF mode = editor.mode /\ c # None THEN WithGrant(e, mode, c) ELSE e

\* Faulty variant: the dialog is told before the connector has been reset.
ReportThenReset(P, c) == HandleFinished(login.mode, c, login.running) /\ Reset(P)

\* fail, or the end of a login that succeeded
Finish(P, c) == Reset(P) /\ HandleFinished(login.mode, c, FALSE)

\* A request c, numbered as one of free that nothing refers to
Ask(c, P, free) ==
  \E r \in free :
    /\ \A q \in free : r <= q
    /\ Send(r, P)
    /\ call' = [q \in Calls |-> IF q = r THEN c ELSE IF q \in P THEN call[q] ELSE NoRequest]

\* TargetEditDialog::connectOAuthAccount, OAuthConnector::begin
Begin ==
  /\ Open /\ ~editor.locked /\ editor.mode # Manual /\ ~login.running
  /\ logins < MaxLogins /\ logins' = logins + 1
  /\ login' = [running |-> TRUE, mode |-> editor.mode, state |-> logins + 1,
               handled |-> FALSE, listening |-> TRUE, timer |-> TRUE]
  /\ editor' = [editor EXCEPT !.locked = TRUE]
  /\ UNCHANGED <<http, saved, dialog, sockets, call>>

\* The port is taken, or the browser cannot be opened.
BeginFails ==
  /\ Open /\ ~editor.locked /\ editor.mode # Manual /\ ~login.running
  /\ login' = [NoLogin EXCEPT !.mode = editor.mode] /\ AbortAll(pending) /\ call' = NoCalls
  /\ HandleFinished(editor.mode, None, FALSE)
  /\ UNCHANGED <<working, posting, posted, shuttingDown, saved, dialog, sockets, logins>>

\* acceptCallbackConnection; a connection stays when the login ends.
AcceptCallbackConnection ==
  /\ Open /\ login.listening /\ sockets < MaxSockets
  /\ sockets' = sockets + 1
  /\ UNCHANGED <<http, saved, dialog, editor, login, call, logins>>

\* It is used for something else than the callback, or times out.
ConnectionEnds ==
  /\ Open /\ sockets > 0
  /\ sockets' = sockets - 1
  /\ UNCHANGED <<http, saved, dialog, editor, login, call, logins>>

\* processCallbackRequest, with a code and the state of login n, or none (0).  It does
\* not ask whether a login is running.
Callback(n) ==
  /\ Open /\ sockets > 0 /\ n \in 0 .. logins
  /\ sockets' = sockets - 1
  /\ \/ /\ n = login.state
        /\ login' = [login EXCEPT !.handled = TRUE, !.listening = FALSE]
        /\ Ask([step |-> "token", mode |-> login.mode, login |-> n], pending, Calls \ InFlight)
        /\ UNCHANGED editor
     \/ n # login.state /\ ~login.handled /\ Finish(pending, None)
     \/ n # login.state /\ login.handled /\ UNCHANGED <<login, editor, call>> /\ NoCall(pending)
  /\ UNCHANGED <<working, posting, posted, shuttingDown, saved, dialog, logins>>

\* The same without a code: an error, a state alone, or what is not understood
CallbackRejected ==
  /\ Open /\ sockets > 0
  /\ sockets' = sockets - 1
  /\ IF login.handled THEN UNCHANGED <<login, editor, call>> /\ NoCall(pending) ELSE Finish(pending, None)
  /\ UNCHANGED <<working, posting, posted, shuttingDown, saved, dialog, logins>>

Timeout ==
  /\ Open /\ login.timer
  /\ Finish(pending, None)
  /\ UNCHANGED <<working, posting, posted, shuttingDown, saved, dialog, sockets, logins>>

\* The request that follows an answer, or none: the login has succeeded.  Only the
\* first answer's handler looks at the mode.
NextStep(mode, step) ==
  CASE step = "token" /\ mode = "twitch" -> "user"
    [] step = "token" /\ mode = "kick"   -> "channel"
    [] step = "user"                     -> "key"
    [] OTHER -> None

\* handleTokenReply, handleTwitchUserReply, ...: they run if the request is
\* still wanted, and read the login's mode from the connector.
Reply(r) ==
  /\ Open /\ Take(r)
  /\ LET P    == pending \ {r}
         then == NextStep(login.mode, call[r].step)
     IN \/ ~Wanted(r) /\ pending' = P /\ cancelled' = cancelled \ {r} /\ UNCHANGED <<waiting, login, editor, call>>
        \/ Wanted(r) /\ Finish(P, None)
        \/ /\ Wanted(r) /\ then # None
           /\ Ask([call[r] EXCEPT !.step = then], P, (Calls \ InFlight) \cup {r})
           /\ UNCHANGED <<login, editor>>
        \/ Wanted(r) /\ then = None /\ Finish(P, call[r])
  /\ UNCHANGED <<working, posting, shuttingDown, saved, dialog, sockets, logins>>

-----------------------------------------------------------------------------
(* The dialog *)

\* setTarget; the key is in memory if the target was started before.
OpenDialog ==
  /\ dialog = "closed" /\ dialog' = "open"
  /\ \E key \in {None, saved.key} :
       editor' = [mode |-> saved.mode, loaded |-> saved.mode, account |-> saved.account,
                  key |-> key, keyRef |-> saved.key, token |-> None, tokenRef |-> saved.token,
                  connected |-> None, locked |-> FALSE]
  /\ UNCHANGED <<http, saved, login, sockets, call, logins>>

\* The platform or the login mode is changed.
ChooseMode ==
  /\ Open /\ ~editor.locked
  /\ \E m \in Modes \ {editor.mode} :
       editor' = [editor EXCEPT !.mode = m, !.locked = login.running]
  /\ UNCHANGED <<http, saved, dialog, login, sockets, call, logins>>

TypeKey ==
  /\ Open
  /\ \E key \in {Secret, None} : editor' = [editor EXCEPT !.key = key]
  /\ UNCHANGED <<http, saved, dialog, login, sockets, call, logins>>

HasConnectedAccount ==
  \/ editor.account # None
  \/ editor.mode \in Managed /\ editor.keyRef # None
  \/ editor.mode = "youtube" /\ {editor.token, editor.tokenRef} # {None}

\* disconnectOAuthAccount
Disconnect ==
  /\ Open /\ ~editor.locked /\ ~login.running /\ editor.mode # Manual /\ HasConnectedAccount
  /\ LET e == [editor EXCEPT !.account = None, !.token = None, !.tokenRef = None, !.connected = None]
     IN editor' = IF editor.mode \in Managed THEN [e EXCEPT !.key = None, !.keyRef = None] ELSE e
  /\ UNCHANGED <<http, saved, dialog, login, sockets, call, logins>>

\* fillTarget
Filled ==
  LET belongs == editor.mode \in {editor.loaded, editor.connected}
  IN [mode    |-> editor.mode,
      account |-> IF belongs /\ editor.mode # Manual THEN editor.account ELSE None,
      key     |-> IF editor.key # None THEN editor.key ELSE editor.keyRef,
      token   |-> IF ~belongs \/ editor.mode # "youtube" THEN None
                  ELSE IF editor.token # None THEN editor.token ELSE editor.tokenRef]

\* validateOutputTargetConfig
Valid(target) == target.key # None

\* The dialog, the connector and its HttpClient are destroyed.
Close ==
  /\ dialog' = "closing"
  /\ login' = NoLogin /\ sockets' = 0
  /\ editor' = NoEditor /\ call' = NoCalls
  /\ ShutDown
  /\ UNCHANGED logins

\* accept, and mutateTargetForUi, whose save may fail
Save ==
  /\ Open /\ Valid(Filled)
  /\ saved' \in {saved, Filled}
  /\ Close

Cancel == Open /\ Close /\ UNCHANGED saved

Closed ==
  /\ dialog = "closing" /\ dialog' = "closed"
  /\ Destroyed
  /\ UNCHANGED <<saved, editor, login, sockets, call, logins>>

-----------------------------------------------------------------------------

FirstTargets ==
  {[mode |-> m, account |-> [mode |-> m, login |-> Earlier], key |-> Secret,
    token |-> IF m = "youtube" THEN Secret ELSE None] : m \in LoginModes}
  \cup {[mode |-> Manual, account |-> None, key |-> Secret, token |-> None]}

Init ==
  /\ HttpInit
  /\ saved \in FirstTargets
  /\ dialog = "closed"
  /\ editor = NoEditor
  /\ login = NoLogin /\ sockets = 0 /\ logins = 0
  /\ call = NoCalls

Worker == Work /\ UNCHANGED <<saved, dialog, editor, login, sockets, call, logins>>

Next ==
  \/ OpenDialog \/ ChooseMode \/ TypeKey \/ Disconnect \/ Save \/ Cancel \/ Closed
  \/ Begin \/ BeginFails \/ AcceptCallbackConnection \/ ConnectionEnds
  \/ \E n \in 0 .. MaxLogins : Callback(n)
  \/ CallbackRejected \/ Timeout
  \/ \E r \in Calls : Reply(r)
  \/ Worker

Spec == Init /\ [][Next]_vars

\* Transfers end (each has a time-out of its own), and the GUI thread, once
\* the workers are done, goes on.
FairSpec == Spec /\ WF_vars(Worker) /\ WF_vars(Closed)

-----------------------------------------------------------------------------
(* Properties *)

Grants  == [mode : LoginModes, login : 0 .. Earlier]
Secrets == {None, Secret}
Saved   == [mode : Modes, account : Grants \cup {None}, key : Secrets, token : Secrets]
Editors ==
  [mode : Modes, loaded : Modes, account : Grants \cup {None}, key : Secrets, keyRef : Secrets,
   token : Secrets, tokenRef : Secrets, connected : LoginModes \cup {None},
   locked : BOOLEAN]
Logins  ==
  [running : BOOLEAN, mode : LoginModes \cup {None}, state : 0 .. MaxLogins,
   handled : BOOLEAN, listening : BOOLEAN, timer : BOOLEAN]

Requests ==
  [step : {"token", "user", "key", "channel"}, mode : LoginModes \cup {None}, login : 0 .. MaxLogins]

\* Types: what the dialog and the file hold of a login is what one has yielded.
TypeOK ==
  /\ HttpTypeOK
  /\ saved \in Saved /\ editor \in Editors /\ login \in Logins
  /\ dialog \in {"closed", "open", "closing"}
  /\ sockets \in 0 .. MaxSockets /\ logins \in 0 .. MaxLogins
  /\ call \in [Calls -> Requests]

\* An account that the dialog gets to know is of the login that is running and for
\* the mode that is selected, or of no login: an answer to a login that has ended
\* does not reach it, also if it was on its way to the GUI thread then.  What begin
\* does not stop is the exchange for a browser that came without a state while no
\* login ran (processCallbackRequest), and that is all that a login can take for its own.
CredentialsAreOfThisLogin ==
  [][Open /\ editor'.account \notin {editor.account, None}
       => \/ editor'.account = [mode |-> editor.mode, login |-> login.state]
          \/ editor'.account.login = 0]_vars

\* A login is whole or it is not there, however the last one ended.  While one
\* runs its time-out is armed, and the dialog's controls are locked: nobody can
\* change the mode under it.  It listens until a callback has been accepted, and
\* then a request of its own is under way whose answer ends it or takes it further.  When
\* none runs the controls and the port are free, and nothing is asked for a login that
\* has ended (OAuthConnector::reset, TargetEditDialog::updatePlatformHint).
LoginIsWhole ==
  /\ login.running = login.timer
  /\ login.running = (login.state # 0)
  /\ login.listening = (login.running /\ ~login.handled)
  /\ login.handled => \E r \in pending : call[r].login = login.state
  /\ \A r \in pending : call[r].login \in {0, login.state}
  /\ Open => editor.locked = login.running

\* Every dialog that is closed is gone at some time, also in the middle of a
\* login: the GUI thread waits for workers, and never they for it (~HttpClient).
CloseReturns == dialog = "closing" ~> dialog = "closed"

\* "Disconnect clears the account/key in the editor. Save commits the removal"
\* (docs/account-connections.md:11, on Twitch): then Save is not refused.
DisconnectCanBeSaved ==
  [][Open /\ editor'.mode = editor.mode /\ editor.mode = "twitch" /\ HasConnectedAccount /\ ~HasConnectedAccount'
       => Valid(Filled)']_vars
=============================================================================
