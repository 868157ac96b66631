# A verification of DSK Multistream

DSK Multistream is an OBS plug-in that sends one or several extra streams
("targets") next to OBS's own. This directory holds TLA+ models of its core,
what TLC checks of them on small instances and what TLAPS proves of them for
every value of the constants. Paths below are relative to the repository.

## The system

All of the plug-in's own code runs on OBS's GUI (Qt) thread. OBS's output
threads only *post* signals to it (`QMetaObject::invokeMethod`, queued), HTTP
workers only post completions, and timers are Qt timers. So a handler is never
interrupted, but what it was called for may be out of date by the time it runs:
that is where nearly all of the difficulty is.

| Component | State | Operations | Talks to |
|---|---|---|---|
| **Output manager** (`src/core/output-manager.cpp`) | `targets_`, `runtimeStatuses_`, `sessions_`, `runtimeTargetIds_`, pending removals, `shuttingDown_` | add / edit / remove / start / stop a target, output signals, release polling, profile and scene-collection change, unload | OBS outputs (signals, `obs_output_active`), settings store, docks (Qt signals) |
| **YouTube start** (same file, 2080–2856) | per session: operation and poll generation, in-flight flag, token, retry counters, time stamps | refresh token, list broadcasts and streams, choose, transition to live, poll again | HTTP client, stream controls dock (selection request and answer) |
| **Shared encoders, scene canvases** (1866–1916, 3203–3550) | `sharedEncoders_` with reference counts, `sceneCanvases_` | acquire, release, recreate | sessions |
| **Settings store** (`src/core/settings-store.cpp`, `secret-store.cpp`) | settings file, `.bak`, credential store, `saveBlocked_` | load (with quarantine), save (backup, credentials, commit, rollback) | output manager |
| **HTTP client** (`src/core/http-client.cpp`) | pool of 4 workers, live requests, cancel flags | send, abort all, destroy | YouTube start, OAuth connector |
| **OAuth connector** (`src/core/oauth-connector.cpp`) | listener, `callbackHandled_`, chain of requests | start, accept callback, exchange, look up, cancel, time out | HTTP client, target dialog |
| **Stream controls dock** (`src/ui/stream-controls-dock.cpp`) | questions for the user, the transition of OBS's stream and its generation, a gate for refreshes | ask / answer / reject a selection, start / stop all or OBS's own stream, show / hide | output manager, OBS |
| **Plug-in entry points** (`src/plugin-main.cpp`) | docks, manager | OBS frontend events, unload | everything |
| **Layout manager, vertical editor** (`src/core/layout-manager.cpp`, `src/ui/vertical-layout-editor.cpp`) | ordered scenes, the active one and a working copy of its items, links from OBS's scenes; in the editor rows, a drag, a delayed save, posted handlers | create / remove / move / select a scene, add / remove / move / change an item, link, follow | output manager, OBS scenes |
| **Other widgets, comment viewer, diagnostics, presets** | widgets, an external process, tables | – | output manager |

What makes these parts hard, and what correct means for each:

* *Output manager.* A stop is asynchronous and OBS may not obey it; signals and
  timers of an old session arrive after the target has been started again; the
  status says Idle or Failed while the session still exists; removals finish in
  a timer; the profile may have changed before the plug-in is told. Correct: at
  most one session per target, no session without its target, every stop ends,
  an old signal never touches a new session, files and memory agree, a profile's
  file is written only under that profile.
* *YouTube start.* Chains of up to six requests whose replies come after a
  reconnect or a restart. Correct: only the newest operation of the live session
  writes its status, an operation in flight always ends, the number of requests
  is bounded, the broadcast taken live is the one the stream is bound to.
* *Shared encoders, canvases.* Correct: an encoder set lives exactly as long as
  a session uses it, and its canvas at least as long.
* *Settings store.* Correct: after any failure or crash either the old or the new
  settings can be loaded and the credentials they refer to exist.
* *HTTP client.* Correct: one callback per request at most, none after an abort.
* *OAuth connector.* Correct: the answers of an ended login reach no later one, and
  nothing of it is left afterwards. (A code that comes without a state while no login runs
  belongs to none, and the code accepts it.)
* *Stream controls dock.* OBS answers a start or stop with an event, later or never,
  and the dock asks the manager to let that event pass; what it shows is brought up
  to date by refreshes that are posted and skipped while it is hidden. Correct: an
  answer only reaches the question it was asked for and no question is lost, a
  suppression only hits the event it was set for, what a visible dock shows is the case.
* *Layout manager, vertical editor.* Each change is saved, at once, in a posted handler
  or 250 ms later, each save may fail, and the user acts on rows that a queued signal
  refreshes. Correct: the scenes are whole in memory and in the file, a change is saved or
  undone, a row is the item the user sees.

PROJECT.json lists the hazards at their lines and the properties that cover them.

## Plan

| # | Module | Abstract specification | State |
|---|---|---|---|
| 1 | `OutputSessions`: targets, sessions, release, saves, profiles | `TargetLifecycle` | **done**, safety and refinement proved |
| 2 | `YouTubeStart`: generations, retries, time-outs, with `BroadcastSelection` | one operation at a time, of the live session | **done**, safety proved |
| 3 | `EncodersAndCanvases`: what outputs draw from, layouts | the invariants on users and videos | **done**, safety proved |
| 4 | `SettingsStore`: load, save, crash at each step | an atomic file with credentials | **done**, safety proved |
| 5 | `HttpClient`, and `TargetLogin` (connector and target dialog) on top of it | – | **done**, safety proved |
| 6 | `StreamControlsDock` with OBS's own stream | – | **done**, safety proved |
| 7 | `SelectionDialog`: the questions of `YouTubeStart` on their way to the user and back | – | **done**, safety proved |
| 8 | `VerticalScenes`: scenes, links, the editor's saves | – | **done**, safety proved |

No module is planned beyond these; what is left out, and why, is under *Not modelled*.

Each proof module `XProofs` extends module `X`. Its theorems hold for every value of the
constants that the module's named assumptions allow; TLC evaluates these on each run. All eight
modules of the table define a `TypeOK`, which is a theorem (`TypeCorrect`). No run has it
among its properties: the runs are left to what a type cannot say.

Every invariant and action property of the passing runs is a theorem. What stays with TLC is
liveness (`StopCompletes`, `StartIsDecided`, `CloseReturns`, `TransitionEnds`),
because the prover has neither fairness nor ENABLED.

## OutputSessions

One GUI-thread handler is one action; everything the code does in it, including
the save at its end, is part of that action.

| Model | Code |
|---|---|
| `config`, `runtimeTargetIds`, `stored` | `targets_`, `runtimeTargetIds_`, the settings file of each profile |
| `state`, `runtime` | `OutputTarget::state`, `TargetRuntimeStatus` (serial and transport) |
| `session`, `nextSessionSerial` | `sessions_` indexed by serial, `nextSessionSerial_` |
| `timers` | `QTimer::singleShot(1000, …releaseSession(id, false, serial))` not yet fired, per serial |
| `queue` | `QMetaObject::invokeMethod` calls of the output callbacks not yet delivered |
| `output` | OBS's side: connecting, active, reconnecting, ending, ended; and how it was told to stop |
| `profile`, `loadedProfile` | OBS's current profile; `loadedSettingsPath_` |
| `AddTarget` … `RemoveTarget` | the public operations of the same names |
| `StartRefused`, `StartFails`, `StartIndependentTarget` | the outcomes of `startTarget` |
| `HandleIgnoredSignal`, `HandleOutputSignal`, `HandleOutputStopped` | `handleOutputSignal`, `handleOutputStopped` |
| `ReleaseTimer`, `ReleaseSession` | the three `releaseSession` overloads |
| `ReloadForCurrentProfile`, `PrepareForSceneCollectionChange`, `PrepareForUnload` | the same |
| `Obs…` | OBS (external): how the code in `src/` relies on it |

A target's many fields are reduced to its *kind*, whether it needs a canvas of
one of OBS's scenes, which is all that any of these handlers asks of it. A save
may fail at any time (the model allows both outcomes wherever the code handles
both) and must fail once the profile has changed. A graceful stop may be ignored
by OBS; a forced one is obeyed. OBS signals "stop" before an active output stops
reporting itself active, so the polling branch is taken after a stop signal too.

`TargetLifecycle` is what the manager promises of a target: absent, idle, running,
closing, and from closing only to idle or absent. `Phase(t)` is the refinement
mapping: a target runs while it has a session and its status says so; a target with
a session whose status is Stopping, Failed or Idle is closing.

The definitions marked *Faulty variant* are plausible bugs (a guard dropped, a
timer not armed, a lookup without the serial). They are not part of the
specification; each shows that a property notices the bug.

### Runs

| Run | Instance | What it shows |
|---|---|---|
| `sessions` | 1 target, both kinds, 2 profiles, 2 sessions, 2 waiting signals, 2 polls, under `FairSpec` | all safety properties, the refinement, and that every stop ends |
| `idle_means_no_output` | 1 target, 1 session | a counterexample: see *Findings* |

Bounds. Two sessions are enough for every confusion of an old session with a new
one: the code compares serials for equality only. `MaxSignals` bounds only when
OBS opens or reopens a connection, never a stop, so that queues grow to five
signals, enough for start, reconnect and stop of one session to wait while the next
one starts. `ReleasePollLimit` is 5 in the code; with 2 both
branches (poll again, force) are taken and the counter restarts. Two profiles
give a switch and a switch back. The instance has one target: handlers find their
target and session by id and serial and touch no other, and the safety properties
under *What is proved* hold for any number of targets. Deadlock is not checked: after
the unload with all serials used nothing is left to happen.

Fairness. The GUI thread handles posted calls and due timers as long as OBS
runs (weak fairness of signals and of each timer), OBS's capture thread ends once
it was told to and a *forced* stop is obeyed. Nothing is assumed of a graceful
stop, of the user or of the network.

### What is proved

`OutputSessionsProofs` proves `TypeCorrect`: the type invariant, for any sets of
targets, kinds and profiles and any bounds.

Its second part proves an inductive invariant
`IInv == Types /\ SessionsSound /\ DiskAgrees /\ StoppingSound` and from it

* `OneSession`, `NoOrphanSession`, `NoEditUnderSession`: at most one session per
  target, of an existing target, that still says what the session was started with;
* `MemoryAndDiskAgree`; `StoppingIsNoDeadEnd`; `ProfileIsolation`.

None of these is inductive alone. That no target has two sessions needs that a
start is refused whenever there is a session, and that a serial is never given
out twice (serials from `nextSessionSerial` on are unused). That a session's target
exists needs that a removal waits for its session, which needs that a pending
removal belongs to a session being stopped, which is half of
`StoppingIsBacked`. That a stopping target has a session needs that the end of
`releaseSession` settles exactly the target whose only session ended, so again
that there was only one. The proofs follow the structure of `Next`: one step per
action, one lemma for `ReleaseSession`, which four actions share. The only
assumption is `SessionsAssumption`.

Its third part adds the order of the signals:
`RInv == IInv /\ ReleaseSound`. After its stop an output signals at most "stopping"
(`StopIsLast`). An output that is alive has no stop signal waiting, and a timer only if
it was told to stop; any other output of a session has a timer or a stop signal waiting
(`SessionSound`). A serial not yet given out is in no signal and no timer (`Untraced`), and a row that
says running names a session nobody asked to stop (`Backed`). From it follow

* `RowsTellTheTruth`, `NoReleaseIsForgotten`: `RunningIsBacked`, `ReleaseIsScheduled`;
* `SessionsEndForCause`: a session that was not asked to stop ends only after its
  output, with its profile or scene collection, or at unload. That needs the order: were
  there a stop signal of an output that is alive, it would end the session;
* `SessionsImplementLifecycle`: each step of `Spec` is, for each target, a step of
  `TargetLifecycle` or a stutter, and `Phase` maps initial states to initial ones. It
  needs besides that there is no session after the unload.

Model-checked only: `StopCompletes`, which is liveness.

### Left out of OutputSessions

`startAll`, `stopAll` and the handlers of OBS's own streaming start and stop call
`startTarget` and `stopTarget` for one target after the other without returning to
the event loop: sequences of the modelled actions (`StreamControlsDock` has when they are called). "deactivate" only refreshes
statistics. `setTargetEnabled` changes a field no handler here reads. The
signals of an output whose start was refused name a serial without a session and
are ignored by the same test as late ones. The branch of `releaseSession` for
`shuttingDown_` cannot be reached through its callers: unload releases everything
first.

## YouTubeStart

Once the output of a YouTube target sends, the manager looks for the broadcast it
streams to and takes it live: token, upcoming listing, active listing, streams,
transition, each request sent by the reply to the one before, and a timer that
starts all over until YouTube says "live". The module follows one target through
this; of its sessions it keeps only whether they are starting, sending,
reconnecting or closing (`OutputSessions` has the rest).

| Model | Code |
|---|---|
| `serial`, `phase` | `Session::serial`; `TargetState` and transport as far as `canContinuePlatformStart` asks |
| `platform`, `broadcastId` | the fields of `TargetRuntimeStatus` |
| `yt` | the `youtube…` fields of `Session`; time stamps are unset, recent or timed out |
| `requests`, `polls` | `http_->send` callbacks and `scheduleYouTubePoll` timers, with what they captured |
| `choice` | the last `youtubeBroadcastSelectionRequired`, which the dock shows to the user |
| `life`, `autoStart`, `boundStream` | YouTube's side (external) |
| `MaybeStart` | `maybeStartYouTubeBroadcast` |
| `Current`, `PollIsCurrent` | the guards at the head of every reply and of the timer |
| `Ends`, `PollsAgain`, `Proceeds` | the three ways a reply's handler finishes: a status, a status and a poll, the next request |
| `TokenArrives` … `StreamsArrive`, `TransitionAccepted`, `TransitionPostponed`, `Fails` | the handlers of the replies |
| `BroadcastSelection!Select` | `selectYouTubeBroadcast` |

A broadcast is its life cycle, its auto-start flag and its stream. A listing
is a snapshot of the moment it is answered, so what it says may be out of date at the
next request; YouTube and its Studio change broadcasts between any two requests.
Every request may fail for a reason that is retried, for a rejected token or for
good, and a transition may be carried out and its reply lost. Which streams receive a
signal is YouTube's choice every time they are looked up.

### Runs

| Run | Instance | What it shows |
|---|---|---|
| `youtube_sessions` | 2 broadcasts, ours or somebody else's, 1 session with reconnects, `MaxGeneration` 2, 2 pages | one step at a time; only our broadcast is taken live; only an answer switches; live stays live |
| `youtube_live` | 1 broadcast that YouTube may start, 2 sessions, 1 retry, `MaxGeneration` 1, under `FairSpec` | nothing is forgotten; every start is decided |
| `multiple_means_multiple` | 1 broadcast | a counterexample: see *Findings* |

Bounds. Serials and generations are compared for equality only, so two of each
suffice to confuse old and new: two generations of one session in `youtube_sessions`, two
sessions in `youtube_live`; both at once, with two broadcasts, are beyond TLC. The limits of the code (20 attempts, 5 retries,
10 pages) become 0 or 1, or 2 pages, so that both sides of each comparison are taken.
`MaxLeftOver` (2) limits stale requests and timers when an output starts or
reconnects: one of each kind, or two of a kind, next to the current one.
`MaxGeneration` limits reconnects, answers and token expiries, and makes the wait
for an automatic start time out; replies, failures and polls are never limited.
Deadlock is not checked: with all serials used and everything answered nothing is
left to happen.

Fairness. Requests are answered, because each has a time-out of 20 seconds
(`PlatformApiTimeoutMs`) whose expiry is a reply too; Qt timers fire; time passes.
Nothing is assumed of YouTube: `StartIsDecided` holds even if it never changes a
broadcast, because attempts and waiting times are bounded.

### What is proved

`YouTubeStartProofs` proves an inductive invariant `StartInv`: types and, while the output runs,

* `OneProcedure`: no request or timer is ahead of the session's generations, an operation in
  flight has exactly one request of its own and no timer is due; otherwise it
  has no request and at most one timer;
* `QuestionIsOpen`, `LiveIsLast`: while a question can still be answered, and once the status is
  "Live", nothing is under way;
* `PendingIsBacked`: a status that promises more has a request, or a timer, to keep the promise;
* `OursIsTaken`: a transition under way is for the broadcast the session has
  selected, which has one of our streams if the target has a stream key to tell by;
* `StartingIsFresh`: nothing names a session that has not yet sent.

From it follow `TypeCorrect`, `StartHasOneThread` (`OneStepAtATime`), `StartIsNeverForgotten`
(`NothingIsForgotten`), `OnlyOursIsTakenLive` (`TransitionsOurBroadcast`), `LiveStays` (`LiveIsKept`) and
`OnlyAnswersSwitch` (`SwitchedOnlyByAnswer`). The heart is that generations only grow and that
whoever begins an operation or arms a timer takes a new one: a reply that passes the guard at its head
(`Current`) is *the* request of `OneProcedure`, so that after it none is left, and each of its three
ends (`Ends`, `PollsAgain`, `Proceeds`) leaves exactly one thing to come, or a status that
promises nothing. The only assumption is `YouTubeAssumption`. The theorems hold for any number of
broadcasts, pages, retries, sessions and generations, also for those beyond TLC together.

Model-checked only: `StartIsDecided`, which is liveness.

### Left out of YouTubeStart

Batches of stream look-ups are one request (they differ from pages in having no
limit). Refused requests stand for quota errors too, so `Failed` stands for
`QuotaBlocked`; `NeedsManualStart` is also the answer to missing credentials, which
the model does not tell from a missing login. Broadcasts beyond those of the
instance fill the pages that are not the last. A broadcast stays bound to its stream
and the target's login stays what it is while the target sends. The answer's way
through the dock is left to `SelectionDialog`. The signals "activate" and "start",
which OBS sends together, are one step.

## EncodersAndCanvases

A vertical output encodes the canvas "DSK Vertical", a horizontal one with a scene of
its own a canvas made for its target, any other the OBS program. Outputs on one canvas
with equal settings share encoders. The sessions' own life is left to `OutputSessions`;
here one begins and ends.

| Model | Code |
|---|---|
| `config`, `removing`, `session` | `targets_` (the fields that choose a canvas and encoders), `pendingPersistentRemovalIds_`, `sessions_` (video and key) |
| `encoders` | `sharedEncoders_`: reference count and the video the set was made for |
| `sceneCanvas` | `sceneCanvases_` |
| `vertical` | `verticalCanvas_`, what `verticalScene_` shows, and OBS's canvas of that name |
| `layout`, `persisted`, `unsaved` | `LayoutManager::verticalLayout`, `persistedVerticalLayout_`, the editor's save timer |
| `EnsuredVertical`, `EnsuredScene` | `ensureVerticalCanvasVideo`, `ensureSceneCanvasForTarget`: the set of their outcomes |
| `ShownVertical`, `RefreshedVertical`, `RefreshedLinked` | `videoForEncoderGroup`, `refreshVerticalCanvasScene`, `refreshLinkedSceneCanvases` |
| `Acquired`, `Released`, `EndSessions` | `acquireSharedEncoders`, `releaseSharedEncoders`, the ends of sessions |
| `Begins` | `startIndependentTarget` from the moment it has a video |
| `SavesVerticalLayout` | `saveVerticalLayout`, called by every change of a layout |
| `Obs…` | OBS (external): it may take a canvas that no output draws from |

A function that may fail is a set of outcomes, each with whether it failed and what it
left behind, because that is where the difficulty is: a canvas found but without
video, reset, removed and made again, made and its scene not, and every
caller going on with what it got. A canvas is told apart by its *video*, to which
encoders are bound; a video can be used again once nothing refers to it, as an address
can. A layout is one value, whatever scene it is of and however it was edited.

### Run

| Run | Instance | What it shows |
|---|---|---|
| `canvases` | 2 targets, 4 configurations, 3 layouts, 3 videos | all its properties |

Bounds. Two targets share encoders and a canvas, or hold it while the other needs
it replaced; a third adds only a larger count. One layout has another size than the
others, so that the canvas has to be replaced, and two have the same size, so that a
canvas may fit and show the wrong one. The configurations are a vertical output,
and horizontal ones on the program, on a canvas of their own, and on one with
shared encoders: `setTargetSceneMode` switches between two of them. Three videos let
two targets have a canvas each while one is made new. Targets and videos
are only compared with each other, so that permuting them is sound; no liveness is
checked. Deadlock is not checked: unloading is the end. There is no fairness.

Assumed of OBS: it removes no canvas and stops no video that an output draws from,
and `obs_get_video_info` succeeds. The canvases of scenes all have one
size (the profiles' constants); sizes of vertical layouts come from the settings file.

### What is proved

`EncodersAndCanvasesProofs` proves all properties of the run for any targets, layouts, videos and
configurations, from the inductive invariant

    CanvasInv == TypeOK /\ HeldIsReal /\ RefsAgree /\ EncodersDrawFromCanvas
                   /\ VerticalNotStale /\ NothingIsKept

`RefsAgree` (`EncodersAreCounted`): the count of a set of encoders is the cardinality of the
finite set of sessions that use it, and a set nobody uses is gone. `EncodersDrawFromCanvas`
(`OutputsDrawFromTheirCanvas`) needs `RefsAgree`, because a set found under its key is used as it
is: that it was made for the same video follows from its users, of which there is one, having
the same canvas, for a key names the canvas; and that this canvas has not been replaced since from
the code's looking for users before it does (`HeldIsReal` is the canvas of the vertical scene being there
when one is held). `VerticalNotStale` (`VerticalFollowsLayout`) is a matter of what each *failed* step
leaves behind, and `StartsOnItsLayout` (`VerticalStartsOnItsLayout`) of the order in `Begins`. The only
assumption is `CanvasAssumption`.

### Left out of EncodersAndCanvases

Which scene a scene canvas shows, the items of a layout, the names of canvases,
targets of the running session only, and the build without
`DSK_ENABLE_OBS_CANVAS_API`, which has no canvases. `upsertTargetSceneRoute`
refreshes linked outputs as the second half of `HandleObsSceneChanged` does.

Two behaviours of the code that no document speaks against, but which a reader
should know: `refreshLinkedSceneCanvases` (`output-manager.cpp:3484`) skips outputs
that are still connecting, so that one that connects while OBS's scene changes shows
the old scene until the next change; and the scene canvas of a start that failed
is kept until the target is started again or removed, even if the target is edited not
to use it.

## SettingsStore

A profile's settings are a file that names credentials, and the credentials, which the
operating system keeps: two places that no transaction spans. The module follows one
profile through sessions of OBS: what is found at the start, loads, edits and the steps of
every save, with a crash possible between any two effects.

| Model | Code |
|---|---|
| `file`, `backup`, `kept` | `dsk-multistream.json`, its `.bak`, the files moved to `.corrupt-…` |
| `creds` | the Windows Credential Manager (external): `SecretStore` reads, writes, deletes |
| `targets`, `saveBlocked` | `targets_` (what concerns credentials), `saveBlocked_` |
| `saving` | the stack of a save under way: secrets to write, those written with what they replaced, what the caller does if it fails or succeeds |
| `NoFile`, `LoadsNothing`, `QuarantineInvalidSettings`, `LoadSettings` | `SettingsStore::load` and `loadSettingsFromCurrentProfile` with its migrations |
| `BackUp`, `WriteCredential`, `Commit`, `RollBack` | `SettingsStore::save`, `applySecretWrites`, `rollbackSecretWrites`, and `OutputManager::save` around them |
| `CleanUp` | `deleteUnreferencedTargetSecrets` |
| `AddTarget`, `MutateTargetForUi`, `RemoveTarget`, `Save`, `HydrateTargetSecrets` | the operations that save, or that bring secrets into memory |
| `Stops` | the end of OBS, a crash, or another profile: nothing in memory survives |
| `known`, `failed`, `saving.origin` | ghosts: whether this session has read or written the file; the credentials on which the store failed; the store when a save began |

A save is four kinds of steps instead of one, because only so can a crash, or a second
failure while the first is undone, come in between. Nothing else can: saves run on
the GUI thread, and no operation is enabled while one is under way.

### Run

| Run | Instance | What it shows |
|---|---|---|
| `settings` | 2 ids, 2 secrets, up to 2 targets, 2 edits per history | all its properties |

Bounds. Two targets and two secrets let a credential be shared, replaced and put back;
two edits let the second meet what the first, or its failure, left in memory and in the
store, with any number of restarts between them. A session may start from no file, an unreadable one,
one of a newer version, one as this version writes it, one with an id twice (which shares
a key, or an OAuth login that the publisher has come to manage), one with a plain-text key, and one that
names a foreign credential. Secrets are only compared, so that permuting them is sound. Deadlock is not
checked only because the bound on edits ends the history; nothing here is about liveness and there is no
fairness.

Assumed: every reference in the file that is found at first names a stored credential; nobody
but the plug-in changes its files and credentials; `QSaveFile::commit` and
`QFile::rename` happen or do not.

### What is proved

`SettingsStoreProofs` proves, for any targets, secrets and files, and a crash at any step:

* `TypeCorrect` and `ReplacedVersionsAreKept` (`ReplacedIsKept`) from
  `StoreInv == TypeOK /\ Protected`: only an OBS that has read the file may save, and a save about
  to replace the file has copied it.
* `FailedSavesRestore` (`FailedSaveRestores`) from `RestoreInv`, which says of a save's record that the
  *first* entry of each reference has what the save found. Two targets may share a
  reference, the second entry then has what the first wrote, and only because `RollBack` goes through
  the record in reverse does the first have the last word.
* `ReferencesAlwaysResolve` (`ReferencesResolve`) from `ResolveInv`: between saves each reference of the file and of
  the targets is stored; during a save those of the old targets are, or can be put back, and those
  of the new ones are old, written, or still to be written; in clean-up what goes
  is named by no target.
* `ForeignCredentialsSurvive` (`ForeignSurvives`), from the same invariant for the foreign reference alone.

* `SecretsStayStored` (`SecretsAreStored`) from `StoredInv`: what a save writes stays written until it is
  over, because a reference that only one target has is written once; and the targets and the
  store that a failed save puts back agreed before it.
* `NothingIsLeftBehind` (`NoOrphans`) from `OrphanInv`: what the file names is given up only with a duty to
  delete it, and what is written is named by the file afterwards, or put back.

The assumption of all is `StoreAssumption`. Two have one more, on the files found at first,
which the files of the run satisfy:

* `ReferencesAlwaysResolve`: no target with a repeated id is managed by the publisher and has credentials of
  a login of its own. The proof fails for such a file, and so does the code, as the
  second behaviour below describes. `ForeignCredentialsSurvive` does not need it.
* `NothingIsLeftBehind`: what a target with a repeated id names is also named by a target that keeps its id,
  as it is when a target was duplicated. Loading copies the credentials of a repeated id for its new
  id; in a file edited by hand so that they were its own, nothing names the originals
  any more, and nothing deletes them.

### Left out of SettingsStore

The client secret and the refresh token are one credential `oauth`; they are treated alike
throughout. What makes a file invalid is one value, `Corrupt`; the fields of a target other than
its credentials, layouts and links are not there, so that a load which only migrates those is
the same as a load and a `Save`. Ids come from a small set and may be used again, where the code draws UUIDs: that
only makes the properties harder to keep.

Behaviours of the code that no document speaks against, but which a reader should know:

* OBS copies a profile with its file. `deleteUnreferencedTargetSecrets`
  (`output-manager.cpp:247`) asks the targets of the current profile only, so that removing a
  target in one of two such profiles deletes the credential the other one names.
  (`scripts/cleanup-orphaned-credentials.ps1` looks at all profiles.)
* If the save of a migration fails, lines 744–763 put the credentials of a target back that
  has both a repeated id and a login the publisher manages; the latter as they were after
  staging (625), so that the target in memory names a credential that was never written. An edit that
  then drops the secret saves this reference. TLC finds it when such a file is among the initial
  ones; it takes a file edited by hand, which is why it is not.
* When the credential of a repeated id cannot be read, two targets keep one reference. If one
  of them is edited, the next save may write the other's old secret from memory over it.
  `SecretsAreStored` leaves out shared references for this reason.
* `TargetEditDialog::fillTarget` keeps the reference of a file when a key is typed anew, also one that is not in the
  plug-in's namespace, and a save writes there, although the same reference is refused for
  reading (`output-manager.cpp:1950`) and deletion (259). `ForeignSurvives` therefore only says that it
  is not removed.

## HttpClient and TargetLogin

`HttpClient` models the worker pool. Its GUI-thread half (`Send`, `AbortAll`, `Take`,
`ShutDown`) are effects that another module's actions use; its workers are actions
of their own, and are the only second thread in the whole project. `TargetLogin`
extends it with `OAuthConnector` and the target dialog that owns one.

| Model | Code |
|---|---|
| `waiting`, `working`, `posting`, `posted` | where a request is: in the pool's queue, on a worker, past the worker's look under the lock, in the GUI thread's event queue |
| `pending`, `cancelled`, `shuttingDown` | `SharedState` and the flags its requests share |
| `StartWork`, `PerformRequest`, `Post` | the lambda `send` gives to the pool, cut where the lock is released |
| `Take`, `Wanted` | the queued lambda, and the condition both look at |
| `ShutDown`, `Destroyed` | `~HttpClient` before and after `waitForDone` |
| `login`, `sockets` | `OAuthConnector`: running, mode, `state_`, `callbackHandled_`, listener, timer; accepted connections |
| `Begin` … `Timeout` | `begin`, `acceptCallbackConnection`, `processCallbackRequest`, the timer |
| `Reply` | `handleTokenReply` and the handlers of the requests that follow |
| `Finish` | `fail`, and the last lines of a login that succeeded: `reset`, then `handleOAuthFinished` |
| `call` | of each request that is wanted: its step, and the mode and login of the code behind it |
| `editor` | the dialog's members; `locked`: the controls `updatePlatformHint` disables |
| `OpenDialog`, `ChooseMode`, `TypeKey`, `Disconnect`, `Filled`, `Save` | `setTarget`, the two combo boxes, the key field, `disconnectOAuthAccount`, `fillTarget`, `accept` with `mutateTargetForUi` |

A request's number is used again when nothing refers to it, where the code counts on;
at most `Calls` are about at a time. A login is a number, which stands for its `state_`;
0 is the empty `state_` that `reset` leaves. An account is the mode and the number of the
login that yielded it, which is all the property on stale answers needs; of a key and a
token only whether there is one is kept. What a browser sends is a code with the state of
any login so far, a code without a state, a refusal, or something else.
`processCallbackRequest` compares the state with `state_` and never asks whether a login
runs, so that a code without a state is accepted while none does: the request it leads to is
of login 0.

### Run

| Run | Instance | What it shows |
|---|---|---|
| `target_login` | Twitch (three requests) and YouTube (one), 2 logins, 2 connections, 2 workers, 2 requests at a time, under `FairSpec` | a login leaves nothing of its own behind, its answers reach no other login, a closed dialog goes away |
| `disconnect_can_be_saved` | the same | a counterexample: see *Findings* |

Two logins are enough to mistake one for the other, two connections for a callback that
comes twice or late, two workers for answers out of order. Kick is Twitch with one
request less and is left out of the instance. Of the four workers two are enough: no
login has more than one request under way unless its callback came twice or after a code without a state.
`FairSpec` lets workers finish, which the time-out of every transfer justifies, and the
GUI thread go on when they have. It assumes nothing of the browser, of the platforms
or of the user.

`LoginIsWhole` is where the order in `fail` matters: the dialog asks `isRunning` while it
is being told, and would lock itself for good if it were told before `reset`. It also says
that from the moment its callback is accepted a request of the login's own is under way.
`CredentialsAreOfThisLogin` and `LoginIsWhole` except what was asked for a browser without
a state, login 0, and nothing else: see *Left out*.
`CloseReturns` would fail if workers waited for the GUI thread to run a completion.

### What is proved

`TargetLoginProofs` proves the safety of the run for any number of requests, workers, logins and
connections, and any of the three platforms, from

    LoginInv == TypeOK /\ EachOnce /\ Accounted /\ LoginSound /\ LoginIsWhole

`EachOnce` and `Accounted` are about the client: a request is in one of the four places, and once, and
is wanted (`pending`) or cancelled, never both or neither. The GUI thread and the workers
have no other agreement. One lemma per effect (`AbortedIsSound`, `SentIsSound`, `UnwantedIsSound`,
`AnsweredIsSound`, `FollowedUpIsSound`, `WorkIsSound`, `DestroyedIsSound`) says that it is kept; the module is about the client's owner only
after that. `LoginSound` ties the two: what is wanted is of the login that is running, whose mode is
the selected one, or of login 0, and nothing of the client outlives the dialog.

* `LoginsAreWhole` (`LoginIsWhole`). It is not inductive alone: that a wanted request is in no second place, so that
  its number is not given to another, comes from `EachOnce` and `Accounted`, and that it stays wanted until
  its answer is handled, from the client's lemmas.
* `OnlyThisLoginAnswers` (`CredentialsAreOfThisLogin`): an answer is taken only if it is wanted, so that it is of
  this login or of none; the mode of this login is the selected one, because the controls are locked.
* `RequestsAreAccountedFor`: `EachOnce` and `Accounted`, and that a closed dialog leaves no request.

The assumptions are `HttpAssumption` and `LoginAssumption`. `CloseReturns` is liveness and stays with TLC.

### Left out of HttpClient and TargetLogin

An own Google client (its id and secret, and that a change of it drops the account); what is
in an answer; the dialog's other fields. Only targets
that are already saved are edited. The runs show what the code allows but no document
speaks of:

* A connection accepted before the listener is closed can deliver the callback again
  (`oauth-connector.cpp:240` does not look at `callbackHandled_`). The code is then exchanged
  twice, and the refusal of the second exchange fails a login that was about to succeed.
* A connection that an earlier login accepted stays open for a while (15 seconds). A refusal
  or a wrong state that comes over it makes the next login fail, or reports an error when
  none runs.
* A code without a state that comes over such a connection while no login runs is
  accepted: `state_` is empty (`oauth-connector.cpp:230`, 508). The exchange is sent for the mode of
  the last login, and `begin` does not abort it. Its answer, or that of a request that
  follows it, may fail the login that has begun meanwhile, end it with an account that is not
  its own, or, with none running, put such an account into the dialog, where the user sees
  it and may save it. This is why the two properties except login 0: without the exception both are
  false of the code.
* What a login yielded survives a change of the mode and back, and the account and key of
  one platform stay in the editor when another is chosen. `fillTarget` drops the account
  unless the mode is the loaded one or the one just connected; the key it keeps.

## StreamControlsDock

The dock has a button for each target, one for OBS's own stream and one for all. It starts and
stops OBS's stream through OBS, which answers with an event, if at all. `frontendEvent`
(`plugin-main.cpp`) hands the event to the manager, which starts and stops targets along with OBS
unless the dock has told it to let the next event of that kind pass, and then to the dock. So the
same word from OBS has to be taken for the dock's doing exactly once.

| Model | Code |
|---|---|
| `run` | the state of each target as far as the dock tells it apart; `OutputSessions` is the detail |
| `obs`, `obsEvents` | OBS's stream, and its frontend events not yet handled (external) |
| `suppress` | `suppressNextObsAutoStart_`, `suppressNextObsAutoStop_` of the manager |
| `transitioning`, `expected`, `generation`, `timers` | `obsNativeTransitioning_`, `…ExpectedActive_`, `…Generation_`, the 15-second timers |
| `changed`, `dirty`, `scheduled`, `visible` | a signal of the manager that is queued, `VisibleRefreshGate`, `refreshScheduled_` |
| `shown` | the button for all and the row of OBS's stream, as last refreshed |
| `AllControl`, `NativeRow`, … | `stream-controls-state.hpp` and the part of `refresh` that uses it |
| `HandleObsNativeClicked`, `HandleButtonClicked`, `HandleStartEnabled`, `HandleStopAll` | the handlers of the clicks |
| `HandleObsEvent` | `frontendEvent`: `ManagerHandles`, then `HandleObsNativeStreamingStateChanged` |
| `TimerFires` | the timer of `beginObsNativeTransition` |
| `Obs…` | OBS (external): connects, fails, ends, is used with its own button |

### Run

| Run | Instance | What it shows |
|---|---|---|
| `stream_controls` | 2 targets, one of them started with all and with OBS, both stopped with OBS; 2 transitions, 2 waiting events, under `FairSpec` | all its properties |

Bounds. A timer's generation is compared for equality only, so that two transitions suffice for the
timer of the one to fire in the other. Two waiting events are the end of one stream and the start of
the next. Of two targets one is moved by everything and the other only by its own button and by stops.
Deadlock is not checked: after the last transition a dock may rest.

Fairness. The GUI thread handles what is posted to it and its timers fire. Nothing is assumed of OBS,
so `TransitionEnds` holds if OBS never answers.

### What is proved

`StreamControlsDockProofs` proves `TypeCorrect`, `SuppressionFollowsTransition` (`SuppressionIsOfTransition`) and
`VisibleDockIsCurrent` (`ShownIsCurrent`) for any targets and any bounds, from

    DockInv == TypeOK /\ SuppressionIsOfTransition /\ EventIsDue /\ RefreshIsDue /\ ShownAsLastAsked

`EventIsDue` is what makes the first inductive: while the dock waits for a stop, OBS streams or has
an event on its way, and while it waits for a start of a stream that runs, that event is on its
way; so no event of the user's own making is taken for the dock's unless the dock still waits. `RefreshIsDue` and
`ShownAsLastAsked` say of any dock, visible or hidden, that it is out of date only if it knows or is
about to be told. The only assumption is `DockAssumption`. Model-checked only: `TransitionEnds`, which is liveness.

### Left out of StreamControlsDock

Rows, badges, labels and styles, and the empty state. The manager's own time-outs of the two flags (60 and
5 seconds): the dock sets and clears each flag before they matter, and a flag that ends early
cannot be told from one that OBS's event has consumed. Behaviours that no document speaks against, but which a reader
should know:

* OBS may take longer than 15 seconds to connect. The timer then takes the suppression back, and the
  late event starts the targets along with OBS, although the dock meant to start only OBS's stream.
* If OBS refuses a start without an event and the user starts OBS with its own button within the 15
  seconds, that event is taken for the dock's, and no target is started along with it.
* Stop All while OBS is still connecting does not stop OBS: the stream is not active yet.

## SelectionDialog

A question, which of several broadcasts to take, goes from the manager to the dock as a queued signal,
waits there behind another target's dialog, and is answered by a user who has all the time
in the world. `YouTubeStart` has the automatic start in full and one target; this module has
several targets and the dialog.

| Model | Code |
|---|---|
| `session` | serial, state, whether an operation is in flight or has asked, and the generation of each target's session |
| `asked` | `youtubeBroadcastSelectionRequired`, queued |
| `dock` | `youtubeBroadcastLatestGenerations_`, `pendingYouTubeBroadcastSelections_`, `activeYouTubeBroadcastSelection_`, a posted `showNextYouTubeBroadcastSelection` |
| `RequestCurrent`, `SessionCurrent` | `isYouTubeBroadcastRequestCurrent`, `isYouTubeBroadcastSessionCurrent` |
| `Discarded`, `ShowNext`, `TakenUp` | `discardStale…`, `showNext…`, `handleYouTubeBroadcastSelection` |
| `Accept`, `Cancel` | the dialog's `finished`, with the checks of `applyYouTubeBroadcastSelection` |
| `Starts` … `Released` | the session's own life, as in `OutputSessions` and `YouTubeStart` |

### Run

| Run | Instance | What it shows |
|---|---|---|
| `selection_dialog` | 2 interchangeable targets, 2 sessions in all, generations up to 4 | all its properties |

An operation that finds the chosen broadcast gone asks only if there is another to choose
(`AsksUser`); without one it ends and the session waits for the user all the same.

Bounds. Two targets let one question wait behind the other's dialog; two sessions put a question of the
old one next to one of the new; a generation grows with every operation and every reconnect, so that four
let a target ask, reconnect, and ask again. Targets are only compared, so that permuting them is sound:
no liveness is checked, and nothing is assumed fair, because a user may leave a dialog open for good.

### What is proved

`SelectionDialogProofs` proves all properties of the run for any targets, sessions and generations, from

    DialogInv == TypeOK /\ DockSound(dock) /\ AskedSound /\ RefreshIsDue

The argument is about versions, a session's serial and generation, which only grow. What has been asked,
and has not reached the dock, is in the order it was asked in and not newer than its session (`AskedSound`). The dock knows of
each session the newest question it has been told, and what it holds of that session is only that
one (`DockSound`). When the dialog is out of date, a change is on its way or a refresh is due, which is scheduled
if the dock is visible; when there is no dialog, questions wait only with a look at the next one posted (`RefreshIsDue`).

* `OnlyTheLastAnswerCounts` (`OnlyItsAnswer`): the dialog's question is of the version that the session has when the
  answer is taken, so it is the one asked last.
* `NoQuestionIsLost` (`QuestionsAreNotLost`): the dock drops a question only if a newer one of the same target
  replaces it, or if its session has moved on, and then it is no longer awaited.
* `VisibleDialogIsCurrent` (`DialogIsCurrent`) is `RefreshIsDue` with nothing on its way.

`Discarded` takes out-of-date questions from the queue with `Kept`, which is `SelectSeq` written
without recursion, so that the prover sees what it does. `KeptFacts` proves that it has the elements at the
places it is given, each once; that it is `SelectSeq` is evaluated by TLC, for short sequences, with
each run (`KeptIsSelectSeq` of `MCSelectionDialog`). The assumption is `DialogAssumption`.

### Left out of SelectionDialog

The candidates and their labels. Several posted looks at the next question are one, because each after the
first finds nothing to do. Two behaviours a reader should know: the dialog of a dock that is hidden stays
open when its question is over, until the dock is shown again (its answer is refused); and while an output
reconnects its old question still counts as current in the dock, so that its answer is taken from
the user, refused by the manager without a word, and the question asked again.

## VerticalScenes

`LayoutManager` holds the vertical scenes, and of the active one a working copy of its items. The
output manager's operations change it and save, and take the change back if the save fails. The editor
changes items and saves at once, in a posted handler or after 250 ms, and acts on rows that a signal refreshes.

| Model | Code |
|---|---|
| `mem` | `LayoutManager`: scenes, layouts, active scene, `verticalLayout_`; `followObsScene_` and the scene links of the manager |
| `file` | the settings file, and the manager's `persisted…` copies |
| `saveTimer`, `posted`, `dropped` | the editor's `saveTimer_`; saves and handlers it has posted with `QTimer::singleShot(0, …)` |
| `shown`, `drag` | the rows of the item list, the item that a drag in the preview moves |
| `WithLayout`, `Selected`, `Created`, `Removed`, `Unlinked` | `layout-manager.cpp` |
| `SaveOrRestore`, `SaveVerticalLayout`, `SaveOrUndo` | `saveVerticalLayout` with its restoration, and the operations that undo their own change |
| `CreateVerticalScene` … `RefreshSceneIdentities` | the manager's operations of those names |
| `SelectVerticalScene` … `EndDrag` | the editor's handlers |
| `ObsChangesScene`, `HandleObsSceneChanged` | the frontend event, and the scene that follows it |
| `OtherSave` | any other save of the manager, which writes what is in memory |

### Run

| Run | Instance | What it shows |
|---|---|---|
| `vertical_scenes` | 2 scenes, 2 items, one of which has two forms, 1 scene of OBS, linked by a file that knows it by name only | all its properties |

Bounds. Two scenes let one be removed, selected or followed while the other is edited; two items, one of
which has something to edit, let rows be moved and removed under a drag or a drop. Each save succeeds or
fails at will. There is no fairness: `EditsAreSaved` says that a save is on its way, not that it comes.

### What is proved

`VerticalScenesProofs` proves all properties of the run for any scenes, items, links and files, from

    SceneInv == TypeOK /\ ScenesAreWhole /\ OnlyEditsAwaitSaving /\ RowsAreCurrent

as `TypeCorrect`, `ScenesFitTogether`, `StructureIsSaved`, `RowsFollowItems` and `EditsReachTheFile`
(`EditsAreSaved`). The argument: each of `Selected`, `Created`, `Removed`, `Unlinked`, `Swapped` and `WithLayout` leaves
scenes that are whole; after a save, whether it succeeds or is taken back, memory is what would be loaded
from the file (`Settled`); so each handler either settles, or changes items of the active scene with a
save on its way (`EditAwaitsSave`), or touches nothing of this, or unloads (`Outcome`). A failed
save restores the scenes of the file but keeps memory's links and follow flag, so that it
yields what would be loaded only because nothing but edits ever awaits saving
(`OnlyEditsAwaitSaving`).

Assumed: `StartAssumption`, that the file found at first is whole. `load` takes its scenes and links as they are
(`layout-manager.cpp:82`, `output-manager.cpp:671`), so that a file broken by hand would stay so; what is
proved is that the program never breaks it. `NoneAssumption` only tells "no drop" from a drop.

### Left out of VerticalScenes

Names, templates of older files, the arithmetic of moving and snapping rectangles, whether the
set-up panel is shown, the canvas that shows the layout (`EncodersAndCanvases` has it). Rows are
refreshed in the step of the signal, which the editor gets without a queue. Behaviours a reader should know:

* `prepareForUnload` gives up a save that waits; this is `EditsAreSaved`'s exception.
* If OBS changes its scene in the middle of a drag and the vertical scene follows, the drag goes on with
  the row of the same number of the other scene (`vertical-layout-editor.cpp:1128`).
* After a drag whose save fails the preview shows its own copy, the rectangle that was not saved, until it
  is next refreshed.

## Findings

* `idle_means_no_output`. `docs/dsk-runtime-state-spec.md:30` defines "`Idle`: no
  runtime output". `handleOutputStopped` (`output-manager.cpp:2975`) resets the
  status to Idle before `releaseSession` finds that OBS still reports the output
  active and keeps the session to poll it. Meanwhile the row says Idle and a start
  is answered with "Output is still stopping". `OneSessionPerTarget` shows
  that no second output can come of it.
* `multiple_means_multiple`. `docs/dsk-runtime-state-spec.md:52` says
  "`MultipleBroadcasts`: DSK found multiple possible broadcasts and cannot safely
  choose one." `listYouTubeBroadcastPage` (`output-manager.cpp:2418`) appends the
  active listing to the upcoming one. A broadcast that starts between the two
  requests, by itself or in the Studio, is in both; with its stream active it counts
  as two matches, and the start is blocked until the user chooses one of two
  entries that are the same broadcast.
* `disconnect_can_be_saved`. `docs/account-connections.md:11` says of Twitch:
  "`Disconnect` clears the account/key in the editor. `Save` commits the removal;
  `Cancel` keeps the previous saved connection." `disconnectOAuthAccount`
  (`target-edit-dialog.cpp:925`) empties the stream key and `authCredentialRef_`, and
  `accept` refuses a target that has neither (`output-target.cpp:202`, "Stream key is
  empty."). The removal cannot be saved before another key has been typed or another
  login has succeeded. Kick's dialog does the same.

## Not modelled

* *Target records and presets*: validation of fields and tables of constants, without state.
* *Comment viewer*: starts and stops an external program and asks it over HTTP on a timer, with a
  generation number and at most 30 attempts. It shares no session, target or file with the rest.
* *Diagnostics and the end-to-end runner*: logging, and a script that plays the user in tests.
* *The preview's rendering, the main dock's tabs, the scene router's tables, the creation of docks*:
  input and output of widgets around operations that are modelled where they change something.
* What each module leaves out of its own component is listed under its heading; the components that are
  "partly" modelled in PROJECT.json are so for those reasons.
