------------------------ MODULE EncodersAndCanvases ------------------------
(***************************************************************************)
(* What the outputs draw from.  A vertical output encodes the canvas "DSK  *)
(* Vertical", a horizontal one with a scene of its own encodes a canvas    *)
(* made for its target, any other the OBS program.  Outputs with equal     *)
(* settings on one canvas share a set of encoders, counted by its users.   *)
(*                                                                         *)
(* A canvas may have to be replaced, when the layout has another size or   *)
(* OBS has removed it, and that must not happen under a running output.    *)
(*                                                                         *)
(* OutputSessions has the life of the sessions in full; here a session     *)
(* begins and ends.  A layout is one value, whatever scene it is of and    *)
(* however it was edited; a canvas is told apart by its video, the mix of  *)
(* it that encoders are bound to.  Bound: the finite set Videos.           *)
(***************************************************************************)
EXTENDS Naturals, FiniteSets

CONSTANTS
  Targets,
  Configs,     \* what a target may be set to
  Layouts,
  LayoutSize,  \* the width and height of each layout
  Videos,      \* videos of canvases, used again once nothing refers to them
  Program,     \* the video of the OBS program
  None

Groups == {"horizontal", "vertical"}
Modes  == {"FollowObs", "FixedScene", "LinkedScene"}

CanvasKeys  == ({"scene-target"} \X Targets) \cup {<<"dsk-vertical">>, <<"obs-program">>}
EncoderKeys == Groups \X CanvasKeys \X {c.profile : c \in Configs}

LayoutCanvas == [video : Videos \cup {None}, size : {LayoutSize[l] : l \in Layouts}, flags : BOOLEAN]
SceneCanvas  == [video : Videos \cup {None}, removed : BOOLEAN]
EncoderSet   == [refs : Nat \ {0}, video : Videos \cup {Program}]
Session      == [video : Videos \cup {Program}, key : EncoderKeys \cup {None}]

ASSUME CanvasAssumption ==
  /\ IsFiniteSet(Targets)
  /\ Configs \subseteq [group : Groups, mode : Modes, shared : BOOLEAN, profile : {c.profile : c \in Configs}]
  /\ DOMAIN LayoutSize = Layouts
  /\ None \notin Targets \cup Layouts \cup Videos \cup {Program} \cup EncoderKeys
  /\ None \notin LayoutCanvas \cup SceneCanvas \cup Session
  /\ Program \notin Videos

VARIABLES
  \* the output manager's targets and sessions
  config,         \* targets_: the settings of each target that exists
  removing,       \* pendingPersistentRemovalIds_
  session,        \* of each target: its session's video and encoder key, or None
  shuttingDown,
  \* what the sessions use
  encoders,       \* sharedEncoders_: the sets by key, with users and video
  sceneCanvas,    \* sceneCanvases_
  vertical,       \* the vertical canvas, and how the manager refers to it
  \* vertical layouts
  layout,         \* LayoutManager::verticalLayout
  persisted,      \* persistedVerticalLayout_
  unsaved         \* the editor changed the layout and has yet to save it

vars == <<config, removing, session, shuttingDown, encoders, sceneCanvas,
          vertical, layout, persisted, unsaved>>

-----------------------------------------------------------------------------
(* Canvases and keys *)

targets == DOMAIN config

UsesSceneCanvas(t) == config[t].group = "horizontal" /\ config[t].mode # "FollowObs"

CanvasKey(t) ==
  IF UsesSceneCanvas(t) THEN <<"scene-target", t>>
  ELSE IF config[t].group = "vertical" THEN <<"dsk-vertical">> ELSE <<"obs-program">>

EncoderKey(t) == <<config[t].group, CanvasKey(t), config[t].profile>>

\* sessionUsesCanvasKey: read from the settings, not from the session.
Uses(key) == \E t \in targets : session[t] # None /\ CanvasKey(t) = key

\* The canvas named DSK Vertical in OBS; the manager holds it, holds one that
\* OBS has removed, or holds none; and the layout that was last drawn on it.
VerticalCanvas ==
  [canvas : LayoutCanvas \cup {None}, held : {"none", "current", "removed"}, shows : Layouts \cup {None}]

FreeVideos ==
  Videos \ ({sceneCanvas[t].video : t \in {u \in Targets : sceneCanvas[u] # None}}
            \cup (IF vertical.canvas = None THEN {} ELSE {vertical.canvas.video})
            \cup {session[t].video : t \in {u \in Targets : session[u] # None}})

\* Outcomes of a function that may fail: whether it did not, and what it left.
Succeeds(S) == {[ok |-> TRUE, left |-> x] : x \in S}
Fails(S)    == {[ok |-> FALSE, left |-> x] : x \in S}

-----------------------------------------------------------------------------
(* ensureVerticalCanvasVideo, in an OBS that has video (obs_get_video_info). *)

Fits(canvas, l) == canvas.video # None /\ canvas.size = LayoutSize[l] /\ canvas.flags

\* A removed canvas is let go, and one of the name looked up.
FoundVertical(v) == [v EXCEPT !.held = IF v.canvas = None THEN "none" ELSE "current"]

FreshCanvases(l) == [video : FreeVideos, size : {LayoutSize[l]}, flags : {TRUE}]

NoVertical == [canvas |-> None, held |-> "none", shows |-> None]

CreatedVertical(l) ==
  Succeeds([canvas : FreshCanvases(l), held : {"current"}, shows : {None}]) \cup Fails({NoVertical})

ResetVertical(v, l) ==
  IF v.canvas.flags THEN Succeeds({[v EXCEPT !.canvas = c] : c \in FreshCanvases(l)}) ELSE {}

ReplacedVertical(v, l) == Fails({[v EXCEPT !.shows = None]}) \cup CreatedVertical(l)

\* Faulty variant: the canvas is replaced whoever uses it.
EnsuredVerticalInUse(v, l) ==
  LET found == FoundVertical(v)
  IN IF found.canvas = None THEN CreatedVertical(l)
     ELSE IF Fits(found.canvas, l) THEN Succeeds({found})
     ELSE ResetVertical(found, l) \cup ReplacedVertical(found, l)

EnsuredVertical(v, l) ==
  LET found == FoundVertical(v)
  IN IF found.canvas = None THEN CreatedVertical(l)
     ELSE IF Fits(found.canvas, l) THEN Succeeds({found})
     ELSE IF Uses(<<"dsk-vertical">>) THEN Fails({found})
     ELSE ResetVertical(found, l) \cup ReplacedVertical(found, l)

\* VerticalSceneBuilder::rebuild; only to create the canvas's scene can fail.
Rebuilt(v, l) ==
  Succeeds({[v EXCEPT !.shows = l]}) \cup (IF v.shows = None THEN Fails({v}) ELSE {})

ShownVertical(v, l) ==
  UNION {IF e.ok THEN Rebuilt(e.left, l) ELSE {e} : e \in EnsuredVertical(v, l)}

\* refreshVerticalCanvasScene
RefreshedVertical(v, l) ==
  IF v.held = "none" THEN {v} ELSE {e.left : e \in ShownVertical(v, l)}

\* releaseObsSceneReferences: the vertical part
LetGoOfVertical(v) == [v EXCEPT !.held = "none", !.shows = None]

-----------------------------------------------------------------------------
(* ensureSceneCanvasForTarget *)

CreatedScene == Succeeds([video : FreeVideos, removed : {FALSE}]) \cup Fails({None})

ReplacedScene(c) == Fails({c}) \cup CreatedScene

EnsuredScene(t, canvas) ==
  LET known == IF canvas # None /\ canvas.removed THEN None ELSE canvas
  IN Fails({canvas}) \cup
     (IF known = None THEN CreatedScene
      ELSE IF known.video # None THEN Succeeds({known})
      ELSE IF Uses(CanvasKey(t)) THEN Fails({known})
      ELSE Succeeds([video : FreeVideos, removed : {FALSE}]) \cup ReplacedScene(known))

\* refreshLinkedSceneCanvases, when the outputs of the targets in A are active
Linked == {t \in targets : session[t] # None /\ UsesSceneCanvas(t) /\ config[t].mode = "LinkedScene"}

RefreshedLinked(canvases, A) ==
  LET after(t) == IF t \in A \cap Linked THEN {e.left : e \in EnsuredScene(t, canvases[t])} ELSE {canvases[t]}
  IN {f \in [Targets -> UNION {after(t) : t \in Targets}] : \A t \in Targets : f[t] \in after(t)}

-----------------------------------------------------------------------------
(* Shared encoders *)

\* acquireSharedEncoders: a set that exists keeps the video it was made for.
Acquired(key, video) ==
  [k \in DOMAIN encoders \cup {key} |->
     IF k # key THEN encoders[k]
     ELSE IF key \in DOMAIN encoders THEN [encoders[key] EXCEPT !.refs = @ + 1]
     ELSE [refs |-> 1, video |-> video]]

\* releaseSharedEncoders, n[k] times for each key k
Released(enc, n) ==
  [k \in {j \in DOMAIN enc : enc[j].refs > n[j]} |-> [enc[k] EXCEPT !.refs = @ - n[k]]]

UsersIn(S, key) == {t \in S : session[t] # None /\ session[t].key = key}

\* releaseSession and releaseAllSessionsNow, as far as they give back encoders
EndSessions(S) ==
  /\ session' = [t \in Targets |-> IF t \in S THEN None ELSE session[t]]
  /\ encoders' = Released(encoders, [k \in DOMAIN encoders |-> Cardinality(UsersIn(S, k))])

-----------------------------------------------------------------------------
(* Starting and ending *)

\* Faulty variant: a start that OBS rejects keeps its encoders.
BeginsLeaking(t, video) ==
  IF config[t].shared
  THEN LET key == EncoderKey(t)
       IN /\ encoders' = Acquired(key, video)
          /\ \/ UNCHANGED session
             \/ session' = [session EXCEPT ![t] = [video |-> encoders'[key].video, key |-> key]]
  ELSE /\ UNCHANGED encoders
       /\ \/ UNCHANGED session
          \/ session' = [session EXCEPT ![t] = [video |-> video, key |-> None]]

\* startIndependentTarget from the moment it has a video: service, output or
\* encoders cannot be created; OBS rejects the start; or there is a session.
Begins(t, video) ==
  IF config[t].shared
  THEN LET key      == EncoderKey(t)
           acquired == Acquired(key, video)
           once     == [k \in DOMAIN acquired |-> IF k = key THEN 1 ELSE 0]
       IN \/ UNCHANGED <<session, encoders>>
          \/ UNCHANGED session /\ encoders' = Released(acquired, once)
          \/ /\ encoders' = acquired
             /\ session' = [session EXCEPT ![t] = [video |-> acquired[key].video, key |-> key]]
  ELSE /\ UNCHANGED encoders
       /\ \/ UNCHANGED session
          \/ session' = [session EXCEPT ![t] = [video |-> video, key |-> None]]

MayStart(t) == t \in targets /\ session[t] = None /\ ~shuttingDown

StartOnProgram(t) ==
  /\ MayStart(t) /\ CanvasKey(t) = <<"obs-program">>
  /\ Begins(t, Program)
  /\ UNCHANGED <<config, removing, shuttingDown, sceneCanvas, vertical, layout,
                 persisted, unsaved>>

\* Faulty variant: the layout that was saved last is drawn.
StartOnSavedLayout(t) ==
  /\ MayStart(t) /\ CanvasKey(t) = <<"dsk-vertical">>
  /\ \E e \in ShownVertical(vertical, persisted) :
       /\ vertical' = e.left
       /\ IF e.ok THEN Begins(t, e.left.canvas.video) ELSE UNCHANGED <<session, encoders>>
  /\ UNCHANGED <<config, removing, shuttingDown, sceneCanvas, layout, persisted, unsaved>>

StartOnVertical(t) ==
  /\ MayStart(t) /\ CanvasKey(t) = <<"dsk-vertical">>
  /\ \E e \in ShownVertical(vertical, layout) :
       /\ vertical' = e.left
       /\ IF e.ok THEN Begins(t, e.left.canvas.video) ELSE UNCHANGED <<session, encoders>>
  /\ UNCHANGED <<config, removing, shuttingDown, sceneCanvas, layout, persisted,
                 unsaved>>

StartOnScene(t) ==
  /\ MayStart(t) /\ UsesSceneCanvas(t)
  /\ \E e \in EnsuredScene(t, sceneCanvas[t]) :
       /\ sceneCanvas' = [sceneCanvas EXCEPT ![t] = e.left]
       /\ IF e.ok THEN Begins(t, e.left.video) ELSE UNCHANGED <<session, encoders>>
  /\ UNCHANGED <<config, removing, shuttingDown, vertical, layout, persisted,
                 unsaved>>

\* finalizePendingRemoval and finalizeTargetRemoval for the targets in S: the
\* save of each may fail, and the target then stays.
Removes(S) ==
  \E gone \in SUBSET S :
    /\ config' = [t \in targets \ gone |-> config[t]]
    /\ removing' = removing \ S
    /\ persisted' = IF gone = {} THEN persisted ELSE layout

\* releaseTargetSceneCanvas, after the session is gone
SessionEnds(t) ==
  /\ session[t] # None
  /\ EndSessions({t})
  /\ sceneCanvas' = [sceneCanvas EXCEPT ![t] = None]
  /\ Removes({t} \cap removing)
  /\ UNCHANGED <<shuttingDown, vertical, layout, unsaved>>

-----------------------------------------------------------------------------
(* Operations on targets *)

AddTarget(t) ==
  /\ t \notin targets /\ ~shuttingDown
  /\ \E c \in Configs : config' = [u \in targets \cup {t} |-> IF u = t THEN c ELSE config[u]]
  /\ persisted' = layout
  /\ UNCHANGED <<removing, session, shuttingDown, encoders, sceneCanvas, vertical, layout,
                 unsaved>>

RemoveTarget(t) ==
  /\ t \in targets \ removing /\ ~shuttingDown
  /\ \/ /\ session[t] # None
        /\ removing' = removing \cup {t}
        /\ UNCHANGED <<config, sceneCanvas, persisted>>
     \/ /\ session[t] = None
        /\ config' = [u \in targets \ {t} |-> config[u]]
        /\ persisted' = layout
        /\ sceneCanvas' = [sceneCanvas EXCEPT ![t] = None]
        /\ UNCHANGED removing
  /\ UNCHANGED <<session, shuttingDown, encoders, vertical, layout, unsaved>>

\* mutateTargetForUi: the canvas that a failed start left is not looked at.
MutateTargetForUi(t) ==
  /\ t \in targets \ removing /\ session[t] = None /\ ~shuttingDown
  /\ \E c \in Configs : config' = [config EXCEPT ![t] = c]
  /\ persisted' = layout
  /\ UNCHANGED <<removing, session, shuttingDown, encoders, sceneCanvas, vertical,
                 layout, unsaved>>

\* setTargetSceneMode; the linked outputs are refreshed whether it is saved or not.
SetTargetSceneMode(t) ==
  /\ t \in targets /\ session[t] = None /\ ~shuttingDown
  /\ \E c \in {d \in Configs : \E m \in Modes : d = [config[t] EXCEPT !.mode = m]}, active \in SUBSET Linked :
       LET canvases == IF c.mode = "FollowObs" THEN [sceneCanvas EXCEPT ![t] = None] ELSE sceneCanvas
       IN \/ /\ config' = [config EXCEPT ![t] = c]
             /\ persisted' = layout
             /\ sceneCanvas' \in RefreshedLinked(canvases, active)
          \/ /\ UNCHANGED <<config, persisted>>
             /\ sceneCanvas' \in RefreshedLinked(sceneCanvas, active)
  /\ UNCHANGED <<removing, session, shuttingDown, encoders, vertical, layout,
                 unsaved>>

\* setTargetEnabled, setFollowObsScene, upsertSceneLink, ...: the file is
\* written with the layout as it is in memory, and the canvas left alone.
Save ==
  /\ ~shuttingDown
  /\ persisted' = layout
  /\ UNCHANGED <<config, removing, session, shuttingDown, encoders, sceneCanvas,
                 vertical, layout, unsaved>>

-----------------------------------------------------------------------------
(* Layouts and scenes *)

\* Faulty variant: a failed save restores the layout in memory only.
SavesWithoutRestoring(l) ==
  \/ /\ layout' = l /\ persisted' = l
     /\ vertical' \in RefreshedVertical(vertical, l)
  \/ layout' = persisted /\ UNCHANGED <<persisted, vertical>>

\* saveVerticalLayout with layout l in memory: a failed save puts back the one
\* that was saved last; the canvas is refreshed in both cases.
SavesVerticalLayout(l) ==
  /\ \/ layout' = l /\ persisted' = l
     \/ layout' = persisted /\ UNCHANGED persisted
  /\ vertical' \in RefreshedVertical(vertical, layout')

\* VerticalLayoutEditor: the layout is changed at once and saved from a timer.
EditorChanges ==
  /\ ~shuttingDown
  /\ layout' \in Layouts \ {layout}
  /\ unsaved' = TRUE
  /\ UNCHANGED <<config, removing, session, shuttingDown, encoders, sceneCanvas,
                 vertical, persisted>>

EditorSaves ==
  /\ unsaved /\ ~shuttingDown
  /\ unsaved' = FALSE
  /\ SavesVerticalLayout(layout)
  /\ UNCHANGED <<config, removing, session, shuttingDown, encoders, sceneCanvas>>

\* createVerticalScene, removeVerticalScene and the editor's other changes
ChangeVerticalScenes ==
  /\ ~shuttingDown
  /\ \E l \in Layouts : SavesVerticalLayout(l)
  /\ UNCHANGED <<config, removing, session, shuttingDown, encoders, sceneCanvas,
                 unsaved>>

\* handleObsSceneChanged: a linked layout is applied if layouts follow OBS,
\* and then the canvases of linked outputs are aimed at their scenes.
HandleObsSceneChanged ==
  /\ ~shuttingDown
  /\ \/ \E l \in Layouts : SavesVerticalLayout(l)
     \/ UNCHANGED <<layout, persisted, vertical>>
  /\ \E active \in SUBSET Linked : sceneCanvas' \in RefreshedLinked(sceneCanvas, active)
  /\ UNCHANGED <<config, removing, session, shuttingDown, encoders, unsaved>>

-----------------------------------------------------------------------------
(* Profiles, scene collections, shutting down *)

Running == {t \in Targets : session[t] # None}

SceneDependent == {t \in targets \cap Running : CanvasKey(t) # <<"obs-program">>}

ReloadForCurrentProfile ==
  /\ ~shuttingDown
  /\ EndSessions(Running)
  /\ sceneCanvas' = [t \in Targets |-> None]
  /\ vertical' = LetGoOfVertical(vertical)
  /\ \E stored \in SUBSET Targets : config' \in [stored -> Configs]
  /\ removing' = {}
  /\ layout' \in Layouts /\ persisted' = layout'
  /\ UNCHANGED <<shuttingDown, unsaved>>

\* VerticalLayoutEditor::prepareForUnload stops the editor's save timer, but
\* not a save that is queued already; prepareForSceneCollectionChange releases
\* sessions and canvases; then OBS may remove the canvases of the collection.
ChangeSceneCollection ==
  /\ ~shuttingDown
  /\ EndSessions(SceneDependent)
  /\ sceneCanvas' = [t \in Targets |-> None]
  /\ Removes(SceneDependent \cap removing)
  /\ vertical' \in {LetGoOfVertical(vertical), NoVertical}
  /\ unsaved' \in {FALSE, unsaved}
  /\ UNCHANGED <<shuttingDown, layout>>

\* releaseObsSceneReferences on its own, as OBS begins to shut down: what
\* sessions use is kept.  A save whose timer is stopped here never happens.
ReleaseObsSceneReferences ==
  /\ ~shuttingDown
  /\ sceneCanvas' = [t \in Targets |-> IF Uses(<<"scene-target", t>>) THEN sceneCanvas[t] ELSE None]
  /\ vertical' = IF Uses(<<"dsk-vertical">>) THEN vertical ELSE LetGoOfVertical(vertical)
  /\ UNCHANGED <<config, removing, session, shuttingDown, encoders, layout, persisted, unsaved>>

\* Faulty variant: references are released before the sessions.
PrepareForUnloadEarly ==
  /\ ~shuttingDown
  /\ shuttingDown' = TRUE
  /\ sceneCanvas' = [t \in Targets |-> IF Uses(<<"scene-target", t>>) THEN sceneCanvas[t] ELSE None]
  /\ vertical' = IF Uses(<<"dsk-vertical">>) THEN vertical ELSE LetGoOfVertical(vertical)
  /\ EndSessions(Running)
  /\ UNCHANGED <<config, removing, layout, persisted, unsaved>>

PrepareForUnload ==
  /\ ~shuttingDown
  /\ shuttingDown' = TRUE
  /\ EndSessions(Running)
  /\ sceneCanvas' = [t \in Targets |-> None]
  /\ vertical' = LetGoOfVertical(vertical)
  /\ UNCHANGED <<config, removing, layout, persisted, unsaved>>

-----------------------------------------------------------------------------
(* OBS: it removes no canvas and stops no video that an output draws from. *)

ObsRemovesVertical ==
  /\ vertical.canvas # None /\ ~Uses(<<"dsk-vertical">>)
  /\ vertical' = [canvas |-> None, shows |-> None,
                  held |-> IF vertical.held = "none" THEN "none" ELSE "removed"]
  /\ UNCHANGED <<config, removing, session, shuttingDown, encoders, sceneCanvas,
                 layout, persisted, unsaved>>

ObsStopsVerticalVideo ==
  /\ vertical.canvas # None /\ ~Uses(<<"dsk-vertical">>)
  /\ vertical' = [vertical EXCEPT !.canvas.video = None]
  /\ UNCHANGED <<config, removing, session, shuttingDown, encoders, sceneCanvas,
                 layout, persisted, unsaved>>

ObsTakesSceneCanvas(t) ==
  /\ sceneCanvas[t] # None /\ ~Uses(<<"scene-target", t>>)
  /\ \/ sceneCanvas' = [sceneCanvas EXCEPT ![t].removed = TRUE]
     \/ sceneCanvas' = [sceneCanvas EXCEPT ![t].video = None]
  /\ UNCHANGED <<config, removing, session, shuttingDown, encoders, vertical,
                 layout, persisted, unsaved>>

-----------------------------------------------------------------------------
\* OBS may have a canvas of that name that the plug-in did not create.
Init ==
  /\ \E stored \in SUBSET Targets : config \in [stored -> Configs]
  /\ removing = {}
  /\ session = [t \in Targets |-> None]
  /\ shuttingDown = FALSE
  /\ encoders = [k \in {} |-> None]
  /\ sceneCanvas = [t \in Targets |-> None]
  /\ vertical \in [canvas : {None} \cup [video : Videos, size : {LayoutSize[l] : l \in Layouts}, flags : {FALSE}],
                   held : {"none"}, shows : {None}]
  /\ layout \in Layouts /\ persisted = layout
  /\ unsaved = FALSE

Next ==
  \/ \E t \in Targets :
       \/ StartOnProgram(t) \/ StartOnVertical(t) \/ StartOnScene(t) \/ SessionEnds(t)
       \/ AddTarget(t) \/ RemoveTarget(t) \/ MutateTargetForUi(t) \/ SetTargetSceneMode(t)
       \/ ObsTakesSceneCanvas(t)
  \/ Save \/ EditorChanges \/ EditorSaves \/ ChangeVerticalScenes \/ HandleObsSceneChanged
  \/ ReloadForCurrentProfile \/ ChangeSceneCollection \/ ReleaseObsSceneReferences \/ PrepareForUnload
  \/ ObsRemovesVertical \/ ObsStopsVerticalVideo

Spec == Init /\ [][Next]_vars

-----------------------------------------------------------------------------
(* Properties *)

\* Types of the variables: a session has a video and, if it shares encoders,
\* a key; sets of encoders are counted; canvases and layouts are as declared.
TypeOK ==
  /\ targets \subseteq Targets /\ config \in [targets -> Configs] /\ removing \subseteq targets
  /\ session \in [Targets -> Session \cup {None}]
  /\ DOMAIN encoders \subseteq EncoderKeys /\ encoders \in [DOMAIN encoders -> EncoderSet]
  /\ sceneCanvas \in [Targets -> SceneCanvas \cup {None}]
  /\ vertical \in VerticalCanvas
  /\ layout \in Layouts /\ persisted \in Layouts
  /\ {shuttingDown, unsaved} \subseteq BOOLEAN

\* A set of encoders exists exactly while sessions use it, and counts them:
\* failed starts, stops in any order, reloads and unloading give back exactly
\* what was taken (acquireSharedEncoders, releaseSharedEncoders).
RefsAgree ==
  /\ DOMAIN encoders = {session[t].key : t \in Running} \ {None}
  /\ \A k \in DOMAIN encoders : encoders[k].refs = Cardinality(UsersIn(Targets, k))

\* What t's output would draw from if it were started now.
CurrentVideo(t) ==
  IF UsesSceneCanvas(t)
  THEN IF sceneCanvas[t] = None \/ sceneCanvas[t].removed THEN None ELSE sceneCanvas[t].video
  ELSE IF config[t].group # "vertical" THEN Program
  ELSE IF vertical.held # "current" THEN None ELSE vertical.canvas.video

\* An output encodes the canvas that the manager has for its target now: no
\* refresh, start of another output, layout change or edit replaces a canvas
\* under a running output, and no set of encoders outlives its canvas to be
\* handed to a later output (the in-use checks of both ensure functions).
EncodersDrawFromCanvas ==
  \A t \in Running :
    /\ t \in targets /\ session[t].video = CurrentVideo(t)
    /\ session[t].key # None => session[t].key = EncoderKey(t) /\ encoders[session[t].key].video = session[t].video

\* A vertical canvas of the layout's size does not show another layout, unless
\* the editor has yet to save: failed saves restore the layout on the canvas
\* too, and a canvas that could not follow, as it was in use, is not taken for
\* one that did (saveVerticalLayout, refreshVerticalCanvasScene).
VerticalNotStale ==
  vertical.held = "current" /\ ~unsaved /\ Fits(vertical.canvas, layout)
    => vertical.shows \in {layout, None}

\* A vertical output starts on a canvas of the layout's size with the layout
\* drawn on it, whatever the canvas showed before and however it was replaced
\* (videoForEncoderGroup); one that starts next to others does not change theirs.
StartsOnItsLayout ==
  [][\A t \in Targets :
       session[t] = None /\ session'[t] # None /\ t \in targets /\ config[t].group = "vertical"
         => vertical'.canvas.size = LayoutSize[layout] /\ vertical'.shows = layout]_vars

\* After unloading the plug-in keeps nothing of OBS: no session, no encoder,
\* no scene canvas, no reference to the vertical one (prepareForUnload).
NothingIsKept ==
  shuttingDown =>
    /\ Running = {} /\ DOMAIN encoders = {}
    /\ \A t \in Targets : sceneCanvas[t] = None
    /\ vertical.held = "none" /\ vertical.shows = None
=============================================================================
