-------------------------- MODULE VerticalScenes --------------------------
(***************************************************************************)
(* The vertical scenes, the links from OBS's scenes to them, and the       *)
(* editor's rows, drags and delayed saves.  LayoutManager holds the scenes *)
(* and a working copy of the active one; the file (and the manager's       *)
(* persisted copies, which agree with it) holds what was saved last.  A    *)
(* save may fail, and each operation undoes its own change then.           *)
(*                                                                         *)
(* An item is [id, form]: the form is its rectangle, fit mode and          *)
(* visibility.  Names are left out.  OBS's current scene is whatever it is *)
(* when the code reads it.                                                 *)
(***************************************************************************)
EXTENDS Naturals, SequencesExt

CONSTANTS
  SceneIds, ItemIds,
  Forms,       \* of each item: its rectangles, fit modes and visibility
  ObsScenes,   \* the scenes of OBS's collection
  None,
  Start        \* the file as first loaded

VARIABLES
  mem,         \* the manager: [scenes, layout, active, vertical, follow, links]
  file,        \* the same but for vertical
  saveTimer,   \* the editor's 250 ms run
  posted,      \* saves posted by "select" and "visibility"
  dropped,     \* the order of rows that was dropped, whose handler is posted: None or [rows, ids]
  shown,       \* the ids in the editor's rows of items
  drag         \* the row that a drag of the preview moves, 0 when it is gone, or None

editor == <<saveTimer, posted, dropped, shown, drag>>
vars   == <<mem, file, editor>>

Item  == UNION {[id : {i}, form : Forms[i]] : i \in ItemIds}
Link  == [scene : SceneIds, uuid : BOOLEAN]
IdsOf(items) == [n \in DOMAIN items |-> items[n].id]
Scenes(m)    == ToSet(m.scenes)

ItemsOf(m, s) == ToSet(IdsOf(m.layout[s]))

Saved ==
  [scenes : Seq(SceneIds), layout : [SceneIds -> Seq(Item)], active : SceneIds,
   follow : BOOLEAN, links : [ObsScenes -> Link \cup {None}]]

\* There is a scene and the active scene is one of them, no scene is listed twice,
\* no item is in two scenes or twice in one, a scene that is gone leaves no items,
\* and every link leads to a scene that exists.
Whole(m) ==
  /\ m.active \in Scenes(m) /\ IsInjective(m.scenes)
  /\ \A s \in SceneIds : IsInjective(IdsOf(m.layout[s])) /\ (s \notin Scenes(m) => m.layout[s] = << >>)
  /\ \A s, r \in SceneIds : s # r => ItemsOf(m, s) \cap ItemsOf(m, r) = {}
  /\ \A o \in ObsScenes : m.links[o] # None => m.links[o].scene \in Scenes(m)

\* Rows are dropped in the order of a drag, none twice.
Drop == {d \in [rows : {"scenes", "items"}, ids : Seq(SceneIds) \cup Seq(ItemIds)] : IsInjective(d.ids)}

ASSUME NoneAssumption == None \notin Drop

\* The program wrote the file: load takes its scenes and links as they are.
ASSUME StartAssumption == Start \in Saved /\ Whole(Start)

-----------------------------------------------------------------------------
(* LayoutManager *)

Persistent(m) ==
  [scenes |-> m.scenes, layout |-> m.layout, active |-> m.active, follow |-> m.follow, links |-> m.links]

\* initializeVerticalScenes with what is saved; links and the follow flag are as in m.
\* Faulty variant: the scene that was active stays selected.
RestoredKeepingActive(m, f) ==
  [m EXCEPT !.scenes = f.scenes, !.layout = f.layout, !.vertical = f.layout[m.active]]

Restored(m, f) ==
  [m EXCEPT !.scenes = f.scenes, !.layout = f.layout, !.active = f.active, !.vertical = f.layout[f.active]]

Loaded(f) ==
  [scenes |-> f.scenes, layout |-> f.layout, active |-> f.active, vertical |-> f.layout[f.active],
   follow |-> f.follow, links |-> f.links]

\* setVerticalLayout, with syncActiveSceneLayout
WithLayout(m, items) == [m EXCEPT !.vertical = items, !.layout[m.active] = items]

Selected(m, s) == [m EXCEPT !.active = s, !.vertical = m.layout[s]]

Created(m, s) ==
  [m EXCEPT !.scenes = Append(@, s), !.layout[s] = << >>, !.active = s, !.vertical = << >>]

\* removeVerticalScene: the scene that takes its place becomes active.
Removed(m, s) ==
  LET at   == CHOOSE n \in DOMAIN m.scenes : m.scenes[n] = s
      rest == RemoveAt(m.scenes, at)
      next == rest[IF at <= Len(rest) THEN at ELSE Len(rest)]
      kept == [m EXCEPT !.scenes = rest, !.layout[s] = << >>]
  IN IF m.active = s THEN Selected(kept, next) ELSE kept

\* Every link to a scene that is removed goes with it.
Unlinked(m, s) ==
  [m EXCEPT !.links = [o \in ObsScenes |-> IF @[o] # None /\ @[o].scene = s THEN None ELSE @[o]]]

Swapped(values, n) == [values EXCEPT ![n] = values[n + 1], ![n + 1] = values[n]]

\* reorderValuesByStableIds: the ids must be those of the values.
Reorders(ids, values) == ToSet(ids) = ToSet(values) /\ Len(ids) = Len(values)

-----------------------------------------------------------------------------
(* OutputManager: each takes the manager and the file as they are then *)

\* VerticalLayoutEditor::refreshItems, on verticalLayoutChanged
Refresh(m) ==
  LET rows == IdsOf(m.vertical)
  IN /\ shown' = rows
     /\ drag' = (IF drag = None THEN None ELSE IF rows = << >> THEN 0 ELSE IF drag \in DOMAIN rows THEN drag ELSE 1)

\* saveVerticalLayout
SaveOrRestore(m, f) ==
  \/ mem' = m /\ file' = Persistent(m)
  \/ mem' = Restored(m, f) /\ file' = f

\* Faulty variant: the rows are refreshed as if the save could not fail.
SaveRefreshedFirst(m, f) == SaveOrRestore(m, f) /\ Refresh(m)

SaveVerticalLayout(m, f) == SaveOrRestore(m, f) /\ Refresh(mem')

\* A save of what is undone when it fails.
SaveOrUndo(m) ==
  \/ mem' = m /\ file' = Persistent(m)
  \/ UNCHANGED <<mem, file>>

\* handleObsSceneChanged; o is OBS's current scene.
HandleObsSceneChanged(m, f) ==
  \E o \in ObsScenes :
    IF m.follow /\ m.links[o] # None /\ m.links[o].scene \in Scenes(m)
    THEN SaveVerticalLayout(Selected(m, m.links[o].scene), f)
    ELSE mem' = m /\ file' = f /\ Refresh(m)

\* Faulty variant: the links are not put back when the save has failed.
RemoveForgettingLinks(s) ==
  /\ s \in Scenes(mem) /\ Len(mem.scenes) > 1
  /\ LET m == Unlinked(Removed(mem, s), s)
     IN \/ mem' = m /\ file' = Persistent(m)
        \/ mem' = Restored(m, file) /\ UNCHANGED file
  /\ Refresh(mem')
  /\ UNCHANGED <<saveTimer, posted, dropped>>

RemoveVerticalScene(s) ==
  /\ s \in Scenes(mem) /\ Len(mem.scenes) > 1
  /\ LET m == Unlinked(Removed(mem, s), s)
     IN \/ mem' = m /\ file' = Persistent(m)
        \/ mem' = [Restored(m, file) EXCEPT !.links = mem.links] /\ UNCHANGED file
  /\ Refresh(mem')
  /\ UNCHANGED <<saveTimer, posted, dropped>>

\* newTargetId is an id that nothing holds.
CreateVerticalScene(s) ==
  /\ s \in SceneIds \ (Scenes(mem) \cup Scenes(file))
  /\ dropped # None => s \notin ToSet(dropped.ids)
  /\ SaveVerticalLayout(Created(mem, s), file)
  /\ UNCHANGED <<saveTimer, posted, dropped>>

RenameVerticalScene ==
  SaveVerticalLayout(mem, file) /\ UNCHANGED <<saveTimer, posted, dropped>>

MoveVerticalScene(n) ==
  /\ n \in 1 .. Len(mem.scenes) - 1
  /\ SaveVerticalLayout([mem EXCEPT !.scenes = Swapped(@, n)], file)
  /\ UNCHANGED <<saveTimer, posted, dropped>>

\* upsertSceneLink, removeSceneLink: OBS resolves the scene of a new link.
SetSceneLink(o, s) ==
  /\ SaveOrUndo([mem EXCEPT !.links[o] = IF s = None THEN None ELSE [scene |-> s, uuid |-> TRUE]])
  /\ Refresh(mem')
  /\ UNCHANGED <<saveTimer, posted, dropped>>

SetFollowObsScene ==
  /\ LET m == [mem EXCEPT !.follow = ~@]
     IN \/ UNCHANGED <<mem, file, shown, drag>>
        \/ m.follow /\ HandleObsSceneChanged(m, Persistent(m))
        \/ ~m.follow /\ mem' = m /\ file' = Persistent(m) /\ UNCHANGED <<shown, drag>>
  /\ UNCHANGED <<saveTimer, posted, dropped>>

\* refreshSceneIdentities: links of older files learn the scene's UUID.
RefreshSceneIdentities ==
  /\ \E o \in ObsScenes : mem.links[o] # None /\ ~mem.links[o].uuid
  /\ SaveOrUndo([mem EXCEPT !.links = [o \in ObsScenes |-> IF @[o] = None THEN None ELSE [@[o] EXCEPT !.uuid = TRUE]]])
  /\ IF mem' = mem THEN UNCHANGED <<shown, drag>> ELSE Refresh(mem')
  /\ UNCHANGED <<saveTimer, posted, dropped>>

\* save, for a target
OtherSave ==
  /\ SaveOrUndo(mem)
  /\ UNCHANGED editor

ReloadForCurrentProfile ==
  /\ mem' = Loaded(file) /\ UNCHANGED file
  /\ Refresh(mem')
  /\ UNCHANGED <<saveTimer, posted, dropped>>

ObsChangesScene ==
  /\ HandleObsSceneChanged(mem, file)
  /\ UNCHANGED <<saveTimer, posted, dropped>>

-----------------------------------------------------------------------------
(* The editor *)

\* saveNow
SaveNow(m) ==
  /\ SaveVerticalLayout(m, file)
  /\ saveTimer' = FALSE
  /\ UNCHANGED <<posted, dropped>>

\* Rows are those that are shown; the layout may have fewer by now.
Row(n) == n \in DOMAIN shown /\ n \in DOMAIN mem.vertical

FormsAt(n) == IF n \in DOMAIN mem.vertical THEN Forms[mem.vertical[n].id] ELSE {}

WithForm(n, form) == WithLayout(mem, [mem.vertical EXCEPT ![n].form = form])

\* Faulty variant: the scene is selected, and saved with the next change.
SelectUnsaved(s) ==
  /\ s \in Scenes(mem)
  /\ mem' = Selected(mem, s)
  /\ UNCHANGED <<file, saveTimer, posted, dropped, shown, drag>>

\* selectVerticalScene: the rows follow when the posted save has run.
SelectVerticalScene(s) ==
  /\ s \in Scenes(mem)
  /\ mem' = Selected(mem, s)
  /\ posted' = posted \cup {"select"}
  /\ UNCHANGED <<file, saveTimer, dropped, shown, drag>>

RunPostedSave(why) ==
  /\ why \in posted /\ posted' = posted \ {why}
  /\ SaveVerticalLayout(mem, file)
  /\ saveTimer' = (saveTimer /\ why # "visibility")
  /\ UNCHANGED dropped

SaveTimerFires == saveTimer /\ SaveNow(mem)

\* rowsMoved: the handler is posted with the ids as dropped.
DropRows(rows) ==
  LET ids == IF rows = "scenes" THEN mem.scenes ELSE shown
  IN /\ dropped = None
     /\ \E order \in SetToSeqs(ToSet(ids)) :
          /\ dropped' = [rows |-> rows, ids |-> order]
          /\ shown' = IF rows = "items" THEN order ELSE shown
     /\ UNCHANGED <<mem, file, saveTimer, posted, drag>>

ReorderVerticalScenes(ids) ==
  IF Reorders(ids, mem.scenes) /\ ids # mem.scenes
  THEN SaveVerticalLayout([mem EXCEPT !.scenes = ids], file)
  ELSE UNCHANGED <<mem, file>> /\ Refresh(mem)

ReorderItems(ids) ==
  LET items == mem.vertical
      At(id) == items[CHOOSE n \in DOMAIN items : items[n].id = id]
  IN IF Reorders(ids, IdsOf(items)) /\ ids # IdsOf(items)
     THEN SaveVerticalLayout(WithLayout(mem, [n \in DOMAIN ids |-> At(ids[n])]), file)
     ELSE UNCHANGED <<mem, file>> /\ Refresh(mem)

HandleDrop ==
  /\ dropped # None /\ dropped' = None
  /\ \/ dropped.rows = "scenes" /\ ReorderVerticalScenes(dropped.ids)
     \/ dropped.rows = "items" /\ ReorderItems(dropped.ids)
  /\ UNCHANGED <<saveTimer, posted>>

AddItem(i) ==
  /\ \A s \in SceneIds : i \notin ToSet(IdsOf(mem.layout[s])) /\ i \notin ToSet(IdsOf(file.layout[s]))
  /\ dropped # None => i \notin ToSet(dropped.ids)
  /\ \E form \in Forms[i] : SaveVerticalLayout(WithLayout(mem, Append(mem.vertical, [id |-> i, form |-> form])), file)
  /\ UNCHANGED <<saveTimer, posted, dropped>>

RemoveItem(n) ==
  /\ Row(n)
  /\ SaveVerticalLayout(WithLayout(mem, RemoveAt(mem.vertical, n)), file)
  /\ UNCHANGED <<saveTimer, posted, dropped>>

\* moveItemUp, moveItemDown
MoveItem(n) == Row(n) /\ Row(n + 1) /\ SaveNow(WithLayout(mem, Swapped(mem.vertical, n)))

\* fitSelectedItemToCanvas, fillSelectedItemToCanvas, setSelectedItemRect
EditItem(n, form) == Row(n) /\ form # mem.vertical[n].form /\ SaveNow(WithForm(n, form))

\* updateSelectedItem does not stop the timer.
UpdateSelectedItem(n, form) ==
  /\ Row(n) /\ form # mem.vertical[n].form /\ SaveVerticalLayout(WithForm(n, form), file)
  /\ UNCHANGED <<saveTimer, posted, dropped>>

UpdateItemVisibility(n, form) ==
  /\ Row(n) /\ form # mem.vertical[n].form
  /\ mem' = WithForm(n, form)
  /\ posted' = posted \cup {"visibility"}
  /\ UNCHANGED <<file, saveTimer, dropped, shown, drag>>

\* mousePressEvent on an item of the preview
StartDrag(n) ==
  /\ drag = None /\ n \in DOMAIN shown
  /\ drag' = n
  /\ UNCHANGED <<mem, file, saveTimer, posted, dropped, shown>>

\* mouseMoveEvent, updateItemRectFromPreview: whatever is in that row by now
Drag(form) ==
  /\ drag # None /\ Row(drag)
  /\ mem' = WithForm(drag, form)
  /\ saveTimer' = TRUE
  /\ UNCHANGED <<file, posted, dropped, shown, drag>>

\* mouseReleaseEvent
EndDrag ==
  /\ drag # None /\ drag' = None
  /\ IF Row(drag)
     THEN SaveOrRestore(mem, file) /\ shown' = IdsOf(mem'.vertical) /\ saveTimer' = FALSE
     ELSE UNCHANGED <<mem, file, shown, saveTimer>>
  /\ UNCHANGED <<posted, dropped>>

\* prepareForUnload, before OBS changes its collection of scenes: what a drag has not
\* saved is not saved.
PrepareForUnload ==
  /\ saveTimer' = FALSE
  /\ UNCHANGED <<mem, file, posted, dropped, shown, drag>>

-----------------------------------------------------------------------------
Init ==
  /\ file = Start /\ mem = Loaded(Start)
  /\ saveTimer = FALSE /\ posted = {} /\ dropped = None
  /\ shown = IdsOf(mem.vertical) /\ drag = None

ManagerStep ==
  \/ \E s \in SceneIds : CreateVerticalScene(s) \/ RemoveVerticalScene(s)
  \/ \E n \in DOMAIN mem.scenes : MoveVerticalScene(n)
  \/ \E o \in ObsScenes, s \in Scenes(mem) \cup {None} : SetSceneLink(o, s)
  \/ RenameVerticalScene \/ SetFollowObsScene \/ RefreshSceneIdentities
  \/ OtherSave \/ ReloadForCurrentProfile \/ ObsChangesScene

EditorStep ==
  \/ \E s \in SceneIds : SelectVerticalScene(s)
  \/ \E rows \in {"scenes", "items"} : DropRows(rows)
  \/ \E i \in ItemIds : AddItem(i)
  \/ \E n \in DOMAIN shown : RemoveItem(n) \/ MoveItem(n) \/ StartDrag(n)
  \/ \E n \in DOMAIN shown : \E form \in FormsAt(n) :
       EditItem(n, form) \/ UpdateSelectedItem(n, form) \/ UpdateItemVisibility(n, form)
  \/ \E form \in (IF drag = None THEN {} ELSE FormsAt(drag)) : Drag(form)
  \/ EndDrag \/ PrepareForUnload

Posted ==
  \/ HandleDrop \/ SaveTimerFires
  \/ \E why \in {"select", "visibility"} : RunPostedSave(why)

Next == ManagerStep \/ EditorStep \/ Posted

Spec == Init /\ [][Next]_vars

-----------------------------------------------------------------------------
Manager ==
  [scenes : Seq(SceneIds), layout : [SceneIds -> Seq(Item)], active : SceneIds, vertical : Seq(Item),
   follow : BOOLEAN, links : [ObsScenes -> Link \cup {None}]]

\* Every variable has its type.
TypeOK ==
  /\ mem \in Manager /\ file \in Saved
  /\ saveTimer \in BOOLEAN /\ posted \subseteq {"select", "visibility"}
  /\ dropped \in Drop \cup {None}
  /\ shown \in Seq(ItemIds) /\ drag \in Nat \cup {None}

\* In memory and in the file alike, whatever saves fail and whatever arrives late, the
\* scenes, their items and links fit together, and the working copy is the active
\* scene's layout (LayoutManager, OutputManager::removeVerticalScene,
\* saveVerticalLayout).
ScenesAreWhole ==
  /\ mem.vertical = mem.layout[mem.active]
  /\ Whole(mem) /\ Whole(file)

\* Between two events only the choice of the active scene and the form of items may
\* differ from what is saved: scenes, their order, the items in them, links
\* and the follow flag are saved with the change or the change is undone
\* (OutputManager::save and its callers' rollbacks).
OnlyEditsAwaitSaving ==
  /\ mem.scenes = file.scenes /\ mem.links = file.links /\ mem.follow = file.follow
  /\ \A s \in SceneIds : IdsOf(mem.layout[s]) = IdsOf(file.layout[s])

Unsaved     == Persistent(mem) # file
SavePending == saveTimer \/ posted # {}

\* An edit that is not in the file has a save on its way, until the save has written it
\* or has failed and taken it back; only prepareForUnload gives the save up
\* (scheduleSave, saveNow and the saves that are posted).
EditsAreSaved ==
  [][(Unsaved /\ ~SavePending)' => (Unsaved /\ ~SavePending) \/ PrepareForUnload]_vars

\* The editor's rows are the items of the active scene, in their order, but for the time
\* between the choice of another scene, or the drop of a row, and its posted
\* handler: what the user acts on by row is what he sees
\* (verticalLayoutChanged, refreshItems).
RowsAreCurrent ==
  \/ shown = IdsOf(mem.vertical)
  \/ "select" \in posted
  \/ dropped # None /\ dropped.rows = "items" /\ shown = dropped.ids
=============================================================================
