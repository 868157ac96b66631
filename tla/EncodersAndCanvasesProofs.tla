--------------------- MODULE EncodersAndCanvasesProofs ---------------------
(***************************************************************************)
(* Proofs about EncodersAndCanvases: encoders are counted, outputs draw    *)
(* from the canvas of their target, the vertical canvas is not stale, and  *)
(* nothing is kept, for every set of targets, layouts and canvases.        *)
(***************************************************************************)
EXTENDS EncodersAndCanvases, FiniteSetTheorems, TLAPS

-----------------------------------------------------------------------------
(* Settings and keys *)

LEMMA ConfigFacts ==
  ASSUME NEW c \in Configs
  PROVE  c.group \in Groups /\ c.mode \in Modes /\ c.shared \in BOOLEAN
BY CanvasAssumption

LEMMA KeyFacts ==
  ASSUME TypeOK, NEW t \in targets
  PROVE  /\ t \in Targets /\ config[t] \in Configs
         /\ CanvasKey(t) \in CanvasKeys /\ EncoderKey(t) \in EncoderKeys
         /\ EncoderKey(t)[2] = CanvasKey(t)
<1>1. t \in Targets /\ config[t] \in Configs
  BY DEF TypeOK
<1>2. CanvasKey(t) \in CanvasKeys
  BY <1>1 DEF CanvasKey, CanvasKeys
<1>3. EncoderKey(t) \in EncoderKeys
  BY <1>1, <1>2, ConfigFacts DEF EncoderKey, EncoderKeys
<1>4. EncoderKey(t)[2] = CanvasKey(t)
  BY DEF EncoderKey
<1> QED BY <1>1, <1>2, <1>3, <1>4

\* The keys of the vertical canvas, of the program and of a target's own canvas
\* are different.
LEMMA CanvasKeyFacts ==
  ASSUME NEW t, NEW u
  PROVE  /\ <<"scene-target", t>> # <<"dsk-vertical">> /\ <<"scene-target", t>> # <<"obs-program">>
         /\ <<"dsk-vertical">> # <<"obs-program">>
         /\ <<"scene-target", t>> = <<"scene-target", u>> => t = u
<1>1. DOMAIN <<"scene-target", t>> = 1 .. 2 /\ DOMAIN <<"dsk-vertical">> = 1 .. 1 /\ DOMAIN <<"obs-program">> = 1 .. 1
  OBVIOUS
<1>2. <<"dsk-vertical">>[1] = "dsk-vertical" /\ <<"obs-program">>[1] = "obs-program"
  OBVIOUS
<1>3. 2 \in 1 .. 2 /\ 2 \notin 1 .. 1
  OBVIOUS
<1>4. <<"scene-target", t>> # <<"dsk-vertical">> /\ <<"scene-target", t>> # <<"obs-program">>
  BY <1>1, <1>3, Zenon
<1>5. <<"dsk-vertical">> # <<"obs-program">>
  BY <1>2
<1> QED BY <1>4, <1>5

\* Which canvas a target uses tells its key.
LEMMA CanvasKeyIs ==
  ASSUME NEW t
  PROVE  /\ CanvasKey(t) = <<"scene-target", t>> <=> UsesSceneCanvas(t)
         /\ CanvasKey(t) = <<"dsk-vertical">> <=> ~UsesSceneCanvas(t) /\ config[t].group = "vertical"
         /\ CanvasKey(t) = <<"obs-program">> <=> ~UsesSceneCanvas(t) /\ config[t].group # "vertical"
BY CanvasKeyFacts DEF CanvasKey

-----------------------------------------------------------------------------
(* The vertical canvas *)

\* A canvas that the manager holds and OBS has not removed exists.
HeldIsReal == vertical.held = "current" => vertical.canvas # None

Real(v) == v.held = "current" => v.canvas # None

LEMMA FreeVideosAre == FreeVideos \subseteq Videos
BY DEF FreeVideos

\* What ensureVerticalCanvasVideo leaves: if it succeeds, a canvas of the
\* layout's size that shows a layout only if it was found to fit; and while a
\* vertical output runs, the canvas that it draws from.
LEMMA EnsuredVerticalIs ==
  ASSUME NEW v \in VerticalCanvas, NEW l \in Layouts, NEW e \in EnsuredVertical(v, l)
  PROVE  /\ e.ok \in BOOLEAN /\ e.left \in VerticalCanvas /\ Real(e.left)
         /\ e.ok => e.left.held = "current" /\ Fits(e.left.canvas, l)
         /\ ~e.ok => ~Fits(e.left.canvas, l) \/ e.left.shows = None \/ e.left.held = "none"
         /\ Uses(<<"dsk-vertical">>) /\ v.held = "current" /\ Real(v)
              => e.left.canvas = v.canvas /\ e.left.held = "current"
<1> DEFINE found == FoundVertical(v)
<1>0. None \notin LayoutCanvas /\ DOMAIN LayoutSize = Layouts /\ None \notin Videos
  BY CanvasAssumption
<1>1. found \in VerticalCanvas /\ found.canvas = v.canvas /\ found.shows = v.shows
      /\ found.held = IF v.canvas = None THEN "none" ELSE "current"
  BY DEF FoundVertical, VerticalCanvas
<1>2. FreshCanvases(l) \subseteq LayoutCanvas /\ \A c \in FreshCanvases(l) : Fits(c, l)
  BY <1>0, FreeVideosAre DEF FreshCanvases, LayoutCanvas, Fits
<1>3. ASSUME NEW r \in CreatedVertical(l)
      PROVE  /\ r.ok \in BOOLEAN /\ r.left \in VerticalCanvas /\ Real(r.left)
             /\ r.ok => r.left.held = "current" /\ Fits(r.left.canvas, l)
             /\ ~r.ok => r.left.held = "none"
  <2>1. CASE r \in Succeeds([canvas : FreshCanvases(l), held : {"current"}, shows : {None}])
    <3>1. PICK x \in [canvas : FreshCanvases(l), held : {"current"}, shows : {None}] : r = [ok |-> TRUE, left |-> x]
      BY <2>1 DEF Succeeds
    <3>2. x.canvas \in LayoutCanvas /\ Fits(x.canvas, l) /\ x.canvas # None /\ x.held = "current"
      BY <1>0, <1>2, <3>1
    <3>3. x \in VerticalCanvas
      BY <1>2, <3>1 DEF VerticalCanvas
    <3> QED BY <3>1, <3>2, <3>3 DEF Real
  <2>2. CASE r \in Fails({NoVertical})
    <3>1. r.ok = FALSE /\ r.left = NoVertical
      BY <2>2 DEF Fails
    <3>2. NoVertical.held = "none" /\ NoVertical \in VerticalCanvas
      BY DEF NoVertical, VerticalCanvas
    <3> QED BY <3>1, <3>2 DEF Real
  <2> QED BY <2>1, <2>2 DEF CreatedVertical
<1>4. CASE found.canvas = None
  <2>1. e \in CreatedVertical(l)
    BY <1>4 DEF EnsuredVertical
  <2> QED BY <2>1, <1>3, <1>4, <1>1 DEF Real
<1>5. CASE found.canvas # None /\ Fits(found.canvas, l)
  <2>1. e \in Succeeds({found})
    BY <1>5 DEF EnsuredVertical
  <2>2. e.ok = TRUE /\ e.left = found
    BY <2>1 DEF Succeeds
  <2> QED BY <2>2, <1>1, <1>5 DEF Real
<1>6. CASE found.canvas # None /\ ~Fits(found.canvas, l) /\ Uses(<<"dsk-vertical">>)
  <2>1. e \in Fails({found})
    BY <1>6 DEF EnsuredVertical
  <2>2. e.ok = FALSE /\ e.left = found
    BY <2>1 DEF Fails
  <2> QED BY <2>2, <1>1, <1>6 DEF Real
<1>7. CASE found.canvas # None /\ ~Fits(found.canvas, l) /\ ~Uses(<<"dsk-vertical">>)
  <2>0. e \in ResetVertical(found, l) \/ e \in ReplacedVertical(found, l)
    BY <1>7 DEF EnsuredVertical
  <2>1. CASE e \in ResetVertical(found, l)
    <3>1. PICK c \in FreshCanvases(l) : e = [ok |-> TRUE, left |-> [found EXCEPT !.canvas = c]]
      BY <2>1 DEF ResetVertical, Succeeds
    <3>2. c \in LayoutCanvas /\ Fits(c, l) /\ c # None
      BY <1>0, <1>2
    <3>3. e.left \in VerticalCanvas /\ e.left.canvas = c /\ e.left.held = "current" /\ e.ok = TRUE
      BY <3>1, <3>2, <1>1, <1>7 DEF VerticalCanvas
    <3> QED BY <3>2, <3>3, <1>7 DEF Real
  <2>2. CASE e \in ReplacedVertical(found, l)
    <3>1. CASE e \in CreatedVertical(l)
      BY <3>1, <1>3, <1>7
    <3>2. CASE e \in Fails({[found EXCEPT !.shows = None]})
      <4>1. e.ok = FALSE /\ e.left = [found EXCEPT !.shows = None]
        BY <3>2 DEF Fails
      <4>2. e.left \in VerticalCanvas /\ e.left.canvas # None /\ e.left.shows = None
        BY <4>1, <1>1, <1>7 DEF VerticalCanvas
      <4> QED BY <4>1, <4>2, <1>7 DEF Real
    <3> QED BY <2>2, <3>1, <3>2 DEF ReplacedVertical
  <2> QED BY <2>0, <2>1, <2>2
<1> QED BY <1>4, <1>5, <1>6, <1>7

\* What videoForEncoderGroup and a refresh leave: the layout drawn, or a canvas
\* of another size, or one that shows nothing.
LEMMA ShownVerticalIs ==
  ASSUME NEW v \in VerticalCanvas, NEW l \in Layouts, NEW e \in ShownVertical(v, l)
  PROVE  /\ e.ok \in BOOLEAN /\ e.left \in VerticalCanvas /\ Real(e.left)
         /\ e.ok => e.left.held = "current" /\ Fits(e.left.canvas, l) /\ e.left.shows = l
         /\ e.left.held = "current" /\ Fits(e.left.canvas, l) => e.left.shows \in {l, None}
         /\ Uses(<<"dsk-vertical">>) /\ v.held = "current" /\ Real(v)
              => e.left.canvas = v.canvas /\ e.left.held = "current"
<1>1. PICK d \in EnsuredVertical(v, l) : e \in IF d.ok THEN Rebuilt(d.left, l) ELSE {d}
  BY DEF ShownVertical
<1>2. /\ d.ok \in BOOLEAN /\ d.left \in VerticalCanvas /\ Real(d.left)
      /\ d.ok => d.left.held = "current" /\ Fits(d.left.canvas, l)
      /\ ~d.ok => ~Fits(d.left.canvas, l) \/ d.left.shows = None \/ d.left.held = "none"
      /\ Uses(<<"dsk-vertical">>) /\ v.held = "current" /\ Real(v)
              => d.left.canvas = v.canvas /\ d.left.held = "current"
  BY EnsuredVerticalIs
<1>3. CASE ~d.ok
  BY <1>1, <1>2, <1>3
<1>4. CASE d.ok
  <2>1. CASE e \in Succeeds({[d.left EXCEPT !.shows = l]})
    <3>1. e.ok = TRUE /\ e.left = [d.left EXCEPT !.shows = l]
      BY <2>1 DEF Succeeds
    <3>2. /\ e.left \in VerticalCanvas /\ e.left.canvas = d.left.canvas /\ e.left.held = d.left.held
          /\ e.left.shows = l
      BY <3>1, <1>2 DEF VerticalCanvas
    <3> QED BY <3>1, <3>2, <1>2, <1>4 DEF Real
  <2>2. CASE d.left.shows = None /\ e \in Fails({d.left})
    <3>1. e.ok = FALSE /\ e.left = d.left
      BY <2>2 DEF Fails
    <3> QED BY <3>1, <1>2, <2>2
  <2> QED BY <1>1, <1>4, <2>1, <2>2 DEF Rebuilt
<1> QED BY <1>2, <1>3, <1>4

\* refreshVerticalCanvasScene keeps the canvas under a running output, and
\* leaves no other layout on a canvas that fits.
LEMMA RefreshedVerticalIs ==
  ASSUME NEW v \in VerticalCanvas, Real(v), NEW l \in Layouts, NEW w \in RefreshedVertical(v, l)
  PROVE  /\ w \in VerticalCanvas /\ Real(w)
         /\ w.held = "current" /\ Fits(w.canvas, l) => w.shows \in {l, None}
         /\ Uses(<<"dsk-vertical">>) /\ v.held = "current" => w.canvas = v.canvas /\ w.held = "current"
<1>1. CASE v.held = "none"
  BY <1>1 DEF RefreshedVertical
<1>2. CASE v.held # "none"
  <2>1. PICK e \in ShownVertical(v, l) : w = e.left
    BY <1>2 DEF RefreshedVertical
  <2> QED BY <2>1, ShownVerticalIs
<1> QED BY <1>1, <1>2

-----------------------------------------------------------------------------
(* The canvases of scenes *)

LEMMA Succeeding ==
  ASSUME NEW S, NEW r \in Succeeds(S)
  PROVE  r.ok = TRUE /\ r.left \in S
BY DEF Succeeds

LEMMA Failing ==
  ASSUME NEW x, NEW r \in Fails({x})
  PROVE  r.ok = FALSE /\ r.left = x
BY DEF Fails

\* A canvas that an output can draw from.
Drawable(c) == c # None /\ ~c.removed /\ c.video # None

\* What ensureSceneCanvasForTarget leaves, and that it leaves alone a canvas
\* that a session draws from.
LEMMA EnsuredSceneIs ==
  ASSUME NEW t, NEW c \in SceneCanvas \cup {None}, NEW e \in EnsuredScene(t, c)
  PROVE  /\ e.ok \in BOOLEAN /\ e.left \in SceneCanvas \cup {None}
         /\ e.ok => e.left # None /\ ~e.left.removed /\ e.left.video \in Videos
         /\ Drawable(c) /\ e.ok => e.left = c
         /\ Drawable(c) /\ Uses(CanvasKey(t)) => e.left = c
<1> DEFINE known == IF c # None /\ c.removed THEN None ELSE c
<1>0. None \notin SceneCanvas /\ None \notin Videos
  BY CanvasAssumption
<1>1. ASSUME NEW x \in [video : FreeVideos, removed : {FALSE}]
      PROVE  x \in SceneCanvas /\ x # None /\ ~x.removed /\ x.video \in Videos
  BY <1>0, FreeVideosAre DEF SceneCanvas
<1>2. known \in SceneCanvas \cup {None} /\ (known # None => known = c /\ ~c.removed) /\ (Drawable(c) => known = c)
  BY DEF Drawable
<1>3. ASSUME NEW r \in Succeeds([video : FreeVideos, removed : {FALSE}])
      PROVE  r.ok = TRUE /\ r.left \in SceneCanvas /\ r.left # None /\ ~r.left.removed /\ r.left.video \in Videos
  <2>1. r.ok = TRUE /\ r.left \in [video : FreeVideos, removed : {FALSE}]
    BY Succeeding
  <2> QED BY <2>1, <1>1
<1>4. ASSUME NEW r \in CreatedScene
      PROVE  /\ r.ok \in BOOLEAN /\ r.left \in SceneCanvas \cup {None}
             /\ r.ok => r.left # None /\ ~r.left.removed /\ r.left.video \in Videos
  <2>1. CASE r \in Succeeds([video : FreeVideos, removed : {FALSE}])
    BY <2>1, <1>3
  <2>2. CASE r \in Fails({None})
    <3>1. r.ok = FALSE /\ r.left = None
      BY <2>2, Failing
    <3> QED BY <3>1
  <2> QED BY <2>1, <2>2 DEF CreatedScene
<1>5. CASE e \in Fails({c})
  <2>1. e.ok = FALSE /\ e.left = c
    BY <1>5, Failing
  <2> QED BY <2>1
<1>6. CASE e \notin Fails({c}) /\ known = None
  <2>1. e \in CreatedScene
    BY <1>6 DEF EnsuredScene
  <2> QED BY <2>1, <1>4, <1>2, <1>6 DEF Drawable
<1>7. CASE e \notin Fails({c}) /\ known # None /\ known.video # None
  <2>1. e \in Succeeds({known})
    BY <1>7 DEF EnsuredScene
  <2>2. e.ok = TRUE /\ e.left = known
    BY <2>1 DEF Succeeds
  <2> QED BY <2>2, <1>2, <1>7 DEF SceneCanvas
<1>8. CASE e \notin Fails({c}) /\ known # None /\ known.video = None
  <2>1. ~Drawable(c)
    BY <1>8, <1>2 DEF Drawable
  <2>2. e \in Fails({known}) \/ e \in Succeeds([video : FreeVideos, removed : {FALSE}]) \/ e \in CreatedScene
    BY <1>8 DEF EnsuredScene, ReplacedScene
  <2>3. CASE e \in Fails({known})
    <3>1. e.ok = FALSE /\ e.left = known
      BY <2>3, Failing
    <3> QED BY <3>1, <2>1, <1>2
  <2> QED BY <2>1, <2>2, <2>3, <1>3, <1>4
<1> QED BY <1>5, <1>6, <1>7, <1>8

\* refreshLinkedSceneCanvases leaves alone the canvases that outputs draw from,
\* and those of every target that is not linked.
LEMMA RefreshedLinkedIs ==
  ASSUME NEW canvases \in [Targets -> SceneCanvas \cup {None}], NEW A, NEW f \in RefreshedLinked(canvases, A)
  PROVE  /\ f \in [Targets -> SceneCanvas \cup {None}]
         /\ \A t \in Targets : Drawable(canvases[t]) /\ Uses(CanvasKey(t)) => f[t] = canvases[t]
<1> DEFINE after(t) == IF t \in A \cap Linked THEN {e.left : e \in EnsuredScene(t, canvases[t])} ELSE {canvases[t]}
<1>1. f \in [Targets -> UNION {after(t) : t \in Targets}] /\ \A t \in Targets : f[t] \in after(t)
  BY DEF RefreshedLinked
<1>2. ASSUME NEW t \in Targets
      PROVE  /\ f[t] \in SceneCanvas \cup {None}
             /\ Drawable(canvases[t]) /\ Uses(CanvasKey(t)) => f[t] = canvases[t]
  <2>0. f[t] \in after(t) /\ canvases[t] \in SceneCanvas \cup {None}
    BY <1>1
  <2>1. CASE t \in A \cap Linked
    <3>1. PICK e \in EnsuredScene(t, canvases[t]) : f[t] = e.left
      BY <2>0, <2>1
    <3> QED BY <3>1, <2>0, EnsuredSceneIs
  <2>2. CASE t \notin A \cap Linked
    BY <2>0, <2>2
  <2> QED BY <2>1, <2>2
<1> HIDE DEF after
<1> QED BY <1>1, <1>2

-----------------------------------------------------------------------------
(* Shared encoders *)

LEMMA UsersAreFinite ==
  ASSUME NEW S \in SUBSET Targets, NEW k
  PROVE  IsFiniteSet(UsersIn(S, k)) /\ Cardinality(UsersIn(S, k)) \in Nat
BY CanvasAssumption, FS_Subset, FS_CardinalityType DEF UsersIn

LEMMA EncoderTypes ==
  ASSUME TypeOK, NEW k \in DOMAIN encoders
  PROVE  /\ k \in EncoderKeys /\ k # None /\ encoders[k] \in EncoderSet
         /\ encoders[k].refs \in Nat \ {0} /\ encoders[k].video \in Videos \cup {Program}
BY CanvasAssumption DEF TypeOK, EncoderSet

LEMMA EncoderSetIs ==
  ASSUME NEW a \in EncoderSet, NEW b \in EncoderSet, NEW n, a.video = b.video, a.refs - n = b.refs
  PROVE  [a EXCEPT !.refs = @ - n] = b
BY DEF EncoderSet

\* What acquireSharedEncoders took is exactly what releaseSharedEncoders gives
\* back when the start fails.
LEMMA AcquiredIsGivenBack ==
  ASSUME TypeOK, NEW key \in EncoderKeys, NEW video \in Videos \cup {Program},
         NEW acquired, acquired = Acquired(key, video)
  PROVE  Released(acquired, [k \in DOMAIN acquired |-> IF k = key THEN 1 ELSE 0]) = encoders
<1> DEFINE once     == [k \in DOMAIN acquired |-> IF k = key THEN 1 ELSE 0]
           kept     == {j \in DOMAIN acquired : acquired[j].refs > once[j]}
<1>0. encoders \in [DOMAIN encoders -> EncoderSet]
  BY DEF TypeOK
<1>1. DOMAIN acquired = DOMAIN encoders \cup {key}
  BY DEF Acquired
<1>2. ASSUME NEW k \in DOMAIN encoders
      PROVE  k \in kept /\ [acquired[k] EXCEPT !.refs = @ - once[k]] = encoders[k]
  <2>1. encoders[k] \in EncoderSet /\ encoders[k].refs \in Nat \ {0}
    BY EncoderTypes
  <2>2. CASE k = key
    <3>1. acquired[k] = [encoders[k] EXCEPT !.refs = @ + 1] /\ once[k] = 1
      BY <2>2, <1>1 DEF Acquired
    <3>2. acquired[k].refs = encoders[k].refs + 1 /\ acquired[k].video = encoders[k].video
      BY <3>1, <2>1 DEF EncoderSet
    <3>3. acquired[k] \in EncoderSet
      BY <3>1, <2>1 DEF EncoderSet
    <3>a. acquired[k].refs - 1 = encoders[k].refs
      BY <3>2, <2>1
    <3>b. [acquired[k] EXCEPT !.refs = @ - 1] = encoders[k]
      BY <3>a, <3>2, <3>3, <2>1, EncoderSetIs
    <3>4. [acquired[k] EXCEPT !.refs = @ - once[k]] = encoders[k]
      BY <3>1, <3>b
    <3>5. acquired[k].refs > once[k]
      BY <3>1, <3>2, <2>1
    <3> QED BY <3>4, <3>5, <2>1, <1>1 DEF EncoderSet
  <2>3. CASE k # key
    <3>1. acquired[k] = encoders[k] /\ once[k] = 0
      BY <2>3, <1>1 DEF Acquired
    <3> QED BY <3>1, <2>1, <1>1 DEF EncoderSet
  <2> QED BY <2>2, <2>3
<1>3. ASSUME key \notin DOMAIN encoders
      PROVE  key \notin kept
  <2>1. acquired[key].refs = 1 /\ once[key] = 1
    BY <1>1, <1>3 DEF Acquired
  <2> QED BY <2>1
<1>4. kept = DOMAIN encoders
  BY <1>1, <1>2, <1>3
<1>5. Released(acquired, once) = [k \in kept |-> [acquired[k] EXCEPT !.refs = @ - once[k]]]
  BY DEF Released
<1> HIDE DEF once, kept
<1>6. Released(acquired, once) = encoders
  BY <1>0, <1>2, <1>4, <1>5
<1> QED BY <1>6 DEF once

\* A start gives a session the set of encoders of its key, or one of its own,
\* and RefsAgree stays true; no running session loses its set or its video.
LEMMA BeginsIs ==
  ASSUME TypeOK, RefsAgree, NEW t \in targets, session[t] = None, NEW video \in Videos \cup {Program},
         EncoderKey(t) \in DOMAIN encoders => encoders[EncoderKey(t)].video = video,
         Begins(t, video)
  PROVE  /\ session' \in [Targets -> Session \cup {None}]
         /\ DOMAIN encoders' \subseteq EncoderKeys /\ encoders' \in [DOMAIN encoders' -> EncoderSet]
         /\ RefsAgree'
         /\ \A u \in Targets \ {t} : session'[u] = session[u]
         /\ session'[t] # None =>
              /\ session'[t].video = video
              /\ session'[t].key # None => session'[t].key = EncoderKey(t) /\ encoders'[session'[t].key].video = video
         /\ \A k \in DOMAIN encoders : k \in DOMAIN encoders' /\ encoders'[k].video = encoders[k].video
<1> DEFINE key == EncoderKey(t)
<1>0. /\ t \in Targets /\ key \in EncoderKeys /\ key # None /\ None \notin Session /\ Session \cap {None} = {}
      /\ session \in [Targets -> Session \cup {None}]
      /\ DOMAIN encoders \subseteq EncoderKeys /\ encoders \in [DOMAIN encoders -> EncoderSet]
  BY KeyFacts, CanvasAssumption DEF TypeOK
<1>1. CASE UNCHANGED <<session, encoders>>
  <2>1. RefsAgree'
    BY <1>1 DEF RefsAgree, Running, UsersIn
  <2> QED BY <2>1, <1>1, <1>0
<1>2. ASSUME NEW s \in Session, session' = [session EXCEPT ![t] = s]
      PROVE  /\ session' \in [Targets -> Session \cup {None}]
             /\ \A u \in Targets \ {t} : session'[u] = session[u]
             /\ session'[t] = s /\ s # None
             /\ Running' = Running \cup {t}
             /\ {session'[u].key : u \in Running'} = {session[u].key : u \in Running} \cup {s.key}
             /\ \A k : UsersIn(Targets, k)' = IF k = s.key THEN UsersIn(Targets, k) \cup {t} ELSE UsersIn(Targets, k)
             /\ \A k : t \notin UsersIn(Targets, k)
  <2>1. /\ session' \in [Targets -> Session \cup {None}]
        /\ \A u \in Targets \ {t} : session'[u] = session[u]
        /\ session'[t] = s /\ s # None
    BY <1>0, <1>2
  <2>2. Running' = Running \cup {t} /\ t \notin Running
    BY <2>1, <1>0 DEF Running
  <2>3. {session'[u].key : u \in Running'} = {session[u].key : u \in Running} \cup {s.key}
    <3>1. \A u \in Running : u \in Targets \ {t}
      BY <2>2 DEF Running
    <3> QED BY <3>1, <2>1, <2>2
  <2>4. \A k : UsersIn(Targets, k)' = IF k = s.key THEN UsersIn(Targets, k) \cup {t} ELSE UsersIn(Targets, k)
    BY <2>1, <1>0 DEF UsersIn
  <2>5. \A k : t \notin UsersIn(Targets, k)
    BY DEF UsersIn
  <2> QED BY <2>1, <2>2, <2>3, <2>4, <2>5
<1>3. CASE ~config[t].shared
  <2>1. encoders' = encoders
    BY <1>3 DEF Begins
  <2>2. CASE session' = session
    BY <2>1, <2>2, <1>1
  <2>3. CASE session' = [session EXCEPT ![t] = [video |-> video, key |-> None]]
    <3>1. PICK s : s = [video |-> video, key |-> None]
      OBVIOUS
    <3>2. s \in Session /\ session' = [session EXCEPT ![t] = s] /\ s.key = None /\ s.video = video
      BY <3>1, <2>3 DEF Session
    <3>3. /\ session' \in [Targets -> Session \cup {None}]
          /\ \A u \in Targets \ {t} : session'[u] = session[u]
          /\ session'[t] = s
          /\ {session'[u].key : u \in Running'} = {session[u].key : u \in Running} \cup {None}
          /\ \A k : k # None => UsersIn(Targets, k)' = UsersIn(Targets, k)
      BY <3>2, <1>2
    <3>4. RefsAgree'
      <4>1. \A k \in DOMAIN encoders : k # None
        BY EncoderTypes
      <4> QED BY <4>1, <3>3, <2>1 DEF RefsAgree
    <3> QED BY <3>2, <3>3, <3>4, <2>1, <1>0
  <2> QED BY <1>3, <2>2, <2>3 DEF Begins
<1>4. CASE config[t].shared
  <2>1. PICK acquired : acquired = Acquired(key, video)
    OBVIOUS
  <2>2. CASE session' = session /\ encoders' = Released(acquired, [k \in DOMAIN acquired |-> IF k = key THEN 1 ELSE 0])
    <3>1. Released(acquired, [k \in DOMAIN acquired |-> IF k = key THEN 1 ELSE 0]) = encoders
      BY <1>0, <2>1, AcquiredIsGivenBack
    <3> QED BY <3>1, <2>2, <1>1
  <2>3. CASE encoders' = acquired /\ session' = [session EXCEPT ![t] = [video |-> acquired[key].video, key |-> key]]
    <3>1. /\ DOMAIN encoders' = DOMAIN encoders \cup {key}
          /\ \A k \in DOMAIN encoders \ {key} : encoders'[k] = encoders[k]
          /\ key \in DOMAIN encoders => encoders'[key] = [encoders[key] EXCEPT !.refs = @ + 1]
          /\ key \notin DOMAIN encoders => encoders'[key] = [refs |-> 1, video |-> video]
          /\ encoders' = [k \in DOMAIN encoders' |-> encoders'[k]]
      BY <2>1, <2>3 DEF Acquired
    <3>2. /\ key \in DOMAIN encoders => encoders'[key].refs = encoders[key].refs + 1
          /\ key \notin DOMAIN encoders => encoders'[key].refs = 1
          /\ encoders'[key].video = video /\ encoders'[key] \in EncoderSet
      <4>1. CASE key \in DOMAIN encoders
        <5>1. encoders[key] \in EncoderSet /\ encoders[key].refs \in Nat \ {0} /\ encoders[key].video = video
          BY <4>1, EncoderTypes
        <5>2. encoders'[key] = [encoders[key] EXCEPT !.refs = @ + 1]
          BY <4>1, <3>1
        <5> HIDE DEF key
        <5> QED BY <4>1, <5>1, <5>2 DEF EncoderSet
      <4>2. CASE key \notin DOMAIN encoders
        <5>2. encoders'[key] = [refs |-> 1, video |-> video]
          BY <4>2, <3>1
        <5> HIDE DEF key
        <5> QED BY <4>2, <5>2 DEF EncoderSet
      <4> QED BY <4>1, <4>2
    <3>3. PICK s : s = [video |-> acquired[key].video, key |-> key]
      OBVIOUS
    <3>4. s \in Session /\ s.key = key /\ s.video = video /\ session' = [session EXCEPT ![t] = s]
      <4>1. acquired[key].video = video
        BY <3>2, <2>3
      <4> QED BY <4>1, <3>3, <2>3, <1>0 DEF Session
    <3>5. /\ session' \in [Targets -> Session \cup {None}]
          /\ \A u \in Targets \ {t} : session'[u] = session[u]
          /\ session'[t] = s
          /\ {session'[u].key : u \in Running'} = {session[u].key : u \in Running} \cup {key}
          /\ \A k : UsersIn(Targets, k)' = IF k = key THEN UsersIn(Targets, k) \cup {t} ELSE UsersIn(Targets, k)
          /\ \A k : t \notin UsersIn(Targets, k)
      BY <3>4, <1>2
    <3>6. DOMAIN encoders' = {session'[u].key : u \in Running'} \ {None}
      <4> HIDE DEF key
      <4> QED BY <3>5, <3>1, <1>0 DEF RefsAgree
    <3>7. ASSUME NEW k \in DOMAIN encoders'
          PROVE  encoders'[k].refs = Cardinality(UsersIn(Targets, k)')
      <4>1. CASE k # key
        <5>1. k \in DOMAIN encoders
          BY <4>1, <3>1
        <5>2. encoders'[k].refs = encoders[k].refs /\ UsersIn(Targets, k)' = UsersIn(Targets, k)
          BY <5>1, <4>1, <3>1, <3>5
        <5> QED BY <5>1, <5>2 DEF RefsAgree
      <4>2. CASE k = key
        <5>1. Cardinality(UsersIn(Targets, k)') = Cardinality(UsersIn(Targets, k)) + 1
          <6>1. PICK U : U = UsersIn(Targets, k)
            OBVIOUS
          <6>2. IsFiniteSet(U) /\ t \notin U /\ UsersIn(Targets, k)' = U \cup {t}
            BY <6>1, <4>2, <3>5, UsersAreFinite
          <6>3. Cardinality(U \cup {t}) = Cardinality(U) + 1
            BY <6>2, FS_AddElement
          <6> HIDE DEF key
          <6> QED BY <6>1, <6>2, <6>3
        <5>2. CASE key \in DOMAIN encoders
          BY <5>1, <5>2, <4>2, <3>2 DEF RefsAgree
        <5>3. CASE key \notin DOMAIN encoders
          <6>1. UsersIn(Targets, key) = {}
            BY <5>3, <1>0 DEF RefsAgree, UsersIn, Running
          <6> QED BY <6>1, <5>1, <5>3, <4>2, <3>2, FS_EmptySet
        <5> QED BY <5>2, <5>3
      <4> QED BY <4>1, <4>2
    <3>8. RefsAgree'
      BY <3>6, <3>7 DEF RefsAgree
    <3>9. DOMAIN encoders' \subseteq EncoderKeys /\ encoders' \in [DOMAIN encoders' -> EncoderSet]
      <4>1. \A k \in DOMAIN encoders' : encoders'[k] \in EncoderSet
        BY <3>1, <3>2, <1>0
      <4> QED BY <4>1, <3>1, <1>0
    <3>10. \A k \in DOMAIN encoders : k \in DOMAIN encoders' /\ encoders'[k].video = encoders[k].video
      BY <3>1, <3>2
    <3> QED BY <3>2, <3>4, <3>5, <3>8, <3>9, <3>10
  <2> QED BY <1>4, <2>1, <2>2, <2>3, <1>1 DEF Begins
<1> QED BY <1>3, <1>4

\* Sessions that end give back the sets of encoders they hold, once each.
LEMMA EndSessionsIs ==
  ASSUME TypeOK, RefsAgree, NEW S \in SUBSET Targets, EndSessions(S)
  PROVE  /\ session' \in [Targets -> Session \cup {None}]
         /\ DOMAIN encoders' \subseteq DOMAIN encoders /\ encoders' \in [DOMAIN encoders' -> EncoderSet]
         /\ RefsAgree'
         /\ Running' = Running \ S
         /\ \A u \in Targets : session'[u] = IF u \in S THEN None ELSE session[u]
         /\ \A k \in DOMAIN encoders' : encoders'[k].video = encoders[k].video
<1> DEFINE n == [k \in DOMAIN encoders |-> Cardinality(UsersIn(S, k))]
<1>0. /\ session \in [Targets -> Session \cup {None}]
      /\ DOMAIN encoders \subseteq EncoderKeys /\ encoders \in [DOMAIN encoders -> EncoderSet]
  BY DEF TypeOK
<1>1. \A u \in Targets : session'[u] = IF u \in S THEN None ELSE session[u]
  BY DEF EndSessions
<1>2. session' \in [Targets -> Session \cup {None}]
  BY <1>0 DEF EndSessions
<1>3. Running' = Running \ S
  BY <1>1 DEF Running
<1>4. \A k : UsersIn(Targets, k)' = UsersIn(Targets, k) \ UsersIn(S, k)
  BY <1>1 DEF UsersIn
<1>5. ASSUME NEW k \in DOMAIN encoders
      PROVE  /\ encoders[k].refs - n[k] = Cardinality(UsersIn(Targets, k)') /\ n[k] \in Nat
             /\ encoders[k].refs > n[k] <=> UsersIn(Targets, k)' # {}
  <2>1. PICK U, W : U = UsersIn(Targets, k) /\ W = UsersIn(S, k)
    OBVIOUS
  <2>2. IsFiniteSet(U) /\ IsFiniteSet(W) /\ W \subseteq U /\ Cardinality(W) \in Nat
    BY <2>1, UsersAreFinite DEF UsersIn
  <2>3. U \ W \subseteq U /\ IsFiniteSet(U \ W)
    BY <2>2, FS_Difference
  <2>4. Cardinality(U \ W) = Cardinality(U) - Cardinality(W) /\ Cardinality(U \ W) \in Nat
    <3>1. Cardinality(U \ W) = Cardinality(U) - Cardinality(U \cap W)
      BY <2>2, FS_Difference
    <3>2. U \cap W = W
      BY <2>2
    <3> QED BY <3>1, <3>2, <2>3, FS_CardinalityType
  <2>5. Cardinality(U \ W) = 0 <=> U \ W = {}
    BY <2>3, FS_EmptySet
  <2>6. encoders[k].refs = Cardinality(U) /\ n[k] = Cardinality(W) /\ Cardinality(U) \in Nat
    BY <2>1, <2>2, FS_CardinalityType DEF RefsAgree
  <2>7. UsersIn(Targets, k)' = U \ W
    BY <2>1, <1>4
  <2> HIDE DEF n
  <2> QED BY <2>2, <2>4, <2>5, <2>6, <2>7
<1>6. DOMAIN encoders' = {k \in DOMAIN encoders : encoders[k].refs > n[k]}
  BY DEF EndSessions, Released
<1>7. ASSUME NEW k \in DOMAIN encoders'
      PROVE  /\ k \in DOMAIN encoders /\ encoders'[k] = [encoders[k] EXCEPT !.refs = @ - n[k]]
             /\ encoders'[k] \in EncoderSet /\ encoders'[k].video = encoders[k].video
             /\ encoders'[k].refs = Cardinality(UsersIn(Targets, k)')
  <2>1. k \in DOMAIN encoders /\ encoders[k].refs > n[k]
    BY <1>6
  <2>2. encoders'[k] = [encoders[k] EXCEPT !.refs = @ - n[k]]
    BY <2>1 DEF EndSessions, Released
  <2>3. encoders[k] \in EncoderSet /\ encoders[k].refs \in Nat /\ n[k] \in Nat
    BY <2>1, <1>5, EncoderTypes
  <2>4. encoders'[k] \in EncoderSet /\ encoders'[k].video = encoders[k].video
        /\ encoders'[k].refs = encoders[k].refs - n[k]
    <3> HIDE DEF n
    <3> QED BY <2>1, <2>2, <2>3 DEF EncoderSet
  <2> HIDE DEF n
  <2> QED BY <2>1, <2>2, <2>4, <1>5
<1>8. encoders' \in [DOMAIN encoders' -> EncoderSet]
  <2>1. encoders' = [k \in DOMAIN encoders' |-> encoders'[k]]
    BY DEF EndSessions, Released
  <2> QED BY <2>1, <1>7
<1>9. DOMAIN encoders' = {session'[t].key : t \in Running'} \ {None}
  <2>1. ASSUME NEW k \in DOMAIN encoders'
        PROVE  k # None /\ \E t \in Running' : session'[t].key = k
    <3>1. k \in DOMAIN encoders /\ UsersIn(Targets, k)' # {}
      BY <1>5, <1>6
    <3>2. PICK t \in Targets : session'[t] # None /\ session'[t].key = k
      BY <3>1 DEF UsersIn
    <3> QED BY <3>1, <3>2, EncoderTypes DEF Running
  <2>2. ASSUME NEW t \in Running', session'[t].key # None
        PROVE  session'[t].key \in DOMAIN encoders'
    <3>1. t \in Running /\ t \notin S /\ t \in Targets /\ session'[t] = session[t]
      BY <1>1, <1>3 DEF Running
    <3>2. PICK k : k = session[t].key
      OBVIOUS
    <3>3. k \in DOMAIN encoders
      BY <3>1, <3>2, <2>2 DEF RefsAgree
    <3>4. t \in UsersIn(Targets, k)'
      BY <3>1, <3>2 DEF UsersIn, Running
    <3> QED BY <3>1, <3>2, <3>3, <3>4, <1>5, <1>6
  <2> QED BY <2>1, <2>2
<1>10. RefsAgree'
  BY <1>7, <1>9 DEF RefsAgree
<1> QED BY <1>1, <1>2, <1>3, <1>7, <1>8, <1>10

-----------------------------------------------------------------------------
(* What running outputs draw from *)

Draws(t) ==
  /\ t \in targets /\ session[t].video = CurrentVideo(t)
  /\ session[t].key # None => session[t].key = EncoderKey(t) /\ encoders[session[t].key].video = session[t].video

\* A running output's canvas is there, and found to be in use.
LEMMA DrawingIs ==
  ASSUME TypeOK, HeldIsReal, RefsAgree, EncodersDrawFromCanvas, NEW t \in Running
  PROVE  /\ t \in Targets /\ t \in targets /\ session[t] # None /\ session[t] \in Session /\ Draws(t)
         /\ Uses(CanvasKey(t))
         /\ UsesSceneCanvas(t) => Drawable(sceneCanvas[t]) /\ session[t].video = sceneCanvas[t].video
         /\ ~UsesSceneCanvas(t) /\ config[t].group = "vertical" =>
              vertical.held = "current" /\ vertical.canvas # None /\ session[t].video = vertical.canvas.video
         /\ ~UsesSceneCanvas(t) /\ config[t].group # "vertical" => session[t].video = Program
         /\ session[t].key # None => session[t].key \in DOMAIN encoders
<1>1. t \in Targets /\ session[t] # None /\ session[t] \in Session /\ Draws(t) /\ t \in targets
  BY DEF Running, TypeOK, EncodersDrawFromCanvas, Draws
<1>2. session[t].video # None
  BY <1>1, CanvasAssumption DEF Session
<1>3. Uses(CanvasKey(t))
  BY <1>1 DEF Uses
<1>4. session[t].key # None => session[t].key \in DOMAIN encoders
  BY DEF RefsAgree
<1> QED BY <1>1, <1>2, <1>3, <1>4 DEF Draws, CurrentVideo, Drawable, HeldIsReal

\* A running output goes on drawing from its canvas if a step leaves its
\* settings, its session, its canvas and the video of its encoders alone.
LEMMA DrawsOn ==
  ASSUME TypeOK, HeldIsReal, RefsAgree, EncodersDrawFromCanvas, NEW t \in Running,
         t \in targets', config'[t] = config[t], session'[t] = session[t],
         UsesSceneCanvas(t) => sceneCanvas'[t] = sceneCanvas[t],
         CanvasKey(t) = <<"dsk-vertical">> => vertical'.held = "current" /\ vertical'.canvas = vertical.canvas,
         session[t].key # None => encoders'[session[t].key].video = encoders[session[t].key].video
  PROVE  Draws(t)'
<1>1. /\ Draws(t)
      /\ UsesSceneCanvas(t) => Drawable(sceneCanvas[t]) /\ session[t].video = sceneCanvas[t].video
      /\ ~UsesSceneCanvas(t) /\ config[t].group = "vertical" =>
           vertical.held = "current" /\ session[t].video = vertical.canvas.video
      /\ ~UsesSceneCanvas(t) /\ config[t].group # "vertical" => session[t].video = Program
  BY DrawingIs
<1>2. UsesSceneCanvas(t)' = UsesSceneCanvas(t)
  BY DEF UsesSceneCanvas
<1>3. EncoderKey(t)' = EncoderKey(t)
  BY <1>2 DEF EncoderKey, CanvasKey
<1>4. CurrentVideo(t)' = session'[t].video
  <2>1. CASE UsesSceneCanvas(t)
    BY <1>1, <1>2, <2>1 DEF CurrentVideo, Drawable
  <2>2. CASE ~UsesSceneCanvas(t) /\ config[t].group = "vertical"
    BY <1>1, <1>2, <2>2, CanvasKeyIs DEF CurrentVideo
  <2>3. CASE ~UsesSceneCanvas(t) /\ config[t].group # "vertical"
    BY <1>1, <1>2, <2>3 DEF CurrentVideo
  <2> QED BY <2>1, <2>2, <2>3
<1>5. session'[t].key # None => session'[t].key = EncoderKey(t)' /\ encoders'[session'[t].key].video = session'[t].video
  BY <1>1, <1>3 DEF Draws
<1> QED BY <1>4, <1>5 DEF Draws

\* The same for all of them, while no session begins.
LEMMA AllDrawOn ==
  ASSUME TypeOK, HeldIsReal, RefsAgree, EncodersDrawFromCanvas,
         \A t \in Targets : session'[t] # None => session'[t] = session[t],
         \A t \in Running' : t \in targets' /\ config'[t] = config[t],
         \A t \in Running' : UsesSceneCanvas(t) => sceneCanvas'[t] = sceneCanvas[t],
         \A t \in Running' : CanvasKey(t) = <<"dsk-vertical">> => vertical'.held = "current" /\ vertical'.canvas = vertical.canvas,
         RefsAgree', \A k \in DOMAIN encoders' : encoders'[k].video = encoders[k].video
  PROVE  EncodersDrawFromCanvas'
<1>1. ASSUME NEW t \in Running'
      PROVE  Draws(t)'
  <2>1. t \in Targets /\ session'[t] # None /\ session'[t] = session[t] /\ t \in Running
    BY DEF Running
  <2>2. session[t].key # None => session[t].key \in DOMAIN encoders'
    BY <2>1 DEF RefsAgree
  <2> QED BY <2>1, <2>2, DrawsOn
<1> QED BY <1>1 DEF EncodersDrawFromCanvas, Draws

\* A start with a video that the target's canvas has, and that the outputs on
\* the same canvas draw from: the sets it joins are of that video.
LEMMA StartDraws ==
  ASSUME TypeOK, HeldIsReal, RefsAgree, EncodersDrawFromCanvas, UNCHANGED config,
         NEW t \in targets, session[t] = None, NEW video \in Videos \cup {Program}, Begins(t, video),
         CurrentVideo(t)' = video,
         \A u \in Running : CanvasKey(u) = CanvasKey(t) => session[u].video = video,
         \A u \in Running : UsesSceneCanvas(u) => sceneCanvas'[u] = sceneCanvas[u],
         \A u \in Running : CanvasKey(u) = <<"dsk-vertical">> => vertical'.held = "current" /\ vertical'.canvas = vertical.canvas
  PROVE  /\ session' \in [Targets -> Session \cup {None}]
         /\ DOMAIN encoders' \subseteq EncoderKeys /\ encoders' \in [DOMAIN encoders' -> EncoderSet]
         /\ RefsAgree' /\ EncodersDrawFromCanvas'
<1>1. EncoderKey(t) \in DOMAIN encoders => encoders[EncoderKey(t)].video = video
  <2>1. SUFFICES ASSUME EncoderKey(t) \in DOMAIN encoders
                 PROVE  encoders[EncoderKey(t)].video = video
    OBVIOUS
  <2>2. PICK u \in Running : session[u].key = EncoderKey(t) /\ session[u].key # None
    BY <2>1, EncoderTypes DEF RefsAgree
  <2>3. Draws(u) /\ u \in targets
    BY DrawingIs
  <2>4. EncoderKey(u)[2] = CanvasKey(u) /\ EncoderKey(t)[2] = CanvasKey(t)
    BY <2>3, KeyFacts
  <2>5. EncoderKey(u) = EncoderKey(t) /\ encoders[EncoderKey(t)].video = session[u].video
    BY <2>2, <2>3 DEF Draws
  <2>6. CanvasKey(u) = CanvasKey(t)
    BY <2>4, <2>5
  <2> QED BY <2>5, <2>6
<1>2. /\ session' \in [Targets -> Session \cup {None}]
      /\ DOMAIN encoders' \subseteq EncoderKeys /\ encoders' \in [DOMAIN encoders' -> EncoderSet]
      /\ RefsAgree'
      /\ \A u \in Targets \ {t} : session'[u] = session[u]
      /\ session'[t] # None =>
           /\ session'[t].video = video
           /\ session'[t].key # None => session'[t].key = EncoderKey(t) /\ encoders'[session'[t].key].video = video
      /\ \A k \in DOMAIN encoders : k \in DOMAIN encoders' /\ encoders'[k].video = encoders[k].video
  BY <1>1, BeginsIs
<1>3. ASSUME NEW u \in Running'
      PROVE  Draws(u)'
  <2>1. u \in Targets /\ session'[u] # None
    BY DEF Running
  <2>2. CASE u = t
    <3>1. EncoderKey(t)' = EncoderKey(t) /\ t \in targets'
      BY DEF EncoderKey, CanvasKey, UsesSceneCanvas, targets
    <3> QED BY <3>1, <2>1, <2>2, <1>2 DEF Draws
  <2>3. CASE u # t
    <3>1. session'[u] = session[u] /\ u \in Running
      BY <2>1, <2>3, <1>2 DEF Running
    <3>2. u \in targets /\ (session[u].key # None => session[u].key \in DOMAIN encoders)
      BY <3>1, DrawingIs
    <3>3. u \in targets' /\ config'[u] = config[u]
      BY <3>2 DEF targets
    <3>4. session[u].key # None => encoders'[session[u].key].video = encoders[session[u].key].video
      BY <3>2, <1>2
    <3> QED BY <3>1, <3>3, <3>4, DrawsOn
  <2> QED BY <2>2, <2>3
<1> QED BY <1>2, <1>3 DEF EncodersDrawFromCanvas, Draws

-----------------------------------------------------------------------------
(* The inductive invariant *)

CanvasInv ==
  /\ TypeOK /\ HeldIsReal /\ RefsAgree
  /\ EncodersDrawFromCanvas /\ VerticalNotStale /\ NothingIsKept

LEMMA InitHolds ==
  ASSUME Init
  PROVE  CanvasInv
<1>0. None \notin Session /\ DOMAIN LayoutSize = Layouts
  BY CanvasAssumption
<1>1. Running = {}
  BY DEF Init, Running
<1>2. vertical \in VerticalCanvas /\ vertical.held = "none" /\ vertical.shows = None
  <2>1. PICK C : C = {None} \cup [video : Videos, size : {LayoutSize[l] : l \in Layouts}, flags : {FALSE}]
    OBVIOUS
  <2>2. C \subseteq LayoutCanvas \cup {None}
    BY <2>1 DEF LayoutCanvas
  <2>3. vertical \in [canvas : C, held : {"none"}, shows : {None}]
    BY <2>1 DEF Init
  <2> QED BY <2>2, <2>3 DEF VerticalCanvas
<1>3. TypeOK
  <2>1. targets \subseteq Targets /\ config \in [targets -> Configs]
    BY DEF Init, targets
  <2>2. encoders = [k \in {} |-> None] /\ DOMAIN encoders = {}
    BY DEF Init
  <2>3. DOMAIN encoders \subseteq EncoderKeys /\ encoders \in [DOMAIN encoders -> EncoderSet]
    BY <2>2
  <2> QED BY <2>1, <2>3, <1>2 DEF TypeOK, Init
<1>4. RefsAgree
  <2>1. DOMAIN encoders = {}
    BY DEF Init
  <2> QED BY <2>1, <1>1 DEF RefsAgree
<1>5. EncodersDrawFromCanvas
  BY <1>1 DEF EncodersDrawFromCanvas
<1>6. NothingIsKept
  BY DEF Init, NothingIsKept
<1> QED BY <1>2, <1>3, <1>4, <1>5, <1>6 DEF CanvasInv, HeldIsReal, VerticalNotStale

LEMMA RefsUntouched ==
  ASSUME RefsAgree, UNCHANGED <<session, encoders>>
  PROVE  RefsAgree'
BY DEF RefsAgree, Running, UsersIn

\* Sessions begin: a start that OBS rejects or that has no canvas leaves the
\* sessions as they were.
LEMMA ProgramStarts ==
  ASSUME CanvasInv, NEW t \in Targets, StartOnProgram(t)
  PROVE  CanvasInv'
<1>0. TypeOK /\ HeldIsReal /\ RefsAgree /\ EncodersDrawFromCanvas
  BY DEF CanvasInv
<1>1. t \in targets /\ session[t] = None /\ ~shuttingDown /\ CanvasKey(t) = <<"obs-program">> /\ Begins(t, Program)
      /\ UNCHANGED <<config, removing, shuttingDown, sceneCanvas, vertical, layout, persisted, unsaved>>
  BY DEF StartOnProgram, MayStart
<1>2. CurrentVideo(t)' = Program
  BY <1>1, CanvasKeyIs DEF CurrentVideo, UsesSceneCanvas
<1>3. ASSUME NEW u \in Running
      PROVE  /\ CanvasKey(u) = CanvasKey(t) => session[u].video = Program
             /\ CanvasKey(u) = <<"dsk-vertical">> => vertical.held = "current"
  BY <1>0, <1>1, DrawingIs, CanvasKeyIs
<1>4. /\ session' \in [Targets -> Session \cup {None}]
      /\ DOMAIN encoders' \subseteq EncoderKeys /\ encoders' \in [DOMAIN encoders' -> EncoderSet]
      /\ RefsAgree' /\ EncodersDrawFromCanvas'
  BY <1>0, <1>1, <1>2, <1>3, StartDraws
<1>5. TypeOK'
  BY <1>0, <1>1, <1>4 DEF TypeOK, targets
<1> QED BY <1>1, <1>4, <1>5 DEF CanvasInv, HeldIsReal, VerticalNotStale, NothingIsKept

LEMMA VerticalStarts ==
  ASSUME CanvasInv, NEW t \in Targets, StartOnVertical(t)
  PROVE  CanvasInv'
<1>0. TypeOK /\ HeldIsReal /\ RefsAgree /\ EncodersDrawFromCanvas
  BY DEF CanvasInv
<1>1. t \in targets /\ session[t] = None /\ ~shuttingDown /\ CanvasKey(t) = <<"dsk-vertical">>
      /\ UNCHANGED <<config, removing, shuttingDown, sceneCanvas, layout, persisted, unsaved>>
  BY DEF StartOnVertical, MayStart
<1>2. PICK e \in ShownVertical(vertical, layout) :
        /\ vertical' = e.left
        /\ IF e.ok THEN Begins(t, e.left.canvas.video) ELSE UNCHANGED <<session, encoders>>
  BY DEF StartOnVertical
<1>3. vertical \in VerticalCanvas /\ layout \in Layouts /\ Real(vertical)
  BY <1>0 DEF TypeOK, HeldIsReal, Real
<1>4. /\ e.ok \in BOOLEAN /\ vertical' \in VerticalCanvas /\ Real(vertical')
      /\ e.ok => vertical'.held = "current" /\ Fits(vertical'.canvas, layout) /\ vertical'.shows = layout
      /\ vertical'.held = "current" /\ Fits(vertical'.canvas, layout) => vertical'.shows \in {layout, None}
      /\ Uses(<<"dsk-vertical">>) /\ vertical.held = "current" => vertical'.canvas = vertical.canvas /\ vertical'.held = "current"
  BY <1>2, <1>3, ShownVerticalIs
<1>5. ASSUME NEW u \in Running, CanvasKey(u) = <<"dsk-vertical">>
      PROVE  /\ vertical'.held = "current" /\ vertical'.canvas = vertical.canvas
             /\ session[u].video = vertical.canvas.video
  <2>1. Uses(<<"dsk-vertical">>) /\ vertical.held = "current" /\ session[u].video = vertical.canvas.video
    BY <1>0, <1>5, DrawingIs, CanvasKeyIs
  <2> QED BY <2>1, <1>4
<1>6. /\ session' \in [Targets -> Session \cup {None}]
      /\ DOMAIN encoders' \subseteq EncoderKeys /\ encoders' \in [DOMAIN encoders' -> EncoderSet]
      /\ RefsAgree' /\ EncodersDrawFromCanvas'
  <2>1. CASE e.ok
    <3>1. PICK video : video = vertical'.canvas.video
      OBVIOUS
    <3>2. Begins(t, video)
      BY <2>1, <1>2, <3>1
    <3>3. video \in Videos \cup {Program}
      <4>1. vertical'.canvas \in LayoutCanvas
        BY <1>4, <2>1 DEF VerticalCanvas, Real
      <4> QED BY <4>1, <3>1, <2>1, <1>4 DEF LayoutCanvas, Fits
    <3>4. CurrentVideo(t)' = video
      BY <1>1, <1>4, <2>1, <3>1, CanvasKeyIs DEF CurrentVideo, UsesSceneCanvas
    <3>5. \A u \in Running : CanvasKey(u) = CanvasKey(t) => session[u].video = video
      BY <1>1, <1>5, <3>1
    <3> QED BY <1>0, <1>1, <1>5, <3>2, <3>3, <3>4, <3>5, StartDraws
  <2>2. CASE ~e.ok
    <3>1. UNCHANGED <<session, encoders>>
      BY <2>2, <1>2
    <3>2. RefsAgree' /\ Running' = Running
      BY <3>1, <1>0, RefsUntouched DEF Running
    <3>3. \A u \in Running' : u \in targets' /\ config'[u] = config[u]
      BY <3>2, <1>0, <1>1, DrawingIs DEF targets
    <3>4. EncodersDrawFromCanvas'
      BY <3>1, <3>2, <3>3, <1>0, <1>1, <1>5, AllDrawOn
    <3> QED BY <3>1, <3>2, <3>4, <1>0 DEF TypeOK
  <2> QED BY <1>4, <2>1, <2>2
<1>7. TypeOK'
  BY <1>0, <1>1, <1>4, <1>6 DEF TypeOK, targets
<1> QED BY <1>1, <1>4, <1>6, <1>7 DEF CanvasInv, HeldIsReal, Real, VerticalNotStale, NothingIsKept

LEMMA SceneStarts ==
  ASSUME CanvasInv, NEW t \in Targets, StartOnScene(t)
  PROVE  CanvasInv'
<1>0. TypeOK /\ HeldIsReal /\ RefsAgree /\ EncodersDrawFromCanvas
  BY DEF CanvasInv
<1>1. t \in targets /\ session[t] = None /\ ~shuttingDown /\ UsesSceneCanvas(t)
      /\ UNCHANGED <<config, removing, shuttingDown, vertical, layout, persisted, unsaved>>
  BY DEF StartOnScene, MayStart
<1>2. PICK e \in EnsuredScene(t, sceneCanvas[t]) :
        /\ sceneCanvas' = [sceneCanvas EXCEPT ![t] = e.left]
        /\ IF e.ok THEN Begins(t, e.left.video) ELSE UNCHANGED <<session, encoders>>
  BY DEF StartOnScene
<1>3. sceneCanvas \in [Targets -> SceneCanvas \cup {None}]
  BY <1>0 DEF TypeOK
<1>4. /\ e.ok \in BOOLEAN /\ e.left \in SceneCanvas \cup {None}
      /\ e.ok => e.left # None /\ ~e.left.removed /\ e.left.video \in Videos
  BY <1>2, <1>3, EnsuredSceneIs
<1>5. /\ sceneCanvas' \in [Targets -> SceneCanvas \cup {None}] /\ sceneCanvas'[t] = e.left
      /\ \A u \in Targets \ {t} : sceneCanvas'[u] = sceneCanvas[u]
  BY <1>2, <1>3, <1>4
<1>6. ASSUME NEW u \in Running
      PROVE  /\ u \in Targets /\ u # t /\ CanvasKey(u) # CanvasKey(t) /\ sceneCanvas'[u] = sceneCanvas[u]
             /\ CanvasKey(u) = <<"dsk-vertical">> => vertical.held = "current"
  <2>1. u \in Targets /\ u # t
    BY <1>1 DEF Running
  <2>2. CanvasKey(u) # CanvasKey(t)
    BY <2>1, <1>1, CanvasKeyIs, CanvasKeyFacts DEF CanvasKey
  <2> QED BY <1>0, <2>1, <2>2, <1>5, DrawingIs, CanvasKeyIs
<1>7. /\ session' \in [Targets -> Session \cup {None}]
      /\ DOMAIN encoders' \subseteq EncoderKeys /\ encoders' \in [DOMAIN encoders' -> EncoderSet]
      /\ RefsAgree' /\ EncodersDrawFromCanvas'
  <2>1. CASE e.ok
    <3>1. PICK video : video = e.left.video
      OBVIOUS
    <3>2. Begins(t, video) /\ video \in Videos \cup {Program}
      BY <2>1, <1>2, <1>4, <3>1
    <3>4. CurrentVideo(t)' = video
      BY <1>1, <1>4, <1>5, <2>1, <3>1 DEF CurrentVideo, UsesSceneCanvas
    <3> QED BY <1>0, <1>1, <1>6, <3>2, <3>4, StartDraws
  <2>2. CASE ~e.ok
    <3>1. UNCHANGED <<session, encoders>>
      BY <2>2, <1>2
    <3>2. RefsAgree' /\ Running' = Running
      BY <3>1, <1>0, RefsUntouched DEF Running
    <3>3. \A u \in Running' : u \in targets' /\ config'[u] = config[u]
      BY <3>2, <1>0, <1>1, DrawingIs DEF targets
    <3>4. EncodersDrawFromCanvas'
      BY <3>1, <3>2, <3>3, <1>0, <1>1, <1>6, AllDrawOn
    <3> QED BY <3>1, <3>2, <3>4, <1>0 DEF TypeOK
  <2> QED BY <1>4, <2>1, <2>2
<1>8. TypeOK'
  BY <1>0, <1>1, <1>5, <1>7 DEF TypeOK, targets
<1> QED BY <1>1, <1>7, <1>8 DEF CanvasInv, HeldIsReal, VerticalNotStale, NothingIsKept

-----------------------------------------------------------------------------
(* Sessions end, targets are removed *)

LEMMA VerticalIsLetGo ==
  ASSUME NEW v \in VerticalCanvas
  PROVE  LetGoOfVertical(v) \in VerticalCanvas /\ LetGoOfVertical(v).held = "none"
         /\ LetGoOfVertical(v).shows = None
BY DEF VerticalCanvas, LetGoOfVertical

LEMMA NoVerticalIs ==
  NoVertical \in VerticalCanvas /\ NoVertical.held = "none"
BY DEF NoVertical, VerticalCanvas

LEMMA RemovesIs ==
  ASSUME TypeOK, NEW S, Removes(S)
  PROVE  /\ targets' \subseteq Targets /\ config' \in [targets' -> Configs] /\ removing' \subseteq targets'
         /\ persisted' \in {layout, persisted}
         /\ \A t \in targets \ S : t \in targets' /\ config'[t] = config[t]
<1>1. PICK gone \in SUBSET S :
        /\ config' = [t \in targets \ gone |-> config[t]]
        /\ removing' = removing \ S
        /\ persisted' = IF gone = {} THEN persisted ELSE layout
  BY DEF Removes
<1>2. targets' = targets \ gone
  BY <1>1 DEF targets
<1> QED BY <1>1, <1>2 DEF TypeOK

LEMMA SessionEndsHolds ==
  ASSUME CanvasInv, NEW t \in Targets, SessionEnds(t)
  PROVE  CanvasInv'
<1>0. TypeOK /\ HeldIsReal /\ RefsAgree /\ EncodersDrawFromCanvas
  BY DEF CanvasInv
<1>1. /\ EndSessions({t}) /\ Removes({t} \cap removing) /\ t \in Running
      /\ sceneCanvas' = [sceneCanvas EXCEPT ![t] = None]
      /\ UNCHANGED <<shuttingDown, vertical, layout, unsaved>>
  BY DEF SessionEnds, Running
<1>2. ~shuttingDown
  BY <1>1 DEF CanvasInv, NothingIsKept
<1>3. /\ session' \in [Targets -> Session \cup {None}]
      /\ DOMAIN encoders' \subseteq DOMAIN encoders /\ encoders' \in [DOMAIN encoders' -> EncoderSet]
      /\ RefsAgree' /\ Running' = Running \ {t}
      /\ \A u \in Targets : session'[u] = IF u \in {t} THEN None ELSE session[u]
      /\ \A k \in DOMAIN encoders' : encoders'[k].video = encoders[k].video
  BY <1>0, <1>1, EndSessionsIs
<1>4. /\ targets' \subseteq Targets /\ config' \in [targets' -> Configs] /\ removing' \subseteq targets'
      /\ persisted' \in {layout, persisted}
      /\ \A u \in targets \ {t} : u \in targets' /\ config'[u] = config[u]
  BY <1>0, <1>1, RemovesIs
<1>5. sceneCanvas' \in [Targets -> SceneCanvas \cup {None}] /\ \A u \in Targets \ {t} : sceneCanvas'[u] = sceneCanvas[u]
  BY <1>0, <1>1 DEF TypeOK
<1>6. EncodersDrawFromCanvas'
  <2>1. ASSUME NEW u \in Running'
        PROVE  /\ u \in targets' /\ config'[u] = config[u] /\ sceneCanvas'[u] = sceneCanvas[u]
               /\ CanvasKey(u) = <<"dsk-vertical">> => vertical'.held = "current" /\ vertical'.canvas = vertical.canvas
    <3>1. u \in Running /\ u # t
      BY <1>3
    <3> QED BY <3>1, <1>0, <1>1, <1>4, <1>5, DrawingIs, CanvasKeyIs
  <2> QED BY <2>1, <1>0, <1>3, AllDrawOn
<1>7. TypeOK'
  BY <1>0, <1>1, <1>3, <1>4, <1>5 DEF TypeOK
<1> QED BY <1>1, <1>2, <1>3, <1>6, <1>7 DEF CanvasInv, HeldIsReal, VerticalNotStale, NothingIsKept

LEMMA CollectionChanges ==
  ASSUME CanvasInv, ChangeSceneCollection
  PROVE  CanvasInv'
<1>0. TypeOK /\ HeldIsReal /\ RefsAgree /\ EncodersDrawFromCanvas
  BY DEF CanvasInv
<1>1. /\ ~shuttingDown /\ EndSessions(SceneDependent) /\ Removes(SceneDependent \cap removing)
      /\ sceneCanvas' = [t \in Targets |-> None]
      /\ vertical' \in {LetGoOfVertical(vertical), NoVertical}
      /\ unsaved' \in {FALSE, unsaved}
      /\ UNCHANGED <<shuttingDown, layout>>
  BY DEF ChangeSceneCollection
<1>2. SceneDependent \subseteq Targets
  BY DEF SceneDependent, Running
<1>3. /\ session' \in [Targets -> Session \cup {None}]
      /\ DOMAIN encoders' \subseteq DOMAIN encoders /\ encoders' \in [DOMAIN encoders' -> EncoderSet]
      /\ RefsAgree' /\ Running' = Running \ SceneDependent
      /\ \A u \in Targets : session'[u] = IF u \in SceneDependent THEN None ELSE session[u]
      /\ \A k \in DOMAIN encoders' : encoders'[k].video = encoders[k].video
  BY <1>0, <1>1, <1>2, EndSessionsIs
<1>4. /\ targets' \subseteq Targets /\ config' \in [targets' -> Configs] /\ removing' \subseteq targets'
      /\ persisted' \in {layout, persisted}
      /\ \A u \in targets \ SceneDependent : u \in targets' /\ config'[u] = config[u]
  BY <1>0, <1>1, RemovesIs
<1>5. sceneCanvas' \in [Targets -> SceneCanvas \cup {None}]
  BY <1>1
<1>6. vertical' \in VerticalCanvas /\ vertical'.held = "none"
  <2>1. vertical \in VerticalCanvas
    BY <1>0 DEF TypeOK
  <2> QED BY <2>1, <1>1, VerticalIsLetGo, NoVerticalIs
<1>7. EncodersDrawFromCanvas'
  <2>1. ASSUME NEW u \in Running'
        PROVE  /\ u \in targets' /\ config'[u] = config[u]
               /\ ~UsesSceneCanvas(u) /\ CanvasKey(u) # <<"dsk-vertical">>
    <3>1. u \in Running /\ u \in targets /\ u \notin SceneDependent
      BY <1>0, <1>3, DrawingIs
    <3>2. CanvasKey(u) = <<"obs-program">>
      BY <3>1 DEF SceneDependent
    <3> QED BY <3>1, <3>2, <1>4, CanvasKeyIs, CanvasKeyFacts
  <2> QED BY <2>1, <1>0, <1>3, AllDrawOn
<1>8. TypeOK'
  BY <1>0, <1>1, <1>3, <1>4, <1>5, <1>6 DEF TypeOK
<1> QED BY <1>1, <1>3, <1>6, <1>7, <1>8 DEF CanvasInv, HeldIsReal, VerticalNotStale, NothingIsKept

\* releaseAllSessionsNow leaves no session and no encoders.
LEMMA AllSessionsEnd ==
  ASSUME TypeOK, RefsAgree, EndSessions(Running)
  PROVE  /\ session' \in [Targets -> Session \cup {None}]
         /\ DOMAIN encoders' \subseteq EncoderKeys /\ encoders' \in [DOMAIN encoders' -> EncoderSet]
         /\ RefsAgree' /\ EncodersDrawFromCanvas' /\ Running' = {} /\ DOMAIN encoders' = {}
<1>1. Running \subseteq Targets
  BY DEF Running
<1>2. /\ session' \in [Targets -> Session \cup {None}]
      /\ DOMAIN encoders' \subseteq DOMAIN encoders /\ encoders' \in [DOMAIN encoders' -> EncoderSet]
      /\ RefsAgree' /\ Running' = Running \ Running
  BY <1>1, EndSessionsIs
<1>3. Running' = {} /\ DOMAIN encoders \subseteq EncoderKeys
  BY <1>2 DEF TypeOK
<1> QED BY <1>2, <1>3 DEF RefsAgree, EncodersDrawFromCanvas

LEMMA ProfileReloads ==
  ASSUME CanvasInv, ReloadForCurrentProfile
  PROVE  CanvasInv'
<1>0. TypeOK /\ RefsAgree
  BY DEF CanvasInv
<1>1. /\ ~shuttingDown /\ EndSessions(Running)
      /\ sceneCanvas' = [t \in Targets |-> None]
      /\ vertical' = LetGoOfVertical(vertical)
      /\ \E stored \in SUBSET Targets : config' \in [stored -> Configs]
      /\ removing' = {} /\ layout' \in Layouts /\ persisted' = layout'
      /\ UNCHANGED <<shuttingDown, unsaved>>
  BY DEF ReloadForCurrentProfile
<1>2. vertical' \in VerticalCanvas /\ vertical'.held = "none"
  BY <1>0, <1>1, VerticalIsLetGo DEF TypeOK
<1>3. targets' \subseteq Targets /\ config' \in [targets' -> Configs]
  BY <1>1 DEF targets
<1>4. TypeOK'
  BY <1>0, <1>1, <1>2, <1>3, AllSessionsEnd DEF TypeOK
<1> QED BY <1>0, <1>1, <1>2, <1>4, AllSessionsEnd DEF CanvasInv, HeldIsReal, VerticalNotStale, NothingIsKept

LEMMA Unloads ==
  ASSUME CanvasInv, PrepareForUnload
  PROVE  CanvasInv'
<1>0. TypeOK /\ RefsAgree
  BY DEF CanvasInv
<1>1. /\ EndSessions(Running) /\ shuttingDown' = TRUE
      /\ sceneCanvas' = [t \in Targets |-> None]
      /\ vertical' = LetGoOfVertical(vertical)
      /\ UNCHANGED <<config, removing, layout, persisted, unsaved>>
  BY DEF PrepareForUnload
<1>2. vertical' \in VerticalCanvas /\ vertical'.held = "none" /\ vertical'.shows = None
  BY <1>0, <1>1, VerticalIsLetGo DEF TypeOK
<1>4. TypeOK'
  BY <1>0, <1>1, <1>2, AllSessionsEnd DEF TypeOK, targets
<1>5. NothingIsKept'
  BY <1>0, <1>1, <1>2, AllSessionsEnd DEF NothingIsKept
<1> QED BY <1>0, <1>1, <1>2, <1>4, <1>5, AllSessionsEnd DEF CanvasInv, HeldIsReal, VerticalNotStale

-----------------------------------------------------------------------------
(* Operations on targets *)

LEMMA TargetIsAdded ==
  ASSUME CanvasInv, NEW t \in Targets, AddTarget(t)
  PROVE  CanvasInv'
<1>0. TypeOK /\ HeldIsReal /\ RefsAgree /\ EncodersDrawFromCanvas
  BY DEF CanvasInv
<1>1. PICK c \in Configs : config' = [u \in targets \cup {t} |-> IF u = t THEN c ELSE config[u]]
  BY DEF AddTarget
<1>2. t \notin targets /\ ~shuttingDown /\ persisted' = layout
      /\ UNCHANGED <<removing, session, shuttingDown, encoders, sceneCanvas, vertical, layout, unsaved>>
  BY DEF AddTarget
<1>3. targets' = targets \cup {t}
  BY <1>1 DEF targets
<1>4. TypeOK'
  BY <1>0, <1>1, <1>2, <1>3 DEF TypeOK
<1>5. RefsAgree' /\ Running' = Running
  BY <1>0, <1>2, RefsUntouched DEF Running
<1>6. EncodersDrawFromCanvas'
  <2>1. ASSUME NEW u \in Running'
        PROVE  /\ u \in targets' /\ config'[u] = config[u]
               /\ CanvasKey(u) = <<"dsk-vertical">> => vertical'.held = "current"
    BY <1>0, <1>1, <1>2, <1>3, <1>5, DrawingIs, CanvasKeyIs
  <2> QED BY <2>1, <1>0, <1>2, <1>5, AllDrawOn
<1> QED BY <1>2, <1>4, <1>5, <1>6 DEF CanvasInv, HeldIsReal, VerticalNotStale, NothingIsKept

LEMMA TargetIsRemoved ==
  ASSUME CanvasInv, NEW t \in Targets, RemoveTarget(t)
  PROVE  CanvasInv'
<1>0. TypeOK /\ HeldIsReal /\ RefsAgree /\ EncodersDrawFromCanvas
  BY DEF CanvasInv
<1>1. t \in targets /\ t \notin removing /\ ~shuttingDown
      /\ UNCHANGED <<session, shuttingDown, encoders, vertical, layout, unsaved>>
  BY DEF RemoveTarget
<1>2. RefsAgree' /\ Running' = Running
  BY <1>0, <1>1, RefsUntouched DEF Running
<1>3. CASE UNCHANGED <<config, sceneCanvas, persisted>> /\ removing' = removing \cup {t}
  <2>1. TypeOK'
    BY <1>0, <1>1, <1>3 DEF TypeOK, targets
  <2>2. \A u \in Running' : /\ u \in targets' /\ config'[u] = config[u]
                            /\ CanvasKey(u) = <<"dsk-vertical">> => vertical'.held = "current"
    BY <1>0, <1>1, <1>2, <1>3, DrawingIs, CanvasKeyIs DEF targets
  <2>3. EncodersDrawFromCanvas'
    BY <2>2, <1>0, <1>1, <1>2, <1>3, AllDrawOn
  <2> QED BY <1>1, <1>2, <2>1, <2>3 DEF CanvasInv, HeldIsReal, VerticalNotStale, NothingIsKept
<1>4. CASE /\ session[t] = None
           /\ config' = [u \in targets \ {t} |-> config[u]]
           /\ persisted' = layout
           /\ sceneCanvas' = [sceneCanvas EXCEPT ![t] = None]
           /\ UNCHANGED removing
  <2>1. targets' = targets \ {t}
    BY <1>4 DEF targets
  <2>2. TypeOK'
    BY <1>0, <1>1, <1>4, <2>1 DEF TypeOK
  <2>3. \A u \in Running' : u \in Targets /\ u # t
    BY <1>2, <1>4 DEF Running
  <2>4. \A u \in Running' : /\ u \in targets' /\ config'[u] = config[u] /\ sceneCanvas'[u] = sceneCanvas[u]
                            /\ CanvasKey(u) = <<"dsk-vertical">> => vertical'.held = "current"
    <3>1. \A u \in Targets \ {t} : sceneCanvas'[u] = sceneCanvas[u]
      BY <1>4
    <3> QED BY <1>0, <1>1, <1>2, <1>4, <2>1, <2>3, <3>1, DrawingIs, CanvasKeyIs
  <2>5. EncodersDrawFromCanvas'
    BY <2>4, <1>0, <1>1, <1>2, AllDrawOn
  <2> QED BY <1>1, <1>2, <2>2, <2>5 DEF CanvasInv, HeldIsReal, VerticalNotStale, NothingIsKept
<1> QED BY <1>3, <1>4 DEF RemoveTarget

LEMMA TargetIsMutated ==
  ASSUME CanvasInv, NEW t \in Targets, MutateTargetForUi(t)
  PROVE  CanvasInv'
<1>0. TypeOK /\ HeldIsReal /\ RefsAgree /\ EncodersDrawFromCanvas
  BY DEF CanvasInv
<1>1. t \in targets /\ session[t] = None /\ ~shuttingDown /\ persisted' = layout
      /\ UNCHANGED <<removing, session, shuttingDown, encoders, sceneCanvas, vertical, layout, unsaved>>
  BY DEF MutateTargetForUi
<1>2. PICK c \in Configs : config' = [config EXCEPT ![t] = c]
  BY DEF MutateTargetForUi
<1>3. targets' = targets /\ \A u \in targets \ {t} : config'[u] = config[u]
  BY <1>2 DEF targets
<1>4. TypeOK'
  BY <1>0, <1>1, <1>2, <1>3 DEF TypeOK
<1>5. RefsAgree' /\ Running' = Running
  BY <1>0, <1>1, RefsUntouched DEF Running
<1>6. EncodersDrawFromCanvas'
  <2>1. ASSUME NEW u \in Running'
        PROVE  /\ u \in targets' /\ config'[u] = config[u]
               /\ CanvasKey(u) = <<"dsk-vertical">> => vertical'.held = "current"
    <3>1. u # t
      BY <1>1, <1>5 DEF Running
    <3> QED BY <3>1, <1>0, <1>1, <1>3, <1>5, DrawingIs, CanvasKeyIs
  <2> QED BY <2>1, <1>0, <1>1, <1>5, AllDrawOn
<1> QED BY <1>1, <1>4, <1>5, <1>6 DEF CanvasInv, HeldIsReal, VerticalNotStale, NothingIsKept

LEMMA SceneModeIsSet ==
  ASSUME CanvasInv, NEW t \in Targets, SetTargetSceneMode(t)
  PROVE  CanvasInv'
<1>0. TypeOK /\ HeldIsReal /\ RefsAgree /\ EncodersDrawFromCanvas
  BY DEF CanvasInv
<1>1. t \in targets /\ session[t] = None /\ ~shuttingDown
      /\ UNCHANGED <<removing, session, shuttingDown, encoders, vertical, layout, unsaved>>
  BY DEF SetTargetSceneMode
<1>2. PICK c \in Configs, active \in SUBSET Linked :
        \/ /\ config' = [config EXCEPT ![t] = c]
           /\ persisted' = layout
           /\ sceneCanvas' \in RefreshedLinked(IF c.mode = "FollowObs" THEN [sceneCanvas EXCEPT ![t] = None] ELSE sceneCanvas, active)
        \/ /\ UNCHANGED <<config, persisted>>
           /\ sceneCanvas' \in RefreshedLinked(sceneCanvas, active)
  BY DEF SetTargetSceneMode
<1>3. PICK canvases :
        /\ canvases \in {[sceneCanvas EXCEPT ![t] = None], sceneCanvas}
        /\ sceneCanvas' \in RefreshedLinked(canvases, active)
  BY <1>2
<1>4. canvases \in [Targets -> SceneCanvas \cup {None}] /\ \A u \in Targets \ {t} : canvases[u] = sceneCanvas[u]
  BY <1>0, <1>3 DEF TypeOK
<1>5. /\ sceneCanvas' \in [Targets -> SceneCanvas \cup {None}]
      /\ \A u \in Targets \ {t} : Drawable(sceneCanvas[u]) /\ Uses(CanvasKey(u)) => sceneCanvas'[u] = sceneCanvas[u]
  <2>1. \A u \in Targets : Drawable(canvases[u]) /\ Uses(CanvasKey(u)) => sceneCanvas'[u] = canvases[u]
    BY <1>3, <1>4, RefreshedLinkedIs
  <2> QED BY <2>1, <1>3, <1>4, RefreshedLinkedIs
<1>6. /\ targets' = targets /\ config' \in [targets -> Configs] /\ persisted' \in {layout, persisted}
      /\ \A u \in targets \ {t} : config'[u] = config[u]
  BY <1>0, <1>2 DEF targets, TypeOK
<1>7. TypeOK'
  BY <1>0, <1>1, <1>5, <1>6 DEF TypeOK
<1>8. RefsAgree' /\ Running' = Running
  BY <1>0, <1>1, RefsUntouched DEF Running
<1>9. EncodersDrawFromCanvas'
  <2>1. ASSUME NEW u \in Running'
        PROVE  /\ u \in targets' /\ config'[u] = config[u]
               /\ UsesSceneCanvas(u) => sceneCanvas'[u] = sceneCanvas[u]
               /\ CanvasKey(u) = <<"dsk-vertical">> => vertical'.held = "current"
    <3>1. u \in Targets \ {t} /\ u \in Running
      BY <1>1, <1>8 DEF Running
    <3> QED BY <3>1, <1>0, <1>1, <1>5, <1>6, DrawingIs, CanvasKeyIs
  <2> QED BY <2>1, <1>0, <1>1, <1>8, AllDrawOn
<1> QED BY <1>1, <1>7, <1>8, <1>9 DEF CanvasInv, HeldIsReal, VerticalNotStale, NothingIsKept

-----------------------------------------------------------------------------
(* Layouts, scenes and OBS *)

\* A layout that is saved or put back is the one that the canvas is refreshed
\* with, and the canvas under a running output stays.
LEMMA LayoutIsSaved ==
  ASSUME TypeOK, HeldIsReal, NEW l \in Layouts, SavesVerticalLayout(l)
  PROVE  /\ layout' \in Layouts /\ persisted' \in Layouts
         /\ vertical' \in VerticalCanvas /\ HeldIsReal'
         /\ vertical'.held = "current" /\ Fits(vertical'.canvas, layout') => vertical'.shows \in {layout', None}
         /\ Uses(<<"dsk-vertical">>) /\ vertical.held = "current"
              => vertical'.canvas = vertical.canvas /\ vertical'.held = "current"
<1>1. layout' \in Layouts /\ persisted' \in Layouts /\ vertical' \in RefreshedVertical(vertical, layout')
  BY DEF SavesVerticalLayout, TypeOK
<1>2. PICK m, w : m = layout' /\ w = vertical'
  OBVIOUS
<1>3. vertical \in VerticalCanvas /\ Real(vertical)
  BY DEF TypeOK, HeldIsReal, Real
<1>4. /\ w \in VerticalCanvas /\ Real(w)
      /\ w.held = "current" /\ Fits(w.canvas, m) => w.shows \in {m, None}
      /\ Uses(<<"dsk-vertical">>) /\ vertical.held = "current" => w.canvas = vertical.canvas /\ w.held = "current"
  BY <1>1, <1>2, <1>3, RefreshedVerticalIs
<1> QED BY <1>1, <1>2, <1>4 DEF HeldIsReal, Real

\* Steps that leave targets and sessions alone.
LEMMA CanvasesChange ==
  ASSUME CanvasInv, UNCHANGED <<config, session, encoders>>,
         \A u \in Targets : Drawable(sceneCanvas[u]) /\ Uses(CanvasKey(u)) => sceneCanvas'[u] = sceneCanvas[u],
         Uses(<<"dsk-vertical">>) /\ vertical.held = "current"
           => vertical'.canvas = vertical.canvas /\ vertical'.held = "current"
  PROVE  RefsAgree' /\ EncodersDrawFromCanvas'
<1>0. TypeOK /\ HeldIsReal /\ RefsAgree /\ EncodersDrawFromCanvas
  BY DEF CanvasInv
<1>1. RefsAgree' /\ Running' = Running
  BY <1>0, RefsUntouched DEF Running
<1>2. ASSUME NEW u \in Running'
      PROVE  /\ u \in targets' /\ config'[u] = config[u]
             /\ UsesSceneCanvas(u) => sceneCanvas'[u] = sceneCanvas[u]
             /\ CanvasKey(u) = <<"dsk-vertical">> => vertical'.held = "current" /\ vertical'.canvas = vertical.canvas
  <2>1. u \in Targets /\ u \in targets /\ Uses(CanvasKey(u))
        /\ (UsesSceneCanvas(u) => Drawable(sceneCanvas[u]))
        /\ (CanvasKey(u) = <<"dsk-vertical">> => vertical.held = "current")
    BY <1>0, <1>1, DrawingIs, CanvasKeyIs
  <2> QED BY <2>1 DEF targets
<1> QED BY <1>0, <1>1, <1>2, AllDrawOn

LEMMA LayoutsChange ==
  ASSUME CanvasInv, Save \/ EditorChanges \/ EditorSaves \/ ChangeVerticalScenes
  PROVE  CanvasInv'
<1>0. TypeOK /\ HeldIsReal
  BY DEF CanvasInv
<1>1. ~shuttingDown /\ UNCHANGED <<config, removing, session, shuttingDown, encoders, sceneCanvas>>
  BY DEF Save, EditorChanges, EditorSaves, ChangeVerticalScenes
<1>2. /\ layout' \in Layouts /\ persisted' \in Layouts /\ unsaved' \in BOOLEAN
      /\ vertical' \in VerticalCanvas /\ HeldIsReal' /\ VerticalNotStale'
      /\ Uses(<<"dsk-vertical">>) /\ vertical.held = "current"
           => vertical'.canvas = vertical.canvas /\ vertical'.held = "current"
  <2>1. CASE Save
    BY <1>0, <2>1 DEF Save, TypeOK, HeldIsReal, CanvasInv, VerticalNotStale
  <2>2. CASE EditorChanges
    BY <1>0, <2>2 DEF EditorChanges, TypeOK, HeldIsReal, VerticalNotStale
  <2>3. CASE EditorSaves
    <3>1. layout \in Layouts /\ SavesVerticalLayout(layout) /\ unsaved' = FALSE
      BY <1>0, <2>3 DEF EditorSaves, TypeOK
    <3> QED BY <3>1, <1>0, LayoutIsSaved DEF VerticalNotStale
  <2>4. CASE ChangeVerticalScenes
    <3>1. PICK l \in Layouts : SavesVerticalLayout(l)
      BY <2>4 DEF ChangeVerticalScenes
    <3>2. unsaved' = unsaved /\ unsaved \in BOOLEAN
      BY <2>4, <1>0 DEF ChangeVerticalScenes, TypeOK
    <3> QED BY <3>1, <3>2, <1>0, LayoutIsSaved DEF VerticalNotStale
  <2> QED BY <2>1, <2>2, <2>3, <2>4
<1>3. TypeOK'
  BY <1>0, <1>1, <1>2 DEF TypeOK, targets
<1>4. RefsAgree' /\ EncodersDrawFromCanvas'
  BY <1>1, <1>2, CanvasesChange
<1> QED BY <1>1, <1>2, <1>3, <1>4 DEF CanvasInv, NothingIsKept

LEMMA ObsSceneChanges ==
  ASSUME CanvasInv, HandleObsSceneChanged
  PROVE  CanvasInv'
<1>0. TypeOK /\ HeldIsReal /\ VerticalNotStale
  BY DEF CanvasInv
<1>1. ~shuttingDown /\ UNCHANGED <<config, removing, session, shuttingDown, encoders, unsaved>>
  BY DEF HandleObsSceneChanged
<1>2. /\ layout' \in Layouts /\ persisted' \in Layouts
      /\ vertical' \in VerticalCanvas /\ HeldIsReal' /\ VerticalNotStale'
      /\ Uses(<<"dsk-vertical">>) /\ vertical.held = "current"
           => vertical'.canvas = vertical.canvas /\ vertical'.held = "current"
  <2>1. CASE UNCHANGED <<layout, persisted, vertical>>
    BY <1>0, <1>1, <2>1 DEF TypeOK, HeldIsReal, VerticalNotStale
  <2>2. CASE \E l \in Layouts : SavesVerticalLayout(l)
    BY <1>0, <1>1, <2>2, LayoutIsSaved DEF VerticalNotStale
  <2> QED BY <2>1, <2>2 DEF HandleObsSceneChanged
<1>3. /\ sceneCanvas' \in [Targets -> SceneCanvas \cup {None}]
      /\ \A u \in Targets : Drawable(sceneCanvas[u]) /\ Uses(CanvasKey(u)) => sceneCanvas'[u] = sceneCanvas[u]
  <2>1. PICK active \in SUBSET Linked : sceneCanvas' \in RefreshedLinked(sceneCanvas, active)
    BY DEF HandleObsSceneChanged
  <2>2. sceneCanvas \in [Targets -> SceneCanvas \cup {None}]
    BY <1>0 DEF TypeOK
  <2> QED BY <2>1, <2>2, RefreshedLinkedIs
<1>4. TypeOK'
  BY <1>0, <1>1, <1>2, <1>3 DEF TypeOK, targets
<1>5. RefsAgree' /\ EncodersDrawFromCanvas'
  BY <1>1, <1>2, <1>3, CanvasesChange
<1> QED BY <1>1, <1>2, <1>4, <1>5 DEF CanvasInv, NothingIsKept

LEMMA ReferencesAreReleased ==
  ASSUME CanvasInv, ReleaseObsSceneReferences
  PROVE  CanvasInv'
<1>0. TypeOK /\ HeldIsReal /\ VerticalNotStale
  BY DEF CanvasInv
<1>1. /\ ~shuttingDown
      /\ sceneCanvas' = [t \in Targets |-> IF Uses(<<"scene-target", t>>) THEN sceneCanvas[t] ELSE None]
      /\ vertical' = IF Uses(<<"dsk-vertical">>) THEN vertical ELSE LetGoOfVertical(vertical)
      /\ UNCHANGED <<config, removing, session, shuttingDown, encoders, layout, persisted, unsaved>>
  BY DEF ReleaseObsSceneReferences
<1>2. /\ vertical' \in VerticalCanvas /\ HeldIsReal' /\ VerticalNotStale'
      /\ Uses(<<"dsk-vertical">>) => vertical' = vertical
  <2>1. CASE Uses(<<"dsk-vertical">>)
    BY <1>0, <1>1, <2>1 DEF TypeOK, HeldIsReal, VerticalNotStale
  <2>2. CASE ~Uses(<<"dsk-vertical">>)
    <3>1. vertical' \in VerticalCanvas /\ vertical'.held = "none"
      BY <1>0, <1>1, <2>2, VerticalIsLetGo DEF TypeOK
    <3> QED BY <3>1, <2>2 DEF HeldIsReal, VerticalNotStale
  <2> QED BY <2>1, <2>2
<1>3. sceneCanvas' \in [Targets -> SceneCanvas \cup {None}]
  BY <1>0, <1>1 DEF TypeOK
<1>4. \A u \in Targets : UsesSceneCanvas(u) /\ Uses(CanvasKey(u)) => sceneCanvas'[u] = sceneCanvas[u]
  BY <1>1, CanvasKeyIs
<1>5. TypeOK'
  BY <1>0, <1>1, <1>2, <1>3 DEF TypeOK, targets
<1>6. RefsAgree' /\ Running' = Running
  BY <1>1, RefsUntouched DEF CanvasInv, Running
<1>7. EncodersDrawFromCanvas'
  <2>0. RefsAgree /\ EncodersDrawFromCanvas
    BY DEF CanvasInv
  <2>1. ASSUME NEW u \in Running'
        PROVE  /\ u \in targets' /\ config'[u] = config[u]
               /\ UsesSceneCanvas(u) => sceneCanvas'[u] = sceneCanvas[u]
               /\ CanvasKey(u) = <<"dsk-vertical">> => vertical'.held = "current" /\ vertical'.canvas = vertical.canvas
    <3>1. u \in Targets /\ u \in targets /\ Uses(CanvasKey(u))
          /\ (CanvasKey(u) = <<"dsk-vertical">> => vertical.held = "current")
      BY <1>0, <1>6, <2>0, DrawingIs, CanvasKeyIs
    <3> QED BY <3>1, <1>1, <1>2, <1>4 DEF targets
  <2> QED BY <2>0, <2>1, <1>0, <1>1, <1>6, AllDrawOn
<1> QED BY <1>1, <1>2, <1>5, <1>6, <1>7 DEF CanvasInv, NothingIsKept

\* OBS removes or stops what no output draws from.
LEMMA ObsTakesVertical ==
  ASSUME CanvasInv, ObsRemovesVertical \/ ObsStopsVerticalVideo
  PROVE  CanvasInv'
<1>0. TypeOK /\ HeldIsReal /\ None \notin LayoutCanvas
  BY CanvasAssumption DEF CanvasInv
<1>1. /\ vertical.canvas # None /\ ~Uses(<<"dsk-vertical">>)
      /\ UNCHANGED <<config, removing, session, shuttingDown, encoders, sceneCanvas, layout, persisted, unsaved>>
  BY DEF ObsRemovesVertical, ObsStopsVerticalVideo
<1>2. vertical \in VerticalCanvas /\ vertical.canvas \in LayoutCanvas
  BY <1>0, <1>1 DEF TypeOK, VerticalCanvas
<1>3. /\ vertical' \in VerticalCanvas
      /\ vertical'.held = "current" => vertical'.canvas # None /\ vertical'.canvas.video = None
      /\ vertical.held = "none" /\ vertical.shows = None => vertical'.held = "none" /\ vertical'.shows = None
  <2>1. CASE ObsRemovesVertical
    BY <1>2, <2>1 DEF ObsRemovesVertical, VerticalCanvas
  <2>2. CASE ObsStopsVerticalVideo
    <3>1. PICK c : c = [vertical.canvas EXCEPT !.video = None]
      OBVIOUS
    <3>2. c \in LayoutCanvas /\ c.video = None
      BY <1>2, <3>1 DEF LayoutCanvas
    <3>3. vertical' = [vertical EXCEPT !.canvas = c]
      BY <2>2, <3>1 DEF ObsStopsVerticalVideo
    <3>4. vertical' \in VerticalCanvas /\ vertical'.canvas = c /\ vertical'.held = vertical.held /\ vertical'.shows = vertical.shows
      BY <1>2, <3>2, <3>3 DEF VerticalCanvas
    <3> QED BY <1>0, <3>2, <3>4
  <2> QED BY <2>1, <2>2
<1>4. HeldIsReal' /\ VerticalNotStale'
  BY <1>3 DEF HeldIsReal, VerticalNotStale, Fits
<1>5. TypeOK'
  BY <1>0, <1>1, <1>3 DEF TypeOK, targets
<1>6. RefsAgree' /\ EncodersDrawFromCanvas'
  BY <1>1, CanvasesChange
<1>7. NothingIsKept'
  BY <1>1, <1>3 DEF CanvasInv, NothingIsKept, Running
<1> QED BY <1>4, <1>5, <1>6, <1>7 DEF CanvasInv

LEMMA ObsTakesScene ==
  ASSUME CanvasInv, NEW t \in Targets, ObsTakesSceneCanvas(t)
  PROVE  CanvasInv'
<1>0. TypeOK /\ HeldIsReal /\ RefsAgree /\ EncodersDrawFromCanvas
  BY DEF CanvasInv
<1>1. /\ sceneCanvas[t] # None /\ ~Uses(<<"scene-target", t>>)
      /\ UNCHANGED <<config, removing, session, shuttingDown, encoders, vertical, layout, persisted, unsaved>>
  BY DEF ObsTakesSceneCanvas
<1>2. PICK c \in {[sceneCanvas[t] EXCEPT !.removed = TRUE], [sceneCanvas[t] EXCEPT !.video = None]} :
        sceneCanvas' = [sceneCanvas EXCEPT ![t] = c]
  BY DEF ObsTakesSceneCanvas
<1>3. sceneCanvas \in [Targets -> SceneCanvas \cup {None}] /\ sceneCanvas[t] \in SceneCanvas
  BY <1>0, <1>1 DEF TypeOK
<1>4. c \in SceneCanvas
  BY <1>3 DEF SceneCanvas
<1>5. sceneCanvas' \in [Targets -> SceneCanvas \cup {None}] /\ \A u \in Targets \ {t} : sceneCanvas'[u] = sceneCanvas[u]
  BY <1>2, <1>3, <1>4
<1>6. TypeOK'
  BY <1>0, <1>1, <1>5 DEF TypeOK, targets
<1>7. RefsAgree' /\ Running' = Running
  BY <1>0, <1>1, RefsUntouched DEF Running
<1>8. EncodersDrawFromCanvas'
  <2>1. ASSUME NEW u \in Running'
        PROVE  /\ u \in targets' /\ config'[u] = config[u]
               /\ UsesSceneCanvas(u) => sceneCanvas'[u] = sceneCanvas[u]
               /\ CanvasKey(u) = <<"dsk-vertical">> => vertical.held = "current"
    <3>1. u \in Targets /\ u \in targets /\ Uses(CanvasKey(u))
          /\ (CanvasKey(u) = <<"dsk-vertical">> => vertical.held = "current")
      BY <1>0, <1>7, DrawingIs, CanvasKeyIs
    <3>2. UsesSceneCanvas(u) => u # t
      BY <3>1, <1>1, CanvasKeyIs
    <3> QED BY <3>1, <3>2, <1>1, <1>5 DEF targets
  <2> QED BY <2>1, <1>0, <1>1, <1>7, AllDrawOn
<1>9. NothingIsKept'
  BY <1>1 DEF CanvasInv, NothingIsKept
<1> QED BY <1>1, <1>6, <1>7, <1>8, <1>9 DEF CanvasInv, HeldIsReal, VerticalNotStale

LEMMA StepHolds ==
  ASSUME CanvasInv, [Next]_vars
  PROVE  CanvasInv'
<1>1. CASE UNCHANGED vars
  BY <1>1, ZenonT(60) DEF vars, CanvasInv, TypeOK, targets, HeldIsReal, RefsAgree, EncodersDrawFromCanvas, VerticalNotStale,
              NothingIsKept, Running, UsersIn, CurrentVideo, UsesSceneCanvas, EncoderKey, CanvasKey
<1>2. CASE Next
  BY <1>2, ProgramStarts, VerticalStarts, SceneStarts, SessionEndsHolds, TargetIsAdded, TargetIsRemoved, TargetIsMutated,
     SceneModeIsSet, ObsTakesScene, LayoutsChange, ObsSceneChanges, ProfileReloads, CollectionChanges,
     ReferencesAreReleased, Unloads, ObsTakesVertical DEF Next
<1> QED BY <1>1, <1>2

LEMMA InvHolds == Spec => []CanvasInv
BY InitHolds, StepHolds, PTL DEF Spec

\* A session begins only in a start of its own target, on the canvas that
\* target uses, and a vertical one begins on what ShownVertical succeeded with.
LEMMA StartsWell ==
  ASSUME TypeOK, HeldIsReal, [Next]_vars,
         NEW t \in Targets, session[t] = None, session'[t] # None, t \in targets, config[t].group = "vertical"
  PROVE  vertical'.canvas.size = LayoutSize[layout] /\ vertical'.shows = layout
<1>0. session \in [Targets -> Session \cup {None}] /\ vertical \in VerticalCanvas /\ layout \in Layouts
  BY DEF TypeOK
<1>1. session' # session
  OBVIOUS
<1>2. ASSUME NEW S, EndSessions(S)
      PROVE  FALSE
  BY <1>2 DEF EndSessions
<1>3. ASSUME NEW u, NEW video, Begins(u, video)
      PROVE  u = t
  <2>1. PICK s : session' = session \/ session' = [session EXCEPT ![u] = s]
    BY <1>3 DEF Begins
  <2> QED BY <2>1, <1>0, <1>1
<1>4. PICK u \in Targets : StartOnProgram(u) \/ StartOnVertical(u) \/ StartOnScene(u)
  BY <1>1, <1>2 DEF Next, vars, SessionEnds, AddTarget, RemoveTarget, MutateTargetForUi, SetTargetSceneMode,
     ObsTakesSceneCanvas, Save, EditorChanges, EditorSaves, ChangeVerticalScenes, HandleObsSceneChanged,
     ReloadForCurrentProfile, ChangeSceneCollection, ReleaseObsSceneReferences, PrepareForUnload,
     ObsRemovesVertical, ObsStopsVerticalVideo
<1>5. CASE StartOnProgram(u)
  <2>1. u = t /\ CanvasKey(u) = <<"obs-program">>
    BY <1>3, <1>5 DEF StartOnProgram
  <2> QED BY <2>1, CanvasKeyIs
<1>6. CASE StartOnScene(u)
  <2>1. PICK e \in EnsuredScene(u, sceneCanvas[u]) :
          IF e.ok THEN Begins(u, e.left.video) ELSE UNCHANGED <<session, encoders>>
    BY <1>6 DEF StartOnScene
  <2>2. u = t
    BY <2>1, <1>1, <1>3
  <2> QED BY <2>2, <1>6 DEF StartOnScene, UsesSceneCanvas
<1>7. CASE StartOnVertical(u)
  <2>1. PICK e \in ShownVertical(vertical, layout) :
          /\ vertical' = e.left
          /\ IF e.ok THEN Begins(u, e.left.canvas.video) ELSE UNCHANGED <<session, encoders>>
    BY <1>7 DEF StartOnVertical
  <2>2. e.ok
    BY <2>1, <1>1
  <2> QED BY <2>1, <2>2, <1>0, ShownVerticalIs DEF Fits
<1> QED BY <1>4, <1>5, <1>6, <1>7

-----------------------------------------------------------------------------
(* Theorems *)

\* Configurations, sessions, sets of encoders and canvases are of their types
\* after any operations (the members of OutputManager they stand for).
THEOREM TypeCorrect == Spec => []TypeOK
BY InvHolds, PTL DEF CanvasInv

\* Encoders are counted: there is a set exactly while sessions use it, and it
\* counts each of them once, through starts that OBS rejects, stops in any
\* order, reloads and unloading (acquireSharedEncoders, releaseSharedEncoders).
THEOREM EncodersAreCounted == Spec => []RefsAgree
BY InvHolds, PTL DEF CanvasInv

\* Every output encodes the canvas that the manager has for its target: no
\* layout change, refresh, edit or start of another output replaces it under
\* the output, and a set of encoders that is shared is of the same canvas
\* (ensureVerticalCanvasVideo, ensureSceneCanvasForTarget, startIndependentTarget).
THEOREM OutputsDrawFromTheirCanvas == Spec => []EncodersDrawFromCanvas
BY InvHolds, PTL DEF CanvasInv

\* The vertical canvas does not go on showing a layout that was put back or
\* replaced (saveVerticalLayout, refreshVerticalCanvasScene).
THEOREM VerticalFollowsLayout == Spec => []VerticalNotStale
BY InvHolds, PTL DEF CanvasInv

\* prepareForUnload gives back every session, encoder and canvas, and nothing
\* that OBS does afterwards makes the manager hold one again.
THEOREM UnloadingKeepsNothing == Spec => []NothingIsKept
BY InvHolds, PTL DEF CanvasInv

\* A vertical output starts on a canvas of the layout's size that shows the
\* layout (videoForEncoderGroup, refreshVerticalCanvasScene).
THEOREM VerticalStartsOnItsLayout == Spec => StartsOnItsLayout
<1>1. CanvasInv /\ [Next]_vars
        => [\A t \in Targets :
              session[t] = None /\ session'[t] # None /\ t \in targets /\ config[t].group = "vertical"
                => vertical'.canvas.size = LayoutSize[layout] /\ vertical'.shows = layout]_vars
  BY StartsWell DEF CanvasInv
<1> QED BY <1>1, InvHolds, PTL DEF Spec, StartsOnItsLayout

=============================================================================
