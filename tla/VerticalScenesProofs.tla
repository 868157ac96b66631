----------------------- MODULE VerticalScenesProofs -----------------------
(***************************************************************************)
(* Proofs about VerticalScenes, for any scenes, items and forms, and for   *)
(* any file the program can have written.                                  *)
(***************************************************************************)
EXTENDS VerticalScenes, FiniteSetTheorems, SequenceTheorems, TLAPS

-----------------------------------------------------------------------------
(* Sequences *)

\* What RemoveAt leaves.
LEMMA SequenceWithoutOne ==
  ASSUME NEW S, NEW s \in Seq(S), NEW i \in 1 .. Len(s)
  PROVE  /\ RemoveAt(s, i) \in Seq(S)
         /\ Len(RemoveAt(s, i)) = Len(s) - 1
         /\ \A j \in 1 .. Len(s) - 1 : RemoveAt(s, i)[j] = IF j < i THEN s[j] ELSE s[j + 1]
<1>1. /\ SubSeq(s, 1, i - 1) \in Seq(S) /\ Len(SubSeq(s, 1, i - 1)) = i - 1
      /\ \A j \in 1 .. i - 1 : SubSeq(s, 1, i - 1)[j] = s[j]
  <2>1. Len(s) \in Nat /\ \A j \in 1 .. i - 1 : s[j] \in S
    OBVIOUS
  <2>2. 1 \in Int /\ i - 1 \in Int
    BY <2>1
  <2> QED BY <2>1, <2>2, SubSeqProperties
<1>2. /\ SubSeq(s, i + 1, Len(s)) \in Seq(S) /\ Len(SubSeq(s, i + 1, Len(s))) = Len(s) - i
      /\ \A j \in 1 .. Len(s) - i : SubSeq(s, i + 1, Len(s))[j] = s[j + i]
  <2>1. Len(s) \in Nat /\ \A j \in i + 1 .. Len(s) : s[j] \in S
    OBVIOUS
  <2>2. i + 1 \in Int /\ Len(s) \in Int
    BY <2>1
  <2> QED BY <2>1, <2>2, SubSeqProperties
<1>3. PICK a \in Seq(S), b \in Seq(S) : a = SubSeq(s, 1, i - 1) /\ b = SubSeq(s, i + 1, Len(s))
  BY <1>1, <1>2
<1>4. /\ a \o b \in Seq(S) /\ Len(a \o b) = Len(a) + Len(b)
      /\ \A j \in 1 .. Len(a) + Len(b) : (a \o b)[j] = IF j <= Len(a) THEN a[j] ELSE b[j - Len(a)]
  BY ConcatProperties
<1>5. RemoveAt(s, i) = a \o b
  BY <1>3 DEF RemoveAt
<1>6. Len(s) \in Nat /\ Len(a) = i - 1 /\ Len(b) = Len(s) - i
  BY <1>1, <1>2, <1>3
<1>7. ASSUME NEW j \in 1 .. Len(s) - 1
      PROVE  (a \o b)[j] = IF j < i THEN s[j] ELSE s[j + 1]
  <2>0. /\ j \in 1 .. Len(a) + Len(b)
        /\ (a \o b)[j] = IF j <= Len(a) THEN a[j] ELSE b[j - Len(a)]
    BY <1>4, <1>6
  <2>1. CASE j < i
    <3>1. j \in 1 .. i - 1 /\ j <= Len(a)
      BY <1>6, <2>1
    <3>2. a[j] = s[j]
      BY <1>1, <1>3, <3>1
    <3> QED BY <2>0, <2>1, <3>1, <3>2
  <2>2. CASE ~(j < i)
    <3>1. PICK k \in 1 .. Len(s) - i : k = j - Len(a) /\ k + i = j + 1 /\ ~(j <= Len(a))
      BY <1>6, <2>2
    <3>2. b[k] = s[k + i]
      BY <1>2, <1>3, <3>1
    <3> QED BY <2>0, <2>2, <3>1, <3>2
  <2> QED BY <2>1, <2>2
<1> QED BY <1>4, <1>5, <1>6, <1>7

\* Of different elements, it leaves all others, and they still differ.
LEMMA SequenceWithoutElement ==
  ASSUME NEW S, NEW s \in Seq(S), IsInjective(s), NEW i \in 1 .. Len(s)
  PROVE  IsInjective(RemoveAt(s, i)) /\ ToSet(RemoveAt(s, i)) = ToSet(s) \ {s[i]}
<1>1. PICK r : r = RemoveAt(s, i)
  OBVIOUS
<1>2. /\ r \in Seq(S) /\ Len(r) = Len(s) - 1 /\ Len(s) \in Nat
      /\ \A j \in 1 .. Len(s) - 1 : r[j] = IF j < i THEN s[j] ELSE s[j + 1]
  BY <1>1, SequenceWithoutOne, SMTT(30)
<1>3. DOMAIN r = 1 .. Len(s) - 1 /\ DOMAIN s = 1 .. Len(s)
  BY <1>2
<1>4. \A j, k \in 1 .. Len(s) : s[j] = s[k] => j = k
  BY <1>3 DEF IsInjective
<1>5. IsInjective(r)
  BY <1>2, <1>3, <1>4 DEF IsInjective
<1>6. ASSUME NEW j \in 1 .. Len(s) - 1
      PROVE  r[j] \in ToSet(s) /\ r[j] # s[i]
  BY <1>2, <1>3, <1>4, SMTT(30) DEF ToSet
<1>7. ASSUME NEW j \in 1 .. Len(s), j # i
      PROVE  s[j] \in ToSet(r)
  <2>1. CASE j < i
    BY <1>2, <1>3, <2>1 DEF ToSet
  <2>2. CASE i < j
    <3>1. j - 1 \in 1 .. Len(s) - 1 /\ ~(j - 1 < i) /\ (j - 1) + 1 = j
      BY <1>2, <2>2
    <3> QED BY <1>2, <1>3, <3>1 DEF ToSet
  <2> QED BY <1>7, <2>1, <2>2
<1>8. ToSet(r) \subseteq ToSet(s) \ {s[i]}
  BY <1>3, <1>6 DEF ToSet
<1>9. ToSet(s) \ {s[i]} \subseteq ToSet(r)
  BY <1>3, <1>7 DEF ToSet
<1> QED BY <1>1, <1>5, <1>8, <1>9

\* Swapped puts the same elements in another order.
LEMMA SwappedIsPermuted ==
  ASSUME NEW S, NEW s \in Seq(S), NEW n \in 1 .. Len(s), n + 1 \in 1 .. Len(s)
  PROVE  /\ Swapped(s, n) \in Seq(S) /\ DOMAIN Swapped(s, n) = DOMAIN s
         /\ ToSet(Swapped(s, n)) = ToSet(s)
         /\ IsInjective(s) => IsInjective(Swapped(s, n))
<1>1. PICK k \in 1 .. Len(s) : k = n + 1 /\ k # n /\ Len(s) \in Nat
  OBVIOUS
<1>2. PICK r : r = Swapped(s, n)
  OBVIOUS
<1>3. r = [s EXCEPT ![n] = s[k], ![k] = s[n]]
  BY <1>1, <1>2 DEF Swapped
<1>4. /\ r \in Seq(S) /\ DOMAIN r = 1 .. Len(s) /\ DOMAIN s = 1 .. Len(s)
      /\ \A j \in 1 .. Len(s) : r[j] = IF j = k THEN s[n] ELSE IF j = n THEN s[k] ELSE s[j]
  BY <1>1, <1>3
<1>5. ToSet(r) \subseteq ToSet(s)
  BY <1>1, <1>4 DEF ToSet
<1>6. ASSUME NEW j \in 1 .. Len(s)
      PROVE  s[j] \in ToSet(r)
  <2>1. s[n] = r[k] /\ s[k] = r[n] /\ (j \notin {n, k} => s[j] = r[j])
    BY <1>1, <1>4
  <2> QED BY <1>1, <1>4, <2>1 DEF ToSet
<1>7. ToSet(s) \subseteq ToSet(r)
  BY <1>4, <1>6 DEF ToSet
<1>8. IsInjective(s) => IsInjective(r)
  BY <1>1, <1>4 DEF IsInjective
<1> QED BY <1>2, <1>4, <1>5, <1>7, <1>8

\* What is appended is new, so the elements still differ.
LEMMA AppendedIsNew ==
  ASSUME NEW S, NEW s \in Seq(S), NEW e \in S
  PROVE  /\ Append(s, e) \in Seq(S)
         /\ ToSet(Append(s, e)) = ToSet(s) \cup {e}
         /\ IsInjective(s) /\ e \notin ToSet(s) => IsInjective(Append(s, e))
<1>1. PICK r : r = Append(s, e)
  OBVIOUS
<1>2. /\ r \in Seq(S) /\ Len(r) = Len(s) + 1 /\ Len(s) \in Nat
      /\ (\A j \in 1 .. Len(s) : r[j] = s[j]) /\ r[Len(s) + 1] = e
  BY <1>1, AppendProperties
<1>3. DOMAIN r = 1 .. Len(s) + 1 /\ DOMAIN s = 1 .. Len(s)
  BY <1>2
<1>4. \A j \in 1 .. Len(s) + 1 : j \in 1 .. Len(s) \/ j = Len(s) + 1
  BY <1>2
<1>5. ToSet(r) \subseteq ToSet(s) \cup {e}
  BY <1>2, <1>3, <1>4 DEF ToSet
<1>6. ToSet(s) \cup {e} \subseteq ToSet(r)
  <2>1. Len(s) + 1 \in DOMAIN r /\ (\A j \in DOMAIN s : j \in DOMAIN r /\ s[j] = r[j])
    BY <1>2, <1>3
  <2> QED BY <1>2, <2>1 DEF ToSet
<1>7. ASSUME IsInjective(s), e \notin ToSet(s)
      PROVE  IsInjective(r)
  <2>1. \A j \in 1 .. Len(s) : r[j] # e
    BY <1>2, <1>3, <1>7 DEF ToSet
  <2>2. \A j, k \in 1 .. Len(s) : r[j] = r[k] => j = k
    BY <1>2, <1>3, <1>7 DEF IsInjective
  <2> QED BY <1>2, <1>3, <1>4, <2>1, <2>2 DEF IsInjective
<1> QED BY <1>1, <1>2, <1>5, <1>6, <1>7
\* An order of the elements of a sequence, none twice.
LEMMA OrdersAreSequences ==
  ASSUME NEW S, NEW s \in Seq(S), NEW order \in SetToSeqs(ToSet(s))
  PROVE  order \in Seq(S) /\ IsInjective(order)
<1>1. PICK m \in Nat : m = Len(s) /\ DOMAIN s = 1 .. m
  OBVIOUS
<1>2. IsFiniteSet(ToSet(s))
  <2>1. s \in Surjection(1 .. m, ToSet(s))
    BY <1>1 DEF Surjection, ToSet
  <2> QED BY <2>1, FS_NatSurjection DEF ExistsSurjection
<1>3. Cardinality(ToSet(s)) \in Nat
  BY <1>2, FS_CardinalityType
<1>4. ToSet(s) \subseteq S
  BY DEF ToSet
<1>5. PICK n \in Nat : n = Cardinality(ToSet(s))
  BY <1>3
<1>6. order \in [1 .. n -> ToSet(s)] /\ \A i, j \in 1 .. n : i # j => order[i] # order[j]
  BY <1>5 DEF SetToSeqs
<1>7. order \in [1 .. n -> S]
  BY <1>4, <1>6
<1> QED BY <1>6, <1>7 DEF IsInjective

-----------------------------------------------------------------------------
(* Items and their ids *)

LEMMA ItemIsPair ==
  ASSUME NEW x
  PROVE  x \in Item <=> \E i \in ItemIds : \E form \in Forms[i] : x = [id |-> i, form |-> form]
BY DEF Item

LEMMA IdsAreOfItems ==
  ASSUME NEW items \in Seq(Item)
  PROVE  /\ IdsOf(items) \in Seq(ItemIds) /\ DOMAIN IdsOf(items) = DOMAIN items
         /\ Len(IdsOf(items)) = Len(items)
         /\ \A n \in DOMAIN items : IdsOf(items)[n] = items[n].id
<1>1. \A x \in Item : x.id \in ItemIds
  BY ItemIsPair
<1>2. DOMAIN items = 1 .. Len(items) /\ Len(items) \in Nat /\ \A n \in 1 .. Len(items) : items[n].id \in ItemIds
  BY <1>1
<1>3. IdsOf(items) \in [1 .. Len(items) -> ItemIds]
  BY <1>2 DEF IdsOf
<1>4. IdsOf(items) \in Seq(ItemIds) /\ Len(IdsOf(items)) = Len(items)
  BY <1>2, <1>3
<1> QED BY <1>2, <1>3, <1>4 DEF IdsOf

LEMMA SameIds ==
  ASSUME NEW items \in Seq(Item), NEW others \in Seq(Item), DOMAIN others = DOMAIN items,
         \A n \in DOMAIN items : others[n].id = items[n].id
  PROVE  IdsOf(others) = IdsOf(items)
BY DEF IdsOf

\* A form of another kind leaves an item its id.
LEMMA FormKeepsIds ==
  ASSUME NEW items \in Seq(Item), NEW n \in DOMAIN items, NEW form \in Forms[items[n].id]
  PROVE  /\ [items EXCEPT ![n].form = form] \in Seq(Item)
         /\ IdsOf([items EXCEPT ![n].form = form]) = IdsOf(items)
<1>1. PICK x \in Item : x = items[n]
  OBVIOUS
<1>2. PICK i \in ItemIds : \E old \in Forms[i] : x = [id |-> i, form |-> old]
  BY ItemIsPair
<1>3. PICK y : y = [x EXCEPT !.form = form]
  OBVIOUS
<1>4. y = [id |-> i, form |-> form] /\ x.id = i
  BY <1>2, <1>3
<1>5. y \in Item /\ y.id = x.id
  BY <1>1, <1>4, ItemIsPair
<1>6. PICK r : r = [items EXCEPT ![n] = y]
  OBVIOUS
<1>7. r = [items EXCEPT ![n].form = form]
  BY <1>1, <1>3, <1>6
<1>8. r \in Seq(Item) /\ DOMAIN r = DOMAIN items /\ \A k \in DOMAIN items : r[k] = IF k = n THEN y ELSE items[k]
  BY <1>5, <1>6
<1>9. \A k \in DOMAIN items : r[k].id = items[k].id
  BY <1>1, <1>5, <1>8
<1>10. IdsOf(r) = IdsOf(items)
  BY <1>8, <1>9, SameIds
<1> QED BY <1>7, <1>8, <1>10
-----------------------------------------------------------------------------
(* Managers and files that fit together *)

Layouts == [SceneIds -> Seq(Item)]
Links   == [ObsScenes -> Link \cup {None}]

Good(m)     == m \in Manager /\ Whole(m) /\ m.vertical = m.layout[m.active]
GoodFile(f) == f \in Saved /\ Whole(f)

\* The two types, field by field.
LEMMA ManagerIs ==
  ASSUME NEW m \in Manager
  PROVE  /\ m = [scenes |-> m.scenes, layout |-> m.layout, active |-> m.active, vertical |-> m.vertical,
                 follow |-> m.follow, links |-> m.links]
         /\ m.scenes \in Seq(SceneIds) /\ m.layout \in Layouts /\ m.active \in SceneIds
         /\ m.vertical \in Seq(Item) /\ m.links \in Links
BY DEF Manager, Layouts, Links

LEMMA SavedIs ==
  ASSUME NEW f \in Saved
  PROVE  /\ f = [scenes |-> f.scenes, layout |-> f.layout, active |-> f.active, follow |-> f.follow,
                 links |-> f.links]
         /\ f.scenes \in Seq(SceneIds) /\ f.layout \in Layouts /\ f.active \in SceneIds
         /\ f.links \in Links
BY DEF Saved, Layouts, Links

\* What is loaded from a whole file is good, and its next save writes that file again.
LEMMA LoadedIsGood ==
  ASSUME NEW f, GoodFile(f)
  PROVE  Good(Loaded(f)) /\ Persistent(Loaded(f)) = f
<1>1. /\ f = [scenes |-> f.scenes, layout |-> f.layout, active |-> f.active, follow |-> f.follow,
              links |-> f.links]
      /\ f.layout \in Layouts /\ f.active \in SceneIds
  BY SavedIs DEF GoodFile
<1>2. f.layout[f.active] \in Seq(Item)
  BY <1>1 DEF Layouts
<1>3. Loaded(f) \in Manager
  BY <1>2 DEF Loaded, Manager, GoodFile, Saved
<1>4. Whole(Loaded(f))
  BY DEF GoodFile, Whole, Loaded, Scenes, ItemsOf
<1>5. Loaded(f).vertical = Loaded(f).layout[Loaded(f).active]
  BY DEF Loaded
<1>6. Persistent(Loaded(f)) = f
  BY <1>1 DEF Persistent, Loaded
<1> QED BY <1>3, <1>4, <1>5, <1>6 DEF Good

\* What a good manager writes is a whole file, from which it would load itself.
LEMMA PersistentIsGood ==
  ASSUME NEW m, Good(m)
  PROVE  GoodFile(Persistent(m)) /\ m = Loaded(Persistent(m))
<1>1. m \in Manager /\ m.vertical = m.layout[m.active]
  BY DEF Good
<1>2. Persistent(m) \in Saved
  BY <1>1 DEF Persistent, Manager, Saved
<1>3. Whole(Persistent(m))
  BY DEF Good, Whole, Persistent, Scenes, ItemsOf
<1>4. m = Loaded(Persistent(m))
  BY <1>1, ManagerIs DEF Loaded, Persistent
<1> QED BY <1>2, <1>3, <1>4 DEF GoodFile

\* A failed save loads what is saved again: links and the follow flag are as they are there.
LEMMA RestoredIs ==
  ASSUME NEW m \in Manager, NEW f
  PROVE  Restored(m, f) = [scenes |-> f.scenes, layout |-> f.layout, active |-> f.active,
                           vertical |-> f.layout[f.active], follow |-> m.follow, links |-> m.links]
<1>1. m = [scenes |-> m.scenes, layout |-> m.layout, active |-> m.active, vertical |-> m.vertical,
           follow |-> m.follow, links |-> m.links]
  BY ManagerIs
<1>2. PICK items : items = f.layout[f.active]
  OBVIOUS
<1>3. PICK w : w = [m EXCEPT !.scenes = f.scenes, !.layout = f.layout, !.active = f.active, !.vertical = items]
  OBVIOUS
<1>4. w = [scenes |-> f.scenes, layout |-> f.layout, active |-> f.active, vertical |-> items,
           follow |-> m.follow, links |-> m.links]
  BY <1>1, <1>3
<1>5. w = Restored(m, f)
  BY <1>2, <1>3 DEF Restored
<1> QED BY <1>2, <1>4, <1>5

LEMMA RestoredIsLoaded ==
  ASSUME NEW m \in Manager, NEW f, m.follow = f.follow
  PROVE  /\ m.links = f.links => Restored(m, f) = Loaded(f)
         /\ [Restored(m, f) EXCEPT !.links = f.links] = Loaded(f)
<1>1. PICK r : r = Restored(m, f)
  OBVIOUS
<1>2. r = [scenes |-> f.scenes, layout |-> f.layout, active |-> f.active,
           vertical |-> f.layout[f.active], follow |-> f.follow, links |-> m.links]
  BY <1>1, RestoredIs
<1>3. m.links = f.links => r = Loaded(f)
  BY <1>2 DEF Loaded
<1>4. [r EXCEPT !.links = f.links] = Loaded(f)
  <2>1. PICK items : items = f.layout[f.active]
    OBVIOUS
  <2>2. r = [scenes |-> f.scenes, layout |-> f.layout, active |-> f.active,
             vertical |-> items, follow |-> f.follow, links |-> m.links]
    BY <1>2, <2>1
  <2>3. [r EXCEPT !.links = f.links] =
          [scenes |-> f.scenes, layout |-> f.layout, active |-> f.active,
           vertical |-> items, follow |-> f.follow, links |-> f.links]
    BY <2>2
  <2> QED BY <2>1, <2>3 DEF Loaded
<1> QED BY <1>1, <1>3, <1>4

\* The file is what the manager would write.
Settled == GoodFile(file) /\ mem = Loaded(file)

LEMMA SavesSettle ==
  ASSUME NEW m, Good(m), NEW f, GoodFile(f), m.links = f.links, m.follow = f.follow, SaveOrRestore(m, f)
  PROVE  Settled'
<1>1. CASE mem' = m /\ file' = Persistent(m)
  BY <1>1, PersistentIsGood DEF Settled
<1>2. CASE mem' = Restored(m, f) /\ file' = f
  BY <1>2, RestoredIsLoaded DEF Settled, Good
<1> QED BY <1>1, <1>2 DEF SaveOrRestore

LEMMA SavesOrUndoes ==
  ASSUME NEW m, Good(m), SaveOrUndo(m)
  PROVE  Settled' \/ UNCHANGED <<mem, file>>
BY PersistentIsGood DEF SaveOrUndo, Settled

-----------------------------------------------------------------------------
(* What LayoutManager's operations make of a good manager *)

LEMMA SelectedIsGood ==
  ASSUME NEW m, Good(m), NEW s \in Scenes(m)
  PROVE  /\ Good(Selected(m, s))
         /\ Selected(m, s).links = m.links /\ Selected(m, s).follow = m.follow
         /\ Selected(m, s).scenes = m.scenes /\ Selected(m, s).layout = m.layout
<1>1. PICK w : w = Selected(m, s)
  OBVIOUS
<1>2. s \in SceneIds
  BY ManagerIs DEF Good, Scenes, ToSet
<1>3. w = [scenes |-> m.scenes, layout |-> m.layout, active |-> s, vertical |-> m.layout[s],
           follow |-> m.follow, links |-> m.links]
  <2>1. m = [scenes |-> m.scenes, layout |-> m.layout, active |-> m.active, vertical |-> m.vertical,
             follow |-> m.follow, links |-> m.links]
    BY ManagerIs DEF Good
  <2>2. PICK items : items = m.layout[s]
    OBVIOUS
  <2>3. w = [m EXCEPT !.active = s, !.vertical = items]
    BY <1>1, <2>2 DEF Selected
  <2>4. w = [scenes |-> m.scenes, layout |-> m.layout, active |-> s, vertical |-> items,
             follow |-> m.follow, links |-> m.links]
    BY <2>1, <2>3
  <2> QED BY <2>2, <2>4
<1>4. m.layout[s] \in Seq(Item)
  BY <1>2, ManagerIs DEF Good, Layouts
<1>5. w \in Manager
  BY <1>2, <1>3, <1>4 DEF Manager, Good
<1>6. Whole(w)
  BY <1>3 DEF Good, Whole, Scenes, ItemsOf
<1> QED BY <1>1, <1>3, <1>5, <1>6 DEF Good

\* The scenes may take another order.
LEMMA ReorderedIsGood ==
  ASSUME NEW m, Good(m), NEW order \in Seq(SceneIds), IsInjective(order), ToSet(order) = Scenes(m)
  PROVE  Good([m EXCEPT !.scenes = order])
<1>1. PICK w : w = [m EXCEPT !.scenes = order]
  OBVIOUS
<1>2. w = [scenes |-> order, layout |-> m.layout, active |-> m.active, vertical |-> m.vertical,
           follow |-> m.follow, links |-> m.links]
  BY <1>1, ManagerIs DEF Good
<1>3. w \in Manager
  BY <1>2 DEF Manager, Good
<1>4. Whole(w)
  BY <1>2 DEF Good, Whole, Scenes, ItemsOf
<1> QED BY <1>1, <1>2, <1>3, <1>4 DEF Good

\* So may the links lead elsewhere, to scenes that exist.
LEMMA RelinkedIsGood ==
  ASSUME NEW m, Good(m), NEW links \in Links,
         \A o \in ObsScenes : links[o] # None => links[o].scene \in Scenes(m)
  PROVE  Good([m EXCEPT !.links = links])
<1>1. PICK w : w = [m EXCEPT !.links = links]
  OBVIOUS
<1>2. w = [scenes |-> m.scenes, layout |-> m.layout, active |-> m.active, vertical |-> m.vertical,
           follow |-> m.follow, links |-> links]
  BY <1>1, ManagerIs DEF Good
<1>3. w \in Manager
  BY <1>2 DEF Manager, Good, Links
<1>4. Whole(w)
  BY <1>2 DEF Good, Whole, Scenes, ItemsOf
<1> QED BY <1>1, <1>2, <1>3, <1>4 DEF Good
\* The active scene may get other items, of which no other scene has one.
LEMMA LayoutIsGood ==
  ASSUME NEW m, Good(m), NEW items \in Seq(Item), IsInjective(IdsOf(items)),
         \A s \in SceneIds : s # m.active => ToSet(IdsOf(items)) \cap ItemsOf(m, s) = {}
  PROVE  Good(WithLayout(m, items))
<1>0. /\ m = [scenes |-> m.scenes, layout |-> m.layout, active |-> m.active, vertical |-> m.vertical,
              follow |-> m.follow, links |-> m.links]
      /\ m.layout \in Layouts /\ m.active \in SceneIds
  BY ManagerIs DEF Good
<1>1. PICK lay : lay = [m.layout EXCEPT ![m.active] = items]
  OBVIOUS
<1>2. /\ lay \in Layouts /\ lay[m.active] = items
      /\ \A s \in SceneIds : s # m.active => lay[s] = m.layout[s]
  BY <1>0, <1>1 DEF Layouts
<1>3. PICK w : w = WithLayout(m, items)
  OBVIOUS
<1>4. w = [scenes |-> m.scenes, layout |-> lay, active |-> m.active, vertical |-> items,
           follow |-> m.follow, links |-> m.links]
  <2>1. w = [[m EXCEPT !.vertical = items] EXCEPT !.layout = [@ EXCEPT ![m.active] = items]]
    BY <1>3 DEF WithLayout
  <2>2. PICK z : z = [m EXCEPT !.vertical = items]
    OBVIOUS
  <2>3. z = [scenes |-> m.scenes, layout |-> m.layout, active |-> m.active, vertical |-> items,
             follow |-> m.follow, links |-> m.links]
    BY <1>0, <2>2
  <2>4. z.layout = m.layout
    BY <2>3
  <2>5. w = [z EXCEPT !.layout = lay]
    BY <1>1, <2>1, <2>2, <2>4
  <2> QED BY <2>3, <2>5
<1>5. w \in Manager
  BY <1>2, <1>4 DEF Manager, Good, Layouts
<1>6. Whole(w)
  <2>1. w.active \in Scenes(w) /\ IsInjective(w.scenes)
    BY <1>4 DEF Good, Whole, Scenes
  <2>2. \A o \in ObsScenes : w.links[o] # None => w.links[o].scene \in Scenes(w)
    BY <1>4 DEF Good, Whole, Scenes
  <2>3. ASSUME NEW s \in SceneIds
        PROVE  IsInjective(IdsOf(w.layout[s])) /\ (s \notin Scenes(w) => w.layout[s] = << >>)
    <3>1. CASE s = m.active
      BY <1>2, <1>4, <2>1, <3>1
    <3>2. CASE s # m.active
      BY <1>2, <1>4, <3>2 DEF Good, Whole, Scenes
    <3> QED BY <3>1, <3>2
  <2>4. ASSUME NEW s \in SceneIds
        PROVE  ItemsOf(w, s) = IF s = m.active THEN ToSet(IdsOf(items)) ELSE ItemsOf(m, s)
    BY <1>2, <1>4 DEF ItemsOf
  <2>5. ASSUME NEW s \in SceneIds, NEW r \in SceneIds, s # r
        PROVE  ItemsOf(w, s) \cap ItemsOf(w, r) = {}
    <3>1. ItemsOf(m, s) \cap ItemsOf(m, r) = {}
      BY <2>5 DEF Good, Whole
    <3> QED BY <1>0, <2>4, <2>5, <3>1
  <2> QED BY <2>1, <2>2, <2>3, <2>5 DEF Whole
<1> QED BY <1>2, <1>3, <1>4, <1>5, <1>6 DEF Good

\* It may get fewer, or the same in another order or of another form.
LEMMA FewerItemsAreGood ==
  ASSUME NEW m, Good(m), NEW items \in Seq(Item), IsInjective(IdsOf(items)),
         ToSet(IdsOf(items)) \subseteq ToSet(IdsOf(m.vertical))
  PROVE  Good(WithLayout(m, items))
<1>1. m.active \in SceneIds /\ ToSet(IdsOf(items)) \subseteq ItemsOf(m, m.active)
  BY ManagerIs DEF Good, ItemsOf
<1>2. ASSUME NEW s \in SceneIds, s # m.active
      PROVE  ItemsOf(m, m.active) \cap ItemsOf(m, s) = {}
  BY <1>1, <1>2 DEF Good, Whole
<1> QED BY <1>1, <1>2, LayoutIsGood

\* In a good manager the items of the active scene differ.
LEMMA WorkingCopyIsWhole ==
  ASSUME NEW m, Good(m)
  PROVE  m.vertical \in Seq(Item) /\ IsInjective(IdsOf(m.vertical)) /\ m.active \in SceneIds
<1>1. m.active \in SceneIds /\ m.vertical \in Seq(Item) /\ m.vertical = m.layout[m.active]
  BY ManagerIs DEF Good
<1>2. IsInjective(IdsOf(m.layout[m.active]))
  BY <1>1 DEF Good, Whole
<1> QED BY <1>1, <1>2

\* A new scene has no items yet.
LEMMA CreatedIsGood ==
  ASSUME NEW m, Good(m), NEW s \in SceneIds \ Scenes(m)
  PROVE  Good(Created(m, s)) /\ Created(m, s).links = m.links /\ Created(m, s).follow = m.follow
<1>0. /\ m = [scenes |-> m.scenes, layout |-> m.layout, active |-> m.active, vertical |-> m.vertical,
              follow |-> m.follow, links |-> m.links]
      /\ m.layout \in Layouts /\ m.scenes \in Seq(SceneIds)
  BY ManagerIs DEF Good
<1>1. m.layout[s] = << >>
  BY DEF Good, Whole
<1>2. [m.layout EXCEPT ![s] = << >>] = m.layout
  BY <1>0, <1>1 DEF Layouts
<1>3. PICK order : order = Append(m.scenes, s)
  OBVIOUS
<1>4. order \in Seq(SceneIds) /\ ToSet(order) = Scenes(m) \cup {s} /\ IsInjective(order)
  BY <1>0, <1>3, AppendedIsNew DEF Good, Whole, Scenes
<1>5. PICK w : w = Created(m, s)
  OBVIOUS
<1>6. w = [scenes |-> order, layout |-> m.layout, active |-> s, vertical |-> << >>,
           follow |-> m.follow, links |-> m.links]
  <2>1. PICK z : z = [m EXCEPT !.scenes = order]
    OBVIOUS
  <2>2. z = [scenes |-> order, layout |-> m.layout, active |-> m.active, vertical |-> m.vertical,
             follow |-> m.follow, links |-> m.links]
    BY <1>0, <2>1
  <2>3. w = [[[z EXCEPT !.layout = [z.layout EXCEPT ![s] = << >>]] EXCEPT !.active = s] EXCEPT !.vertical = << >>]
    BY <1>3, <1>5, <2>1 DEF Created
  <2>4. [z.layout EXCEPT ![s] = << >>] = m.layout
    BY <1>2, <2>2
  <2>5. w = [[[z EXCEPT !.layout = m.layout] EXCEPT !.active = s] EXCEPT !.vertical = << >>]
    BY <2>3, <2>4
  <2> QED BY <2>2, <2>5
<1>7. w \in Manager
  BY <1>4, <1>6 DEF Manager, Good
<1>8. Whole(w)
  <2>1. Scenes(w) = Scenes(m) \cup {s} /\ w.active \in Scenes(w) /\ IsInjective(w.scenes)
    BY <1>4, <1>6 DEF Scenes
  <2> QED BY <1>6, <2>1 DEF Good, Whole, ItemsOf
<1> QED BY <1>1, <1>5, <1>6, <1>7, <1>8 DEF Good
\* Without a scene its items and its links are gone, and a scene is left to be the active one.
LEMMA RemovedIsGood ==
  ASSUME NEW m, Good(m), NEW s \in Scenes(m), Len(m.scenes) > 1
  PROVE  Good(Unlinked(Removed(m, s), s)) /\ Unlinked(Removed(m, s), s).follow = m.follow
<1>0. /\ m = [scenes |-> m.scenes, layout |-> m.layout, active |-> m.active, vertical |-> m.vertical,
              follow |-> m.follow, links |-> m.links]
      /\ m.layout \in Layouts /\ m.scenes \in Seq(SceneIds) /\ m.active \in SceneIds /\ m.links \in Links
      /\ m.vertical \in Seq(Item) /\ s \in SceneIds
  BY ManagerIs DEF Good, Scenes, ToSet
<1>1. PICK at : at = CHOOSE n \in DOMAIN m.scenes : m.scenes[n] = s
  OBVIOUS
<1>2. at \in 1 .. Len(m.scenes) /\ m.scenes[at] = s
  <2>1. \E n \in DOMAIN m.scenes : m.scenes[n] = s
    BY DEF Scenes, ToSet
  <2> QED BY <1>0, <1>1, <2>1
<1>3. PICK rest : rest = RemoveAt(m.scenes, at)
  OBVIOUS
<1>4. /\ rest \in Seq(SceneIds) /\ Len(rest) = Len(m.scenes) - 1 /\ Len(m.scenes) \in Nat
      /\ IsInjective(rest) /\ ToSet(rest) = Scenes(m) \ {s}
  <2>1. IsInjective(m.scenes)
    BY DEF Good, Whole
  <2> QED BY <1>0, <1>2, <1>3, <2>1, SequenceWithoutOne, SequenceWithoutElement DEF Scenes
<1>5. PICK next : next = rest[IF at <= Len(rest) THEN at ELSE Len(rest)]
  OBVIOUS
<1>6. next \in ToSet(rest) /\ next \in SceneIds
  <2>1. PICK n \in 1 .. Len(rest) : n = IF at <= Len(rest) THEN at ELSE Len(rest)
    BY <1>2, <1>4
  <2> QED BY <1>4, <1>5, <2>1 DEF ToSet
<1>7. PICK lay : lay = [m.layout EXCEPT ![s] = << >>]
  OBVIOUS
<1>8. lay \in Layouts /\ lay[s] = << >> /\ \A r \in SceneIds : r # s => lay[r] = m.layout[r]
  BY <1>0, <1>7 DEF Layouts
<1>9. PICK links : links = [o \in ObsScenes |-> IF m.links[o] # None /\ m.links[o].scene = s THEN None ELSE m.links[o]]
  OBVIOUS
<1>10. /\ links \in Links
       /\ \A o \in ObsScenes : links[o] # None => links[o] = m.links[o] /\ links[o].scene # s
  BY <1>0, <1>9 DEF Links
<1>11. PICK kept : kept = [m EXCEPT !.scenes = rest, !.layout[s] = << >>]
  OBVIOUS
<1>12. kept = [scenes |-> rest, layout |-> lay, active |-> m.active, vertical |-> m.vertical,
               follow |-> m.follow, links |-> m.links]
  <2>1. PICK z : z = [m EXCEPT !.scenes = rest]
    OBVIOUS
  <2>2. z = [scenes |-> rest, layout |-> m.layout, active |-> m.active, vertical |-> m.vertical,
             follow |-> m.follow, links |-> m.links]
    BY <1>0, <2>1
  <2>3. kept = [z EXCEPT !.layout = [z.layout EXCEPT ![s] = << >>]]
    BY <1>11, <2>1
  <2>4. [z.layout EXCEPT ![s] = << >>] = lay
    BY <1>7, <2>2
  <2>5. kept = [z EXCEPT !.layout = lay]
    BY <2>3, <2>4
  <2> QED BY <2>2, <2>5
<1>13. Removed(m, s) = IF m.active = s THEN Selected(kept, next) ELSE kept
  BY <1>1, <1>3, <1>5, <1>11 DEF Removed
<1>14. PICK active \in SceneIds, items \in Seq(Item) :
         /\ Removed(m, s) = [scenes |-> rest, layout |-> lay, active |-> active, vertical |-> items,
                             follow |-> m.follow, links |-> m.links]
         /\ active \in ToSet(rest) /\ items = lay[active]
  <2>1. CASE m.active = s
    <3>1. PICK items : items = lay[next]
      OBVIOUS
    <3>2. items \in Seq(Item)
      BY <1>6, <1>8, <3>1 DEF Layouts
    <3>3. PICK z : z = [kept EXCEPT !.active = next, !.vertical = items]
      OBVIOUS
    <3>4. z = [scenes |-> rest, layout |-> lay, active |-> next, vertical |-> items,
               follow |-> m.follow, links |-> m.links]
      BY <1>12, <3>3
    <3>5. kept.layout = lay
      BY <1>12
    <3>6. Removed(m, s) = z
      BY <1>13, <2>1, <3>1, <3>3, <3>5 DEF Selected
    <3> QED BY <1>6, <3>1, <3>2, <3>4, <3>6
  <2>2. CASE m.active # s
    <3>1. Removed(m, s) = kept
      BY <1>13, <2>2
    <3>2. m.active \in ToSet(rest)
      BY <1>4, <2>2 DEF Good, Whole
    <3>3. m.vertical = lay[m.active]
      BY <1>0, <1>8, <2>2 DEF Good
    <3> QED BY <1>0, <1>12, <3>1, <3>2, <3>3
  <2> QED BY <2>1, <2>2
<1>15. PICK w : w = Unlinked(Removed(m, s), s)
  OBVIOUS
<1>16. w = [scenes |-> rest, layout |-> lay, active |-> active, vertical |-> items,
            follow |-> m.follow, links |-> links]
  <2>1. PICK z : z = Removed(m, s)
    OBVIOUS
  <2>2. z = [scenes |-> rest, layout |-> lay, active |-> active, vertical |-> items,
             follow |-> m.follow, links |-> m.links]
    BY <1>14, <2>1
  <2>3. z.links = m.links
    BY <2>2
  <2>4. w = [z EXCEPT !.links = [o \in ObsScenes |-> IF z.links[o] # None /\ z.links[o].scene = s
                                                       THEN None ELSE z.links[o]]]
    BY <1>15, <2>1 DEF Unlinked
  <2>5. w = [z EXCEPT !.links = links]
    BY <1>9, <2>3, <2>4
  <2> QED BY <2>2, <2>5
<1>17. w \in Manager
  BY <1>4, <1>8, <1>10, <1>16 DEF Manager, Layouts, Links, Good
<1>18. Whole(w)
  <2>1. Scenes(w) = Scenes(m) \ {s} /\ w.active \in Scenes(w) /\ IsInjective(w.scenes)
    BY <1>4, <1>14, <1>16 DEF Scenes
  <2>2. ASSUME NEW o \in ObsScenes, w.links[o] # None
        PROVE  w.links[o].scene \in Scenes(w)
    <3>1. w.links[o] = m.links[o] /\ w.links[o].scene # s /\ m.links[o] # None
      BY <1>10, <1>16, <2>2
    <3>2. m.links[o].scene \in Scenes(m)
      BY <3>1 DEF Good, Whole
    <3> QED BY <2>1, <3>1, <3>2
  <2>3. IdsOf(<< >>) = << >> /\ IsInjective(IdsOf(<< >>)) /\ ToSet(IdsOf(<< >>)) = {}
    <3>1. IdsOf(<< >>) = << >>
      BY DEF IdsOf
    <3> QED BY <3>1 DEF IsInjective, ToSet
  <2>4. ASSUME NEW r \in SceneIds
        PROVE  IsInjective(IdsOf(w.layout[r])) /\ (r \notin Scenes(w) => w.layout[r] = << >>)
    <3>1. CASE r = s
      BY <1>8, <1>16, <2>3, <3>1
    <3>2. CASE r # s
      BY <1>8, <1>16, <2>1, <3>2 DEF Good, Whole
    <3> QED BY <3>1, <3>2
  <2>5. ASSUME NEW r \in SceneIds
        PROVE  ItemsOf(w, r) = IF r = s THEN {} ELSE ItemsOf(m, r)
    BY <1>8, <1>16, <2>3 DEF ItemsOf
  <2>6. ASSUME NEW q \in SceneIds, NEW r \in SceneIds, q # r
        PROVE  ItemsOf(w, q) \cap ItemsOf(w, r) = {}
    <3>1. ItemsOf(m, q) \cap ItemsOf(m, r) = {}
      BY <2>6 DEF Good, Whole
    <3> QED BY <2>5, <3>1
  <2> QED BY <2>1, <2>2, <2>4, <2>6 DEF Whole
<1> QED BY <1>14, <1>15, <1>16, <1>17, <1>18 DEF Good
-----------------------------------------------------------------------------
(* The invariant, and what a step makes of it *)

EditorTypes ==
  /\ saveTimer \in BOOLEAN
  /\ posted \subseteq {"select", "visibility"}
  /\ dropped \in Drop \cup {None}
  /\ shown \in Seq(ItemIds)
  /\ drag \in Nat \cup {None}

SceneInv == TypeOK /\ ScenesAreWhole /\ OnlyEditsAwaitSaving /\ RowsAreCurrent

\* Manager and file are good, and agree but for the edits that await saving.
Agrees(m, f) ==
  /\ m.scenes = f.scenes /\ m.links = f.links /\ m.follow = f.follow
  /\ \A s \in SceneIds : IdsOf(m.layout[s]) = IdsOf(f.layout[s])

LEMMA InvariantIs ==
  SceneInv <=> Good(mem) /\ GoodFile(file) /\ Agrees(mem, file) /\ EditorTypes /\ RowsAreCurrent
<1>1. TypeOK <=> mem \in Manager /\ file \in Saved /\ EditorTypes
  BY DEF TypeOK, EditorTypes
<1>2. ScenesAreWhole <=> mem.vertical = mem.layout[mem.active] /\ Whole(mem) /\ Whole(file)
  BY DEF ScenesAreWhole
<1>3. OnlyEditsAwaitSaving <=> Agrees(mem, file)
  BY DEF OnlyEditsAwaitSaving, Agrees
<1> QED BY <1>1, <1>2, <1>3 DEF SceneInv, Good, GoodFile

LEMMA LoadedAgrees ==
  ASSUME NEW f, GoodFile(f)
  PROVE  Agrees(Loaded(f), f)
BY DEF Agrees, Loaded

\* The active scene, or the form of items, is changed, and a save is on its way.
EditAwaitsSave ==
  /\ Good(mem)' /\ UNCHANGED file /\ SavePending'
  /\ mem'.scenes = mem.scenes /\ mem'.links = mem.links /\ mem'.follow = mem.follow
  /\ \A s \in SceneIds : IdsOf(mem'.layout[s]) = IdsOf(mem.layout[s])

\* What a step does to manager and file.
Outcome ==
  \/ Settled'
  \/ EditAwaitsSave
  \/ UNCHANGED <<mem, file, saveTimer, posted>>
  \/ PrepareForUnload

\* And what it leaves of the editor.
Kept == Outcome /\ EditorTypes' /\ RowsAreCurrent'

LEMMA KeptIsEnough ==
  ASSUME SceneInv, Kept
  PROVE  /\ Good(mem)' /\ GoodFile(file)' /\ Agrees(mem, file)' /\ EditorTypes' /\ RowsAreCurrent'
         /\ (Unsaved /\ ~SavePending)' => (Unsaved /\ ~SavePending) \/ PrepareForUnload
<1>0. Good(mem) /\ GoodFile(file) /\ Agrees(mem, file)
  BY InvariantIs
<1>1. EditorTypes' /\ RowsAreCurrent'
  BY DEF Kept
<1>2. CASE Settled'
  <2>1. PICK f : f = file' /\ GoodFile(f) /\ mem' = Loaded(f)
    BY <1>2 DEF Settled
  <2>2. Good(Loaded(f)) /\ Agrees(Loaded(f), f) /\ Persistent(Loaded(f)) = f
    BY <2>1, LoadedIsGood, LoadedAgrees
  <2>3. ~Unsaved'
    BY <2>1, <2>2 DEF Unsaved
  <2> QED BY <1>1, <2>1, <2>2, <2>3
<1>3. CASE EditAwaitsSave
  <2>1. Good(mem)' /\ GoodFile(file)' /\ SavePending'
    BY <1>0, <1>3 DEF EditAwaitsSave
  <2>2. Agrees(mem, file)'
    BY <1>0, <1>3 DEF EditAwaitsSave, Agrees
  <2> QED BY <1>1, <2>1, <2>2
<1>4. CASE UNCHANGED <<mem, file, saveTimer, posted>>
  BY <1>0, <1>1, <1>4 DEF Unsaved, SavePending
<1>5. CASE PrepareForUnload
  <2>1. UNCHANGED <<mem, file>>
    BY <1>5 DEF PrepareForUnload
  <2> QED BY <1>0, <1>1, <1>5, <2>1
<1> QED BY <1>2, <1>3, <1>4, <1>5 DEF Kept, Outcome

\* Rows that are refreshed are those of the working copy.
LEMMA RefreshedRowsAreCurrent ==
  ASSUME EditorTypes, NEW m, mem' = m, m.vertical \in Seq(Item), Refresh(m),
         saveTimer' \in BOOLEAN, posted' \subseteq {"select", "visibility"}, dropped' \in Drop \cup {None}
  PROVE  EditorTypes' /\ RowsAreCurrent'
<1>1. PICK rows : rows = IdsOf(m.vertical)
  OBVIOUS
<1>2. rows \in Seq(ItemIds) /\ DOMAIN rows = 1 .. Len(rows)
  BY <1>1, IdsAreOfItems
<1>3. shown' = rows
  BY <1>1 DEF Refresh
<1>4. drag' \in Nat \cup {None}
  <2>1. drag' = IF drag = None THEN None ELSE IF rows = << >> THEN 0 ELSE IF drag \in DOMAIN rows THEN drag ELSE 1
    BY <1>1 DEF Refresh
  <2>2. drag \in Nat \cup {None}
    BY DEF EditorTypes
  <2> QED BY <2>1, <2>2
<1>5. EditorTypes'
  BY <1>2, <1>3, <1>4 DEF EditorTypes
<1>6. RowsAreCurrent'
  BY <1>1, <1>3 DEF RowsAreCurrent
<1> QED BY <1>5, <1>6

\* The outcome of every save of the layout.
LEMMA SavedLayoutIsKept ==
  ASSUME EditorTypes, NEW m, Good(m), NEW f, GoodFile(f), m.links = f.links, m.follow = f.follow,
         SaveVerticalLayout(m, f),
         saveTimer' \in BOOLEAN, posted' \subseteq {"select", "visibility"}, dropped' \in Drop \cup {None}
  PROVE  Kept
<1>1. SaveOrRestore(m, f) /\ Refresh(mem')
  BY DEF SaveVerticalLayout
<1>2. Settled'
  BY <1>1, SavesSettle
<1>3. PICK n : n = mem' /\ Good(n)
  BY <1>2, LoadedIsGood DEF Settled
<1>4. n.vertical \in Seq(Item)
  BY <1>3, WorkingCopyIsWhole
<1>5. Refresh(n)
  BY <1>1, <1>3
<1>6. EditorTypes' /\ RowsAreCurrent'
  BY <1>3, <1>4, <1>5, RefreshedRowsAreCurrent
<1> QED BY <1>2, <1>6 DEF Kept, Outcome

\* Of a step that leaves timer, posts and drop alone and refreshes the rows.
LEMMA RefreshedIsKept ==
  ASSUME EditorTypes, Good(mem), Settled' \/ UNCHANGED <<mem, file>>, Refresh(mem'),
         UNCHANGED <<saveTimer, posted>>, dropped' \in Drop \cup {None}
  PROVE  Kept
<1>1. Outcome
  BY DEF Outcome
<1>2. PICK n : n = mem' /\ Good(n)
  BY LoadedIsGood DEF Settled
<1>3. n.vertical \in Seq(Item)
  BY <1>2, WorkingCopyIsWhole
<1>4. Refresh(n)
  BY <1>2
<1>5. saveTimer' \in BOOLEAN /\ posted' \subseteq {"select", "visibility"}
  BY DEF EditorTypes
<1>6. EditorTypes' /\ RowsAreCurrent'
  BY <1>2, <1>3, <1>4, <1>5, RefreshedRowsAreCurrent
<1> QED BY <1>1, <1>6 DEF Kept
-----------------------------------------------------------------------------
(* The manager's actions *)

\* What an action finds.
LEMMA InvariantGives ==
  ASSUME SceneInv
  PROVE  /\ Good(mem) /\ GoodFile(file) /\ EditorTypes
         /\ mem.links = file.links /\ mem.follow = file.follow /\ mem.scenes = file.scenes
         /\ mem.scenes \in Seq(SceneIds) /\ IsInjective(mem.scenes) /\ mem.active \in Scenes(mem)
         /\ mem.vertical \in Seq(Item) /\ mem.links \in Links /\ mem.layout \in Layouts
         /\ saveTimer \in BOOLEAN /\ posted \subseteq {"select", "visibility"} /\ dropped \in Drop \cup {None}
         /\ shown \in Seq(ItemIds) /\ drag \in Nat \cup {None}
<1>1. Good(mem) /\ GoodFile(file) /\ Agrees(mem, file) /\ EditorTypes
  BY InvariantIs
<1>2. PICK m : m = mem
  OBVIOUS
<1>3. /\ m.scenes \in Seq(SceneIds) /\ m.vertical \in Seq(Item) /\ m.links \in Links /\ m.layout \in Layouts
      /\ IsInjective(m.scenes) /\ m.active \in Scenes(m)
  BY <1>1, <1>2, ManagerIs DEF Good, Whole
<1>4. mem.links = file.links /\ mem.follow = file.follow /\ mem.scenes = file.scenes
  BY <1>1 DEF Agrees
<1> QED BY <1>1, <1>2, <1>3, <1>4 DEF EditorTypes

LEMMA CreateKeeps ==
  ASSUME SceneInv, NEW s \in SceneIds, CreateVerticalScene(s)
  PROVE  Kept
<1>1. PICK m, f : m = mem /\ f = file
  OBVIOUS
<1>2. /\ Good(m) /\ GoodFile(f) /\ EditorTypes /\ m.links = f.links /\ m.follow = f.follow
      /\ saveTimer \in BOOLEAN /\ posted \subseteq {"select", "visibility"} /\ dropped \in Drop \cup {None}
  BY <1>1, InvariantGives
<1>3. PICK w : w = Created(m, s)
  OBVIOUS
<1>4. s \in SceneIds \ Scenes(m) /\ SaveVerticalLayout(w, f) /\ UNCHANGED <<saveTimer, posted, dropped>>
  BY <1>1, <1>3 DEF CreateVerticalScene
<1>5. Good(w) /\ w.links = f.links /\ w.follow = f.follow
  BY <1>2, <1>3, <1>4, CreatedIsGood
<1> QED BY <1>2, <1>4, <1>5, SavedLayoutIsKept

LEMMA RemoveKeeps ==
  ASSUME SceneInv, NEW s \in SceneIds, RemoveVerticalScene(s)
  PROVE  Kept
<1>1. PICK m, f : m = mem /\ f = file
  OBVIOUS
<1>2. /\ Good(m) /\ GoodFile(f) /\ EditorTypes /\ m.links = f.links /\ m.follow = f.follow
      /\ dropped \in Drop \cup {None}
  BY <1>1, InvariantGives
<1>3. PICK w : w = Unlinked(Removed(m, s), s)
  OBVIOUS
<1>4. /\ s \in Scenes(m) /\ Len(m.scenes) > 1 /\ UNCHANGED <<saveTimer, posted, dropped>> /\ Refresh(mem')
      /\ \/ mem' = w /\ file' = Persistent(w)
         \/ mem' = [Restored(w, f) EXCEPT !.links = m.links] /\ file' = f
  <2>1. s \in Scenes(m) /\ Len(m.scenes) > 1 /\ UNCHANGED <<saveTimer, posted, dropped>> /\ Refresh(mem')
    BY <1>1 DEF RemoveVerticalScene
  <2>2. \/ mem' = Unlinked(Removed(mem, s), s) /\ file' = Persistent(Unlinked(Removed(mem, s), s))
        \/ mem' = [Restored(Unlinked(Removed(mem, s), s), file) EXCEPT !.links = mem.links] /\ UNCHANGED file
    BY DEF RemoveVerticalScene
  <2>3. \/ mem' = w /\ file' = Persistent(w)
        \/ mem' = [Restored(w, f) EXCEPT !.links = m.links] /\ file' = f
    BY <1>1, <1>3, <2>2
  <2> QED BY <2>1, <2>3
<1>5. Good(w) /\ w.follow = f.follow
  BY <1>2, <1>3, <1>4, RemovedIsGood
<1>6. Settled'
  <2>1. CASE mem' = w /\ file' = Persistent(w)
    BY <1>5, <2>1, PersistentIsGood DEF Settled
  <2>2. CASE mem' = [Restored(w, f) EXCEPT !.links = m.links] /\ file' = f
    <3>1. [Restored(w, f) EXCEPT !.links = f.links] = Loaded(f)
      BY <1>5, RestoredIsLoaded DEF Good
    <3> QED BY <1>2, <2>2, <3>1 DEF Settled
  <2> QED BY <1>4, <2>1, <2>2
<1> QED BY <1>1, <1>2, <1>4, <1>6, RefreshedIsKept

LEMMA RenameKeeps ==
  ASSUME SceneInv, RenameVerticalScene
  PROVE  Kept
<1>1. PICK m, f : m = mem /\ f = file
  OBVIOUS
<1>2. /\ Good(m) /\ GoodFile(f) /\ EditorTypes /\ m.links = f.links /\ m.follow = f.follow
      /\ saveTimer \in BOOLEAN /\ posted \subseteq {"select", "visibility"} /\ dropped \in Drop \cup {None}
  BY <1>1, InvariantGives
<1>3. SaveVerticalLayout(m, f) /\ UNCHANGED <<saveTimer, posted, dropped>>
  BY <1>1 DEF RenameVerticalScene
<1> QED BY <1>2, <1>3, SavedLayoutIsKept

LEMMA MoveSceneKeeps ==
  ASSUME SceneInv, NEW n \in DOMAIN mem.scenes, MoveVerticalScene(n)
  PROVE  Kept
<1>1. PICK m, f : m = mem /\ f = file
  OBVIOUS
<1>2. /\ Good(m) /\ GoodFile(f) /\ EditorTypes /\ m.links = f.links /\ m.follow = f.follow
      /\ m.scenes \in Seq(SceneIds) /\ IsInjective(m.scenes)
      /\ saveTimer \in BOOLEAN /\ posted \subseteq {"select", "visibility"} /\ dropped \in Drop \cup {None}
  BY <1>1, InvariantGives
<1>3. PICK order : order = Swapped(m.scenes, n)
  OBVIOUS
<1>4. PICK w : w = [m EXCEPT !.scenes = order]
  OBVIOUS
<1>5. /\ n \in 1 .. Len(m.scenes) - 1 /\ SaveVerticalLayout(w, f) /\ UNCHANGED <<saveTimer, posted, dropped>>
  BY <1>1, <1>3, <1>4 DEF MoveVerticalScene
<1>6. n \in 1 .. Len(m.scenes) /\ n + 1 \in 1 .. Len(m.scenes)
  BY <1>2, <1>5
<1>7. order \in Seq(SceneIds) /\ IsInjective(order) /\ ToSet(order) = Scenes(m)
  BY <1>2, <1>3, <1>6, SwappedIsPermuted DEF Scenes
<1>8. Good(w)
  BY <1>2, <1>4, <1>7, ReorderedIsGood
<1>9. w.links = m.links /\ w.follow = m.follow
  BY <1>4
<1> QED BY <1>2, <1>5, <1>8, <1>9, SavedLayoutIsKept

LEMMA SetLinkKeeps ==
  ASSUME SceneInv, NEW o \in ObsScenes, NEW s \in Scenes(mem) \cup {None}, SetSceneLink(o, s)
  PROVE  Kept
<1>1. PICK m : m = mem
  OBVIOUS
<1>2. Good(m) /\ EditorTypes /\ m.links \in Links /\ m.scenes \in Seq(SceneIds) /\ dropped \in Drop \cup {None}
  BY <1>1, InvariantGives
<1>3. PICK link : link = IF s = None THEN None ELSE [scene |-> s, uuid |-> TRUE]
  OBVIOUS
<1>4. PICK links : links = [m.links EXCEPT ![o] = link]
  OBVIOUS
<1>5. link \in Link \cup {None} /\ (link # None => link.scene \in Scenes(m))
  <2>1. \A r \in Scenes(m) : r \in SceneIds
    BY <1>2 DEF Scenes, ToSet
  <2> QED BY <1>1, <1>3, <2>1 DEF Link
<1>6. links \in Links /\ \A q \in ObsScenes : links[q] = IF q = o THEN link ELSE m.links[q]
  BY <1>2, <1>4, <1>5 DEF Links
<1>7. \A q \in ObsScenes : links[q] # None => links[q].scene \in Scenes(m)
  BY <1>2, <1>5, <1>6 DEF Good, Whole
<1>8. PICK w : w = [m EXCEPT !.links = links]
  OBVIOUS
<1>9. Good(w)
  BY <1>2, <1>6, <1>7, <1>8, RelinkedIsGood
<1>10. w = [mem EXCEPT !.links[o] = IF s = None THEN None ELSE [scene |-> s, uuid |-> TRUE]]
  BY <1>1, <1>3, <1>4, <1>8
<1>11. SaveOrUndo(w) /\ Refresh(mem') /\ UNCHANGED <<saveTimer, posted, dropped>>
  BY <1>10 DEF SetSceneLink
<1>12. Settled' \/ UNCHANGED <<mem, file>>
  BY <1>9, <1>11, SavesOrUndoes
<1> QED BY <1>1, <1>2, <1>11, <1>12, RefreshedIsKept
\* Rows that are not refreshed stay current while the items are the same.
LEMMA RowsStayCurrent ==
  ASSUME EditorTypes, RowsAreCurrent, shown' = shown, dropped' = dropped, posted \subseteq posted',
         IdsOf(mem'.vertical) = IdsOf(mem.vertical)
  PROVE  RowsAreCurrent'
BY DEF RowsAreCurrent

\* A step of nothing.
LEMMA UnchangedIsKept ==
  ASSUME SceneInv, UNCHANGED vars
  PROVE  Kept
<1>1. EditorTypes /\ RowsAreCurrent
  BY InvariantIs
<1>2. UNCHANGED <<mem, file, saveTimer, posted>> /\ UNCHANGED <<dropped, shown, drag>>
  BY DEF vars, editor
<1>3. EditorTypes'
  BY <1>1, <1>2 DEF EditorTypes
<1>4. RowsAreCurrent'
  BY <1>1, <1>2 DEF RowsAreCurrent
<1> QED BY <1>2, <1>3, <1>4 DEF Kept, Outcome

\* OBS's scene selects the scene that it is linked with, or nothing.
LEMMA HandledObsScene ==
  ASSUME EditorTypes, NEW m, Good(m), NEW f, GoodFile(f), m.links = f.links, m.follow = f.follow,
         HandleObsSceneChanged(m, f), UNCHANGED <<saveTimer, posted, dropped>>
  PROVE  Kept \/ (mem' = m /\ file' = f /\ Refresh(m))
<1>1. PICK o \in ObsScenes :
        IF m.follow /\ m.links[o] # None /\ m.links[o].scene \in Scenes(m)
        THEN SaveVerticalLayout(Selected(m, m.links[o].scene), f)
        ELSE mem' = m /\ file' = f /\ Refresh(m)
  BY DEF HandleObsSceneChanged
<1>2. saveTimer' \in BOOLEAN /\ posted' \subseteq {"select", "visibility"} /\ dropped' \in Drop \cup {None}
  BY DEF EditorTypes
<1>3. CASE m.follow /\ m.links[o] # None /\ m.links[o].scene \in Scenes(m)
  <2>1. PICK s \in Scenes(m) : s = m.links[o].scene
    BY <1>3
  <2>2. PICK w : w = Selected(m, s)
    OBVIOUS
  <2>3. SaveVerticalLayout(w, f)
    BY <1>1, <1>3, <2>1, <2>2
  <2>4. Good(w) /\ w.links = f.links /\ w.follow = f.follow
    BY <2>2, SelectedIsGood
  <2> QED BY <1>2, <2>3, <2>4, SavedLayoutIsKept
<1>4. CASE ~(m.follow /\ m.links[o] # None /\ m.links[o].scene \in Scenes(m))
  BY <1>1, <1>4
<1> QED BY <1>3, <1>4

LEMMA ObsChangeKeeps ==
  ASSUME SceneInv, ObsChangesScene
  PROVE  Kept
<1>1. PICK m, f : m = mem /\ f = file
  OBVIOUS
<1>2. /\ Good(m) /\ GoodFile(f) /\ EditorTypes /\ m.links = f.links /\ m.follow = f.follow
      /\ dropped \in Drop \cup {None}
  BY <1>1, InvariantGives
<1>3. HandleObsSceneChanged(m, f) /\ UNCHANGED <<saveTimer, posted, dropped>>
  BY <1>1 DEF ObsChangesScene
<1>4. Kept \/ (mem' = m /\ file' = f /\ Refresh(m))
  BY <1>2, <1>3, HandledObsScene
<1>5. CASE mem' = m /\ file' = f /\ Refresh(m)
  <2>1. Refresh(mem') /\ UNCHANGED <<mem, file>>
    BY <1>1, <1>5
  <2> QED BY <1>1, <1>2, <1>3, <2>1, RefreshedIsKept
<1> QED BY <1>4, <1>5

LEMMA SetFollowKeeps ==
  ASSUME SceneInv, SetFollowObsScene
  PROVE  Kept
<1>1. PICK m : m = mem
  OBVIOUS
<1>2. Good(m) /\ EditorTypes /\ RowsAreCurrent /\ dropped \in Drop \cup {None}
  BY <1>1, InvariantGives, InvariantIs
<1>3. PICK w : w = [m EXCEPT !.follow = ~m.follow]
  OBVIOUS
<1>4. w = [scenes |-> m.scenes, layout |-> m.layout, active |-> m.active, vertical |-> m.vertical,
           follow |-> ~m.follow, links |-> m.links]
  BY <1>2, <1>3, ManagerIs DEF Good
<1>5. Good(w)
  <2>1. w \in Manager
    BY <1>2, <1>4 DEF Manager, Good
  <2>2. Whole(w)
    BY <1>2, <1>4 DEF Good, Whole, Scenes, ItemsOf
  <2> QED BY <1>2, <1>4, <2>1, <2>2 DEF Good
<1>6. /\ UNCHANGED <<saveTimer, posted, dropped>>
      /\ \/ UNCHANGED <<mem, file, shown, drag>>
         \/ HandleObsSceneChanged(w, Persistent(w))
         \/ mem' = w /\ file' = Persistent(w) /\ UNCHANGED <<shown, drag>>
  BY <1>1, <1>3 DEF SetFollowObsScene
<1>7. PICK f : f = Persistent(w)
  OBVIOUS
<1>8. GoodFile(f) /\ w = Loaded(f) /\ f.links = w.links /\ f.follow = w.follow
  BY <1>5, <1>7, PersistentIsGood DEF Persistent
<1>9. CASE UNCHANGED <<mem, file, shown, drag>>
  BY <1>6, <1>9, UnchangedIsKept DEF vars, editor
<1>10. CASE HandleObsSceneChanged(w, f)
  <2>1. Kept \/ (mem' = w /\ file' = f /\ Refresh(w))
    BY <1>2, <1>5, <1>6, <1>8, <1>10, HandledObsScene
  <2>2. CASE mem' = w /\ file' = f /\ Refresh(w)
    <3>1. Refresh(mem') /\ Settled'
      BY <1>8, <2>2 DEF Settled
    <3> QED BY <1>1, <1>2, <1>6, <3>1, RefreshedIsKept
  <2> QED BY <2>1, <2>2
<1>11. CASE mem' = w /\ file' = f /\ UNCHANGED <<shown, drag>>
  <2>1. Settled'
    BY <1>8, <1>11 DEF Settled
  <2>2. EditorTypes'
    BY <1>2, <1>6, <1>11 DEF EditorTypes
  <2>3. mem'.vertical = mem.vertical
    BY <1>1, <1>4, <1>11
  <2>4. RowsAreCurrent'
    BY <1>2, <1>6, <1>11, <2>3, RowsStayCurrent
  <2> QED BY <2>1, <2>2, <2>4 DEF Kept, Outcome
<1> QED BY <1>6, <1>7, <1>9, <1>10, <1>11

LEMMA RefreshIdentitiesKeeps ==
  ASSUME SceneInv, RefreshSceneIdentities
  PROVE  Kept
<1>1. PICK m : m = mem
  OBVIOUS
<1>2. Good(m) /\ EditorTypes /\ RowsAreCurrent /\ m.links \in Links /\ dropped \in Drop \cup {None}
  BY <1>1, InvariantGives, InvariantIs
<1>3. PICK links : links = [o \in ObsScenes |-> IF m.links[o] = None THEN None ELSE [m.links[o] EXCEPT !.uuid = TRUE]]
  OBVIOUS
<1>4. PICK w : w = [m EXCEPT !.links = links]
  OBVIOUS
<1>5. ASSUME NEW o \in ObsScenes
      PROVE  /\ links[o] \in Link \cup {None}
             /\ links[o] # None => m.links[o] # None /\ links[o].scene = m.links[o].scene
  <2>1. m.links[o] \in Link \cup {None}
    BY <1>2 DEF Links
  <2>2. CASE m.links[o] = None
    BY <1>3, <2>2
  <2>3. CASE m.links[o] \in Link /\ m.links[o] # None
    <3>1. PICK link \in Link : link = m.links[o]
      BY <2>3
    <3>2. links[o] = [link EXCEPT !.uuid = TRUE]
      BY <1>3, <2>3, <3>1
    <3>3. [link EXCEPT !.uuid = TRUE] \in Link /\ [link EXCEPT !.uuid = TRUE].scene = link.scene
      BY DEF Link
    <3> QED BY <2>3, <3>1, <3>2, <3>3
  <2> QED BY <2>1, <2>2, <2>3
<1>6. links \in Links
  BY <1>3, <1>5 DEF Links
<1>7. \A o \in ObsScenes : links[o] # None => links[o].scene \in Scenes(m)
  BY <1>2, <1>5 DEF Good, Whole
<1>8. Good(w)
  BY <1>2, <1>4, <1>6, <1>7, RelinkedIsGood
<1>9. w = [mem EXCEPT !.links = [o \in ObsScenes |-> IF mem.links[o] = None THEN None ELSE [mem.links[o] EXCEPT !.uuid = TRUE]]]
  BY <1>1, <1>3, <1>4
<1>10. /\ SaveOrUndo(w) /\ UNCHANGED <<saveTimer, posted, dropped>>
       /\ IF mem' = mem THEN UNCHANGED <<shown, drag>> ELSE Refresh(mem')
  BY <1>9 DEF RefreshSceneIdentities
<1>11. Settled' \/ UNCHANGED <<mem, file>>
  BY <1>8, <1>10, SavesOrUndoes
<1>12. CASE mem' = mem
  <2>1. UNCHANGED <<shown, drag>>
    BY <1>10, <1>12
  <2>2. EditorTypes'
    BY <1>2, <1>10, <2>1 DEF EditorTypes
  <2>3. RowsAreCurrent'
    BY <1>2, <1>10, <1>12, <2>1, RowsStayCurrent
  <2>4. Outcome
    BY <1>10, <1>11, <1>12 DEF Outcome
  <2> QED BY <2>2, <2>3, <2>4 DEF Kept
<1>13. CASE mem' # mem
  BY <1>1, <1>2, <1>10, <1>11, <1>13, RefreshedIsKept
<1> QED BY <1>12, <1>13

LEMMA OtherSaveKeeps ==
  ASSUME SceneInv, OtherSave
  PROVE  Kept
<1>1. PICK m : m = mem
  OBVIOUS
<1>2. Good(m) /\ EditorTypes /\ RowsAreCurrent
  BY <1>1, InvariantGives, InvariantIs
<1>3. SaveOrUndo(m) /\ UNCHANGED <<saveTimer, posted, dropped, shown, drag>>
  BY <1>1 DEF OtherSave, editor
<1>4. Settled' \/ UNCHANGED <<mem, file>>
  BY <1>2, <1>3, SavesOrUndoes
<1>5. mem' = mem
  BY <1>1, <1>3 DEF SaveOrUndo
<1>6. EditorTypes'
  BY <1>2, <1>3 DEF EditorTypes
<1>7. RowsAreCurrent'
  BY <1>2, <1>3, <1>5, RowsStayCurrent
<1> QED BY <1>3, <1>4, <1>6, <1>7 DEF Kept, Outcome

LEMMA ReloadKeeps ==
  ASSUME SceneInv, ReloadForCurrentProfile
  PROVE  Kept
<1>1. Good(mem) /\ GoodFile(file) /\ EditorTypes /\ dropped \in Drop \cup {None}
  BY InvariantGives
<1>2. mem' = Loaded(file) /\ file' = file /\ Refresh(mem') /\ UNCHANGED <<saveTimer, posted, dropped>>
  BY DEF ReloadForCurrentProfile
<1>3. Settled'
  BY <1>1, <1>2 DEF Settled
<1> QED BY <1>1, <1>2, <1>3, RefreshedIsKept
-----------------------------------------------------------------------------
(* The editor's actions *)

LEMMA LayoutKeepsTheRest ==
  ASSUME NEW m, NEW items
  PROVE  /\ WithLayout(m, items).links = m.links /\ WithLayout(m, items).follow = m.follow
         /\ WithLayout(m, items).scenes = m.scenes
BY DEF WithLayout

\* Items of other forms leave all ids.
LEMMA FormIsGood ==
  ASSUME NEW m, Good(m), NEW items \in Seq(Item), IdsOf(items) = IdsOf(m.vertical),
         NEW w, w = WithLayout(m, items)
  PROVE  /\ Good(w) /\ w.links = m.links /\ w.follow = m.follow /\ w.scenes = m.scenes
         /\ \A s \in SceneIds : IdsOf(w.layout[s]) = IdsOf(m.layout[s])
         /\ IdsOf(w.vertical) = IdsOf(m.vertical)
<1>1. m.vertical \in Seq(Item) /\ IsInjective(IdsOf(m.vertical)) /\ m.active \in SceneIds
  BY WorkingCopyIsWhole
<1>2. Good(w)
  BY <1>1, FewerItemsAreGood
<1>3. w.links = m.links /\ w.follow = m.follow /\ w.scenes = m.scenes
  BY LayoutKeepsTheRest
<1>4. m \in Manager /\ m.layout \in Layouts /\ m.vertical = m.layout[m.active]
  BY ManagerIs DEF Good
<1>5. PICK lay : lay = [m.layout EXCEPT ![m.active] = items]
  OBVIOUS
<1>6. w.layout = lay /\ w.vertical = items
  <2>1. PICK z : z = [m EXCEPT !.vertical = items]
    OBVIOUS
  <2>2. z = [scenes |-> m.scenes, layout |-> m.layout, active |-> m.active, vertical |-> items,
             follow |-> m.follow, links |-> m.links]
    BY <1>4, <2>1, ManagerIs
  <2>3. w = [z EXCEPT !.layout = [z.layout EXCEPT ![m.active] = items]]
    BY <2>1 DEF WithLayout
  <2>4. w = [z EXCEPT !.layout = lay]
    BY <1>5, <2>2, <2>3
  <2> QED BY <2>2, <2>4
<1>7. \A s \in SceneIds : lay[s] = IF s = m.active THEN items ELSE m.layout[s]
  BY <1>4, <1>5 DEF Layouts
<1>8. ASSUME NEW s \in SceneIds
       PROVE  IdsOf(w.layout[s]) = IdsOf(m.layout[s])
  <2>1. CASE s = m.active
    <3>1. w.layout[s] = items /\ m.layout[s] = m.vertical
      BY <1>4, <1>6, <1>7, <2>1
    <3> QED BY <3>1
  <2>2. CASE s # m.active
    BY <1>6, <1>7, <2>2
  <2> QED BY <2>1, <2>2
<1>9. IdsOf(w.vertical) = IdsOf(m.vertical)
  BY <1>6
<1> QED BY <1>2, <1>3, <1>8, <1>9

\* What the actions on a row find in it.
LEMMA RowForms ==
  ASSUME SceneInv, NEW n, Row(n), NEW form \in FormsAt(n), NEW m, m = mem, NEW w, w = WithForm(n, form)
  PROVE  /\ Good(w) /\ w.links = m.links /\ w.follow = m.follow /\ w.scenes = m.scenes
         /\ \A s \in SceneIds : IdsOf(w.layout[s]) = IdsOf(m.layout[s])
         /\ IdsOf(w.vertical) = IdsOf(m.vertical)
<1>1. Good(m)
  BY InvariantGives
<1>2. n \in DOMAIN m.vertical
  BY DEF Row
<1>3. form \in Forms[m.vertical[n].id]
  BY <1>2 DEF FormsAt
<1>4. PICK items : items = [m.vertical EXCEPT ![n].form = form]
  OBVIOUS
<1>5. w = WithLayout(m, items)
  BY <1>4 DEF WithForm
<1>6. m.vertical \in Seq(Item)
  BY <1>1, WorkingCopyIsWhole
<1>7. items \in Seq(Item) /\ IdsOf(items) = IdsOf(m.vertical)
  <2>1. PICK rows : rows = m.vertical
    OBVIOUS
  <2>2. rows \in Seq(Item) /\ n \in DOMAIN rows /\ form \in Forms[rows[n].id]
    BY <1>2, <1>3, <1>6, <2>1
  <2>3. /\ [rows EXCEPT ![n].form = form] \in Seq(Item)
        /\ IdsOf([rows EXCEPT ![n].form = form]) = IdsOf(rows)
    BY Zenon, <2>2, FormKeepsIds
  <2>4. items = [rows EXCEPT ![n].form = form]
    BY <1>4, <2>1
  <2> QED BY Zenon, <2>1, <2>3, <2>4
<1> QED BY <1>1, <1>5, <1>7, FormIsGood

LEMMA SelectKeeps ==
  ASSUME SceneInv, NEW s \in SceneIds, SelectVerticalScene(s)
  PROVE  Kept
<1>1. PICK m : m = mem
  OBVIOUS
<1>2. Good(m) /\ EditorTypes
  BY <1>1, InvariantGives
<1>3. PICK w : w = Selected(m, s)
  OBVIOUS
<1>4. /\ s \in Scenes(m) /\ mem' = w /\ posted' = posted \cup {"select"}
      /\ UNCHANGED <<file, saveTimer, dropped, shown, drag>>
  BY <1>1, <1>3 DEF SelectVerticalScene
<1>5. Good(w) /\ w.links = m.links /\ w.follow = m.follow /\ w.scenes = m.scenes /\ w.layout = m.layout
  BY <1>2, <1>3, <1>4, SelectedIsGood
<1>6. Good(mem)'
  BY <1>4, <1>5
<1>7. EditAwaitsSave
  BY <1>1, <1>4, <1>5, <1>6 DEF EditAwaitsSave, SavePending
<1>8. EditorTypes'
  BY <1>2, <1>4 DEF EditorTypes
<1>9. RowsAreCurrent'
  BY <1>4 DEF RowsAreCurrent
<1> QED BY <1>7, <1>8, <1>9 DEF Kept, Outcome

LEMMA PostedSaveKeeps ==
  ASSUME SceneInv, NEW why \in {"select", "visibility"}, RunPostedSave(why)
  PROVE  Kept
<1>1. PICK m, f : m = mem /\ f = file
  OBVIOUS
<1>2. /\ Good(m) /\ GoodFile(f) /\ EditorTypes /\ m.links = f.links /\ m.follow = f.follow
      /\ saveTimer \in BOOLEAN /\ posted \subseteq {"select", "visibility"} /\ dropped \in Drop \cup {None}
  BY <1>1, InvariantGives
<1>3. SaveVerticalLayout(m, f) /\ posted' = posted \ {why} /\ dropped' = dropped
  BY <1>1 DEF RunPostedSave
<1>4. saveTimer' \in BOOLEAN
  BY DEF RunPostedSave
<1> QED BY <1>2, <1>3, <1>4, SavedLayoutIsKept

\* The saves that come from an edit at once.
LEMMA SaveNowKeeps ==
  ASSUME SceneInv, NEW m, Good(m), m.links = mem.links, m.follow = mem.follow, SaveNow(m)
  PROVE  Kept
<1>1. PICK f : f = file
  OBVIOUS
<1>2. /\ GoodFile(f) /\ EditorTypes /\ m.links = f.links /\ m.follow = f.follow
      /\ posted \subseteq {"select", "visibility"} /\ dropped \in Drop \cup {None}
  BY <1>1, InvariantGives
<1>3. SaveVerticalLayout(m, f) /\ saveTimer' = FALSE /\ posted' = posted /\ dropped' = dropped
  BY <1>1 DEF SaveNow
<1> QED BY <1>2, <1>3, SavedLayoutIsKept

LEMMA SaveLeavingTimerKeeps ==
  ASSUME SceneInv, NEW m, Good(m), m.links = mem.links, m.follow = mem.follow,
         SaveVerticalLayout(m, file), UNCHANGED <<saveTimer, posted>>, dropped' \in Drop \cup {None}
  PROVE  Kept
<1>1. PICK f : f = file
  OBVIOUS
<1>2. /\ GoodFile(f) /\ EditorTypes /\ m.links = f.links /\ m.follow = f.follow
      /\ saveTimer \in BOOLEAN /\ posted \subseteq {"select", "visibility"}
  BY <1>1, InvariantGives
<1>3. SaveVerticalLayout(m, f) /\ saveTimer' = saveTimer /\ posted' = posted
  BY <1>1
<1> QED BY <1>2, <1>3, SavedLayoutIsKept

LEMMA TimerKeeps ==
  ASSUME SceneInv, SaveTimerFires
  PROVE  Kept
<1>1. PICK m : m = mem
  OBVIOUS
<1>2. Good(m) /\ SaveNow(m)
  BY <1>1, InvariantGives DEF SaveTimerFires
<1> QED BY <1>1, <1>2, SaveNowKeeps

LEMMA EditItemKeeps ==
  ASSUME SceneInv, NEW n, NEW form \in FormsAt(n), EditItem(n, form)
  PROVE  Kept
<1>1. PICK m, w : m = mem /\ w = WithForm(n, form)
  OBVIOUS
<1>2. Row(n) /\ SaveNow(w)
  BY <1>1 DEF EditItem
<1>3. Good(w) /\ w.links = m.links /\ w.follow = m.follow
  BY <1>1, <1>2, RowForms
<1> QED BY <1>1, <1>2, <1>3, SaveNowKeeps

LEMMA UpdateSelectedKeeps ==
  ASSUME SceneInv, NEW n, NEW form \in FormsAt(n), UpdateSelectedItem(n, form)
  PROVE  Kept
<1>1. PICK m, w : m = mem /\ w = WithForm(n, form)
  OBVIOUS
<1>2. Row(n) /\ SaveVerticalLayout(w, file) /\ UNCHANGED <<saveTimer, posted, dropped>>
  BY <1>1 DEF UpdateSelectedItem
<1>3. Good(w) /\ w.links = m.links /\ w.follow = m.follow
  BY <1>1, <1>2, RowForms
<1>4. dropped' \in Drop \cup {None}
  BY <1>2, InvariantGives
<1> QED BY <1>1, <1>2, <1>3, <1>4, SaveLeavingTimerKeeps

LEMMA VisibilityKeeps ==
  ASSUME SceneInv, NEW n, NEW form \in FormsAt(n), UpdateItemVisibility(n, form)
  PROVE  Kept
<1>1. PICK m, w : m = mem /\ w = WithForm(n, form)
  OBVIOUS
<1>2. /\ Row(n) /\ mem' = w /\ posted' = posted \cup {"visibility"}
      /\ UNCHANGED <<file, saveTimer, dropped, shown, drag>>
  BY <1>1 DEF UpdateItemVisibility
<1>3. /\ Good(w) /\ w.links = m.links /\ w.follow = m.follow /\ w.scenes = m.scenes
      /\ \A s \in SceneIds : IdsOf(w.layout[s]) = IdsOf(m.layout[s])
      /\ IdsOf(w.vertical) = IdsOf(m.vertical)
  BY <1>1, <1>2, RowForms
<1>4. EditorTypes /\ RowsAreCurrent
  BY InvariantIs
<1>5. Good(mem)'
  BY <1>2, <1>3
<1>6. EditAwaitsSave
  BY <1>1, <1>2, <1>3, <1>5 DEF EditAwaitsSave, SavePending
<1>7. EditorTypes'
  BY <1>2, <1>4 DEF EditorTypes
<1>8. RowsAreCurrent'
  BY <1>1, <1>2, <1>3, <1>4, RowsStayCurrent
<1> QED BY <1>6, <1>7, <1>8 DEF Kept, Outcome

LEMMA DragKeeps ==
  ASSUME SceneInv, NEW form, drag # None => form \in FormsAt(drag), Drag(form)
  PROVE  Kept
<1>1. PICK n : n = drag
  OBVIOUS
<1>2. PICK m, w : m = mem /\ w = WithForm(n, form)
  OBVIOUS
<1>3. /\ Row(n) /\ form \in FormsAt(n) /\ mem' = w /\ saveTimer' = TRUE
      /\ UNCHANGED <<file, posted, dropped, shown, drag>>
  BY <1>1, <1>2 DEF Drag
<1>4. /\ Good(w) /\ w.links = m.links /\ w.follow = m.follow /\ w.scenes = m.scenes
      /\ \A s \in SceneIds : IdsOf(w.layout[s]) = IdsOf(m.layout[s])
      /\ IdsOf(w.vertical) = IdsOf(m.vertical)
  BY <1>2, <1>3, RowForms
<1>5. EditorTypes /\ RowsAreCurrent
  BY InvariantIs
<1>6. Good(mem)'
  BY <1>3, <1>4
<1>7. EditAwaitsSave
  BY <1>2, <1>3, <1>4, <1>6 DEF EditAwaitsSave, SavePending
<1>8. EditorTypes'
  BY <1>3, <1>5 DEF EditorTypes
<1>9. RowsAreCurrent'
  BY <1>2, <1>3, <1>4, <1>5, RowsStayCurrent
<1> QED BY <1>7, <1>8, <1>9 DEF Kept, Outcome
\* The ids of items that are swapped, removed or added.
LEMMA SwappedIds ==
  ASSUME NEW items \in Seq(Item), NEW n \in 1 .. Len(items), n + 1 \in 1 .. Len(items)
  PROVE  Swapped(items, n) \in Seq(Item) /\ IdsOf(Swapped(items, n)) = Swapped(IdsOf(items), n)
<1>1. PICK k \in 1 .. Len(items) : k = n + 1 /\ k # n /\ Len(items) \in Nat
  OBVIOUS
<1>2. PICK ids : ids = IdsOf(items)
  OBVIOUS
<1>3. /\ ids \in Seq(ItemIds) /\ Len(ids) = Len(items) /\ DOMAIN ids = DOMAIN items
      /\ \A j \in DOMAIN items : ids[j] = items[j].id
  BY <1>2, IdsAreOfItems
<1>4. PICK others : others = Swapped(items, n)
  OBVIOUS
<1>5. others \in Seq(Item)
  BY <1>4, SwappedIsPermuted
<1>6. others = [items EXCEPT ![n] = items[k], ![k] = items[n]]
  BY <1>1, <1>4 DEF Swapped
<1>7. /\ DOMAIN others = 1 .. Len(items) /\ DOMAIN items = 1 .. Len(items)
      /\ \A j \in 1 .. Len(items) : others[j] = IF j = k THEN items[n] ELSE IF j = n THEN items[k] ELSE items[j]
  BY <1>1, <1>6
<1>8. /\ IdsOf(others) \in Seq(ItemIds) /\ Len(IdsOf(others)) = Len(others)
      /\ \A j \in DOMAIN others : IdsOf(others)[j] = others[j].id
  BY <1>5, IdsAreOfItems
<1>9. PICK swapped : swapped = Swapped(ids, n)
  OBVIOUS
<1>10. swapped = [ids EXCEPT ![n] = ids[k], ![k] = ids[n]]
  BY <1>1, <1>9 DEF Swapped
<1>11. /\ swapped \in Seq(ItemIds) /\ Len(swapped) = Len(items)
       /\ \A j \in 1 .. Len(items) : swapped[j] = IF j = k THEN ids[n] ELSE IF j = n THEN ids[k] ELSE ids[j]
  BY <1>1, <1>3, <1>10
<1>12. Len(others) = Len(items)
  BY <1>1, <1>5, <1>7
<1>13. ASSUME NEW j \in 1 .. Len(items)
       PROVE  IdsOf(others)[j] = swapped[j]
  BY <1>1, <1>3, <1>7, <1>8, <1>11
<1>14. IdsOf(others) = swapped
  BY <1>8, <1>11, <1>12, <1>13, SeqEqual
<1> QED BY <1>2, <1>4, <1>5, <1>9, <1>14

LEMMA RemovedIds ==
  ASSUME NEW items \in Seq(Item), NEW n \in 1 .. Len(items)
  PROVE  RemoveAt(items, n) \in Seq(Item) /\ IdsOf(RemoveAt(items, n)) = RemoveAt(IdsOf(items), n)
<1>1. PICK ids : ids = IdsOf(items)
  OBVIOUS
<1>2. /\ ids \in Seq(ItemIds) /\ Len(ids) = Len(items) /\ DOMAIN items = 1 .. Len(items) /\ Len(items) \in Nat
      /\ \A j \in DOMAIN items : ids[j] = items[j].id
  BY <1>1, IdsAreOfItems
<1>3. PICK others : others = RemoveAt(items, n)
  OBVIOUS
<1>4. /\ others \in Seq(Item) /\ Len(others) = Len(items) - 1
      /\ \A j \in 1 .. Len(items) - 1 : others[j] = IF j < n THEN items[j] ELSE items[j + 1]
  BY <1>3, SequenceWithoutOne
<1>5. PICK rest : rest = RemoveAt(ids, n)
  OBVIOUS
<1>6. /\ rest \in Seq(ItemIds) /\ Len(rest) = Len(items) - 1
      /\ \A j \in 1 .. Len(items) - 1 : rest[j] = IF j < n THEN ids[j] ELSE ids[j + 1]
  BY <1>2, <1>5, SequenceWithoutOne
<1>7. /\ IdsOf(others) \in Seq(ItemIds) /\ Len(IdsOf(others)) = Len(items) - 1
      /\ DOMAIN others = 1 .. Len(items) - 1
      /\ \A j \in DOMAIN others : IdsOf(others)[j] = others[j].id
  BY <1>4, IdsAreOfItems
<1>8. ASSUME NEW j \in 1 .. Len(items) - 1
      PROVE  IdsOf(others)[j] = rest[j]
  <2>1. j \in DOMAIN items /\ j + 1 \in DOMAIN items
    BY <1>2
  <2> QED BY <1>2, <1>4, <1>6, <1>7, <2>1
<1>9. IdsOf(others) = rest
  BY <1>6, <1>7, <1>8, SeqEqual
<1> QED BY <1>1, <1>3, <1>4, <1>5, <1>9

LEMMA AddedIds ==
  ASSUME NEW items \in Seq(Item), NEW item \in Item
  PROVE  Append(items, item) \in Seq(Item) /\ IdsOf(Append(items, item)) = Append(IdsOf(items), item.id)
<1>1. PICK ids : ids = IdsOf(items)
  OBVIOUS
<1>2. /\ ids \in Seq(ItemIds) /\ Len(ids) = Len(items) /\ DOMAIN items = 1 .. Len(items) /\ Len(items) \in Nat
      /\ \A j \in DOMAIN items : ids[j] = items[j].id
  BY <1>1, IdsAreOfItems
<1>3. item.id \in ItemIds
  BY ItemIsPair
<1>4. PICK others : others = Append(items, item)
  OBVIOUS
<1>5. /\ others \in Seq(Item) /\ Len(others) = Len(items) + 1
      /\ (\A j \in 1 .. Len(items) : others[j] = items[j]) /\ others[Len(items) + 1] = item
  BY <1>4, AppendProperties
<1>6. PICK all : all = Append(ids, item.id)
  OBVIOUS
<1>7. /\ all \in Seq(ItemIds) /\ Len(all) = Len(items) + 1
      /\ (\A j \in 1 .. Len(items) : all[j] = ids[j]) /\ all[Len(items) + 1] = item.id
  BY <1>2, <1>3, <1>6, AppendProperties
<1>8. /\ IdsOf(others) \in Seq(ItemIds) /\ Len(IdsOf(others)) = Len(items) + 1
      /\ DOMAIN others = 1 .. Len(items) + 1
      /\ \A j \in DOMAIN others : IdsOf(others)[j] = others[j].id
  BY <1>5, IdsAreOfItems
<1>9. ASSUME NEW j \in 1 .. Len(items) + 1
      PROVE  IdsOf(others)[j] = all[j]
  <2>1. j \in DOMAIN items \/ j = Len(items) + 1
    BY <1>2
  <2> QED BY <1>2, <1>5, <1>7, <1>8, <2>1
<1>10. IdsOf(others) = all
  BY <1>7, <1>8, <1>9, SeqEqual
<1> QED BY <1>1, <1>4, <1>5, <1>6, <1>10

LEMMA AddItemKeeps ==
  ASSUME SceneInv, NEW i \in ItemIds, AddItem(i)
  PROVE  Kept
<1>1. PICK m : m = mem
  OBVIOUS
<1>2. Good(m) /\ m.vertical \in Seq(Item) /\ IsInjective(IdsOf(m.vertical)) /\ m.active \in SceneIds
  BY <1>1, InvariantGives, WorkingCopyIsWhole
<1>3. PICK form \in Forms[i] : SaveVerticalLayout(WithLayout(mem, Append(mem.vertical, [id |-> i, form |-> form])), file)
  BY DEF AddItem
<1>4. PICK item : item = [id |-> i, form |-> form]
  OBVIOUS
<1>5. item \in Item /\ item.id = i
  BY <1>4, ItemIsPair
<1>6. PICK items : items = Append(m.vertical, item)
  OBVIOUS
<1>7. items \in Seq(Item) /\ IdsOf(items) = Append(IdsOf(m.vertical), i)
  BY <1>2, <1>5, <1>6, AddedIds
<1>8. ASSUME NEW s \in SceneIds
      PROVE  i \notin ItemsOf(m, s)
  BY <1>1 DEF AddItem, ItemsOf
<1>9. ToSet(IdsOf(m.vertical)) = ItemsOf(m, m.active)
  BY <1>2 DEF Good, ItemsOf
<1>10. IdsOf(m.vertical) \in Seq(ItemIds) /\ i \notin ToSet(IdsOf(m.vertical))
  BY <1>2, <1>8, <1>9, IdsAreOfItems
<1>11. IsInjective(IdsOf(items)) /\ ToSet(IdsOf(items)) = ItemsOf(m, m.active) \cup {i}
  BY <1>2, <1>7, <1>9, <1>10, AppendedIsNew
<1>12. ASSUME NEW s \in SceneIds, s # m.active
       PROVE  ToSet(IdsOf(items)) \cap ItemsOf(m, s) = {}
  <2>1. ItemsOf(m, m.active) \cap ItemsOf(m, s) = {}
    BY <1>2, <1>12 DEF Good, Whole
  <2> QED BY <1>8, <1>11, <2>1
<1>13. PICK w : w = WithLayout(m, items)
  OBVIOUS
<1>14. Good(w) /\ w.links = m.links /\ w.follow = m.follow
  BY <1>2, <1>7, <1>11, <1>12, <1>13, LayoutIsGood, LayoutKeepsTheRest
<1>15. SaveVerticalLayout(w, file) /\ UNCHANGED <<saveTimer, posted, dropped>>
  BY <1>1, <1>3, <1>4, <1>6, <1>13 DEF AddItem
<1>16. dropped' \in Drop \cup {None}
  BY <1>15, InvariantGives
<1> QED BY <1>1, <1>14, <1>15, <1>16, SaveLeavingTimerKeeps

LEMMA RemoveItemKeeps ==
  ASSUME SceneInv, NEW n \in DOMAIN shown, RemoveItem(n)
  PROVE  Kept
<1>1. PICK m : m = mem
  OBVIOUS
<1>2. Good(m) /\ m.vertical \in Seq(Item) /\ IsInjective(IdsOf(m.vertical))
  BY <1>1, InvariantGives, WorkingCopyIsWhole
<1>3. n \in 1 .. Len(m.vertical)
  BY <1>1, <1>2 DEF RemoveItem, Row
<1>4. PICK items : items = RemoveAt(m.vertical, n)
  OBVIOUS
<1>5. items \in Seq(Item) /\ IdsOf(items) = RemoveAt(IdsOf(m.vertical), n)
  BY <1>2, <1>3, <1>4, RemovedIds
<1>6. IdsOf(m.vertical) \in Seq(ItemIds) /\ n \in 1 .. Len(IdsOf(m.vertical))
  BY <1>2, <1>3, IdsAreOfItems
<1>7. IsInjective(IdsOf(items)) /\ ToSet(IdsOf(items)) \subseteq ToSet(IdsOf(m.vertical))
  BY <1>2, <1>5, <1>6, SequenceWithoutElement
<1>8. PICK w : w = WithLayout(m, items)
  OBVIOUS
<1>9. Good(w) /\ w.links = m.links /\ w.follow = m.follow
  BY <1>2, <1>5, <1>7, <1>8, FewerItemsAreGood, LayoutKeepsTheRest
<1>10. SaveVerticalLayout(w, file) /\ UNCHANGED <<saveTimer, posted, dropped>>
  BY <1>1, <1>4, <1>8 DEF RemoveItem
<1>11. dropped' \in Drop \cup {None}
  BY <1>10, InvariantGives
<1> QED BY <1>1, <1>9, <1>10, <1>11, SaveLeavingTimerKeeps

LEMMA MoveItemKeeps ==
  ASSUME SceneInv, NEW n \in DOMAIN shown, MoveItem(n)
  PROVE  Kept
<1>1. PICK m : m = mem
  OBVIOUS
<1>2. Good(m) /\ m.vertical \in Seq(Item) /\ IsInjective(IdsOf(m.vertical))
  BY <1>1, InvariantGives, WorkingCopyIsWhole
<1>3. n \in 1 .. Len(m.vertical) /\ n + 1 \in 1 .. Len(m.vertical)
  BY <1>1, <1>2 DEF MoveItem, Row
<1>4. PICK items : items = Swapped(m.vertical, n)
  OBVIOUS
<1>5. items \in Seq(Item) /\ IdsOf(items) = Swapped(IdsOf(m.vertical), n)
  BY <1>2, <1>3, <1>4, SwappedIds
<1>6. IdsOf(m.vertical) \in Seq(ItemIds) /\ n \in 1 .. Len(IdsOf(m.vertical)) /\ n + 1 \in 1 .. Len(IdsOf(m.vertical))
  BY <1>2, <1>3, IdsAreOfItems
<1>7. IsInjective(IdsOf(items)) /\ ToSet(IdsOf(items)) = ToSet(IdsOf(m.vertical))
  BY <1>2, <1>5, <1>6, SwappedIsPermuted
<1>8. PICK w : w = WithLayout(m, items)
  OBVIOUS
<1>9. Good(w) /\ w.links = m.links /\ w.follow = m.follow
  BY <1>2, <1>5, <1>7, <1>8, FewerItemsAreGood, LayoutKeepsTheRest
<1>10. SaveNow(w)
  BY <1>1, <1>4, <1>8 DEF MoveItem
<1> QED BY <1>1, <1>9, <1>10, SaveNowKeeps
LEMMA StartDragKeeps ==
  ASSUME SceneInv, NEW n \in DOMAIN shown, StartDrag(n)
  PROVE  Kept
<1>1. EditorTypes /\ RowsAreCurrent /\ shown \in Seq(ItemIds)
  BY InvariantIs, InvariantGives
<1>2. UNCHANGED <<mem, file, saveTimer, posted>> /\ UNCHANGED <<dropped, shown>> /\ drag' = n
  BY DEF StartDrag
<1>3. n \in Nat
  BY <1>1
<1>4. EditorTypes'
  BY <1>1, <1>2, <1>3 DEF EditorTypes
<1>5. RowsAreCurrent'
  BY <1>1, <1>2 DEF RowsAreCurrent
<1> QED BY <1>2, <1>4, <1>5 DEF Kept, Outcome

LEMMA EndDragKeeps ==
  ASSUME SceneInv, EndDrag
  PROVE  Kept
<1>1. EditorTypes /\ RowsAreCurrent
  BY InvariantIs
<1>2. UNCHANGED <<posted, dropped>> /\ drag' = None
  BY DEF EndDrag
<1>3. CASE Row(drag)
  <2>1. PICK m, f : m = mem /\ f = file
    OBVIOUS
  <2>2. Good(m) /\ GoodFile(f) /\ m.links = f.links /\ m.follow = f.follow
    BY <2>1, InvariantGives
  <2>3. SaveOrRestore(m, f) /\ shown' = IdsOf(mem'.vertical) /\ saveTimer' = FALSE
    BY <1>3, <2>1 DEF EndDrag
  <2>4. Settled'
    BY <2>2, <2>3, SavesSettle
  <2>5. PICK n : n = mem' /\ Good(n)
    BY <2>4, LoadedIsGood DEF Settled
  <2>6. shown' = IdsOf(n.vertical) /\ IdsOf(n.vertical) \in Seq(ItemIds)
    BY <2>3, <2>5, WorkingCopyIsWhole, IdsAreOfItems
  <2>7. EditorTypes'
    BY <1>1, <1>2, <2>3, <2>6 DEF EditorTypes
  <2>8. RowsAreCurrent'
    BY <2>3 DEF RowsAreCurrent
  <2> QED BY <2>4, <2>7, <2>8 DEF Kept, Outcome
<1>4. CASE ~Row(drag)
  <2>1. UNCHANGED <<mem, file, saveTimer, posted>> /\ UNCHANGED <<dropped, shown>>
    BY <1>4 DEF EndDrag
  <2>2. EditorTypes'
    BY <1>1, <1>2, <2>1 DEF EditorTypes
  <2>3. RowsAreCurrent'
    BY <1>1, <2>1 DEF RowsAreCurrent
  <2> QED BY <2>1, <2>2, <2>3 DEF Kept, Outcome
<1> QED BY <1>3, <1>4

LEMMA UnloadKeeps ==
  ASSUME SceneInv, PrepareForUnload
  PROVE  Kept
<1>1. EditorTypes /\ RowsAreCurrent
  BY InvariantIs
<1>2. saveTimer' = FALSE /\ UNCHANGED <<mem, posted, dropped, shown, drag>>
  BY DEF PrepareForUnload
<1>3. EditorTypes'
  BY <1>1, <1>2 DEF EditorTypes
<1>4. RowsAreCurrent'
  BY <1>1, <1>2 DEF RowsAreCurrent
<1> QED BY <1>3, <1>4 DEF Kept, Outcome

\* Rows can be dropped only when no other drop is posted; then those shown are current.
LEMMA DropRowsKeeps ==
  ASSUME SceneInv, NEW rows \in {"scenes", "items"}, DropRows(rows)
  PROVE  Kept
<1>1. /\ EditorTypes /\ RowsAreCurrent /\ shown \in Seq(ItemIds) /\ mem.scenes \in Seq(SceneIds)
      /\ dropped = None
  BY InvariantIs, InvariantGives DEF DropRows
<1>2. UNCHANGED <<mem, file, saveTimer, posted>> /\ UNCHANGED drag
  BY DEF DropRows
<1>3. PICK ids : ids = IF rows = "scenes" THEN mem.scenes ELSE shown
  OBVIOUS
<1>4. PICK order \in SetToSeqs(ToSet(ids)) :
        /\ dropped' = [rows |-> rows, ids |-> order]
        /\ shown' = IF rows = "items" THEN order ELSE shown
  BY <1>3 DEF DropRows
<1>5. order \in Seq(SceneIds) \cup Seq(ItemIds) /\ IsInjective(order) /\ (rows = "items" => order \in Seq(ItemIds))
  <2>1. CASE rows = "scenes"
    BY <1>1, <1>3, <2>1, OrdersAreSequences
  <2>2. CASE rows = "items"
    BY <1>1, <1>3, <2>2, OrdersAreSequences
  <2> QED BY <2>1, <2>2
<1>6. dropped' \in Drop /\ dropped' # None
  <2>1. PICK d : d = [rows |-> rows, ids |-> order]
    OBVIOUS
  <2>2. d \in [rows : {"scenes", "items"}, ids : Seq(SceneIds) \cup Seq(ItemIds)] /\ d.ids = order
    BY <1>5, <2>1
  <2>3. d \in Drop
    BY <1>5, <2>2 DEF Drop
  <2> QED BY <1>4, <2>1, <2>3, NoneAssumption
<1>7. shown' \in Seq(ItemIds)
  BY <1>1, <1>4, <1>5
<1>8. EditorTypes'
  BY <1>1, <1>2, <1>6, <1>7 DEF EditorTypes
<1>9. RowsAreCurrent'
  <2>1. CASE rows = "items"
    <3>1. dropped'.rows = "items" /\ shown' = dropped'.ids
      BY <1>4, <2>1
    <3> QED BY <1>6, <3>1 DEF RowsAreCurrent
  <2>2. CASE rows = "scenes"
    <3>1. shown' = shown
      BY <1>4, <2>2
    <3>2. shown = IdsOf(mem.vertical) \/ "select" \in posted
      BY <1>1 DEF RowsAreCurrent
    <3> QED BY <1>2, <3>1, <3>2 DEF RowsAreCurrent
  <2> QED BY <2>1, <2>2
<1> QED BY <1>2, <1>8, <1>9 DEF Kept, Outcome

\* The items in the order of the ids.
LEMMA ReorderedItems ==
  ASSUME NEW T, NEW ids \in Seq(T), NEW others \in [DOMAIN ids -> Item],
         \A n \in DOMAIN ids : others[n].id = ids[n]
  PROVE  others \in Seq(Item) /\ IdsOf(others) = ids
<1>1. DOMAIN ids = 1 .. Len(ids) /\ Len(ids) \in Nat
  OBVIOUS
<1>2. others \in Seq(Item)
  BY <1>1
<1>3. IdsOf(others) = [n \in DOMAIN ids |-> ids[n]]
  BY DEF IdsOf
<1>4. ids = [n \in DOMAIN ids |-> ids[n]]
  OBVIOUS
<1> QED BY <1>2, <1>3, <1>4

\* Of each id of an item there is an item to choose.
LEMMA ItemOfId ==
  ASSUME NEW items \in Seq(Item), NEW id \in ToSet(IdsOf(items)), NEW k,
         k = CHOOSE n \in DOMAIN items : items[n].id = id
  PROVE  items[k] \in Item /\ items[k].id = id
<1>1. \E n \in DOMAIN items : items[n].id = id
  BY IdsAreOfItems DEF ToSet
<1>2. k \in DOMAIN items /\ items[k].id = id
  BY <1>1
<1> QED BY <1>2

LEMMA HandleDropKeeps ==
  ASSUME SceneInv, HandleDrop
  PROVE  Kept
<1>1. PICK m : m = mem
  OBVIOUS
<1>2. /\ Good(m) /\ m.vertical \in Seq(Item) /\ EditorTypes /\ dropped \in Drop
      /\ dropped' = None /\ UNCHANGED <<saveTimer, posted>>
  BY <1>1, InvariantGives, WorkingCopyIsWhole DEF HandleDrop
<1>3. PICK ids \in Seq(SceneIds) \cup Seq(ItemIds) : ids = dropped.ids /\ IsInjective(ids)
  BY <1>2 DEF Drop
<1>4. dropped' \in Drop \cup {None}
  BY <1>2
<1>5. CASE UNCHANGED <<mem, file>> /\ Refresh(mem)
  <2>1. Refresh(mem')
    BY <1>5
  <2> QED BY <1>1, <1>2, <1>4, <1>5, <2>1, RefreshedIsKept
<1>6. CASE ReorderVerticalScenes(ids) /\ Reorders(ids, m.scenes) /\ ids # m.scenes
  <2>1. PICK w : w = [m EXCEPT !.scenes = ids]
    OBVIOUS
  <2>2. SaveVerticalLayout(w, file)
    BY <1>1, <1>6, <2>1 DEF ReorderVerticalScenes
  <2>3. ToSet(ids) = Scenes(m) /\ m.scenes \in Seq(SceneIds)
    BY <1>1, <1>6, InvariantGives DEF Reorders, Scenes
  <2>4. ids \in Seq(SceneIds)
    <3>1. \A n \in DOMAIN ids : ids[n] \in SceneIds
      BY <2>3 DEF ToSet, Scenes
    <3> QED BY <1>3, <3>1
  <2>5. Good(w)
    BY <1>2, <1>3, <2>1, <2>3, <2>4, ReorderedIsGood
  <2>6. w.links = m.links /\ w.follow = m.follow
    BY <2>1
  <2> QED BY <1>1, <1>2, <1>4, <2>2, <2>5, <2>6, SaveLeavingTimerKeeps
<1>7. CASE ReorderItems(ids) /\ Reorders(ids, IdsOf(m.vertical)) /\ ids # IdsOf(m.vertical)
  <2>1. PICK items : items = [n \in DOMAIN ids |-> m.vertical[CHOOSE k \in DOMAIN m.vertical : m.vertical[k].id = ids[n]]]
    OBVIOUS
  <2>2. PICK w : w = WithLayout(m, items)
    OBVIOUS
  <2>3. SaveVerticalLayout(w, file)
    BY <1>1, <1>7, <2>1, <2>2 DEF ReorderItems
  <2>4. ToSet(ids) = ToSet(IdsOf(m.vertical))
    BY <1>7 DEF Reorders
  <2>5. items \in Seq(Item) /\ IdsOf(items) = ids
    <3>1. ASSUME NEW n \in DOMAIN ids
          PROVE  items[n] \in Item /\ items[n].id = ids[n]
      <4>1. PICK k : k = CHOOSE j \in DOMAIN m.vertical : m.vertical[j].id = ids[n]
        OBVIOUS
      <4>2. ids[n] \in ToSet(IdsOf(m.vertical))
        BY <2>4 DEF ToSet
      <4>3. m.vertical[k] \in Item /\ m.vertical[k].id = ids[n]
        BY <1>2, <4>1, <4>2, ItemOfId
      <4>4. items[n] = m.vertical[k]
        BY <2>1, <4>1
      <4> QED BY <4>3, <4>4
    <3>2. items \in [DOMAIN ids -> Item]
      BY <2>1, <3>1
    <3> QED BY <1>3, <3>1, <3>2, ReorderedItems
  <2>6. Good(w) /\ w.links = m.links /\ w.follow = m.follow
    BY <1>2, <1>3, <2>2, <2>4, <2>5, FewerItemsAreGood, LayoutKeepsTheRest
  <2> QED BY <1>1, <1>2, <1>4, <2>3, <2>6, SaveLeavingTimerKeeps
<1>8. ReorderVerticalScenes(ids) \/ ReorderItems(ids)
  BY <1>3 DEF HandleDrop
<1>9. CASE ReorderVerticalScenes(ids) /\ ~(Reorders(ids, m.scenes) /\ ids # m.scenes)
  <2>1. UNCHANGED <<mem, file>> /\ Refresh(mem)
    BY <1>1, <1>9 DEF ReorderVerticalScenes
  <2> QED BY <1>5, <2>1
<1>10. CASE ReorderItems(ids) /\ ~(Reorders(ids, IdsOf(m.vertical)) /\ ids # IdsOf(m.vertical))
  <2>1. UNCHANGED <<mem, file>> /\ Refresh(mem)
    BY <1>1, <1>10 DEF ReorderItems
  <2> QED BY <1>5, <2>1
<1> QED BY <1>6, <1>7, <1>8, <1>9, <1>10
-----------------------------------------------------------------------------
(* The theorems *)

LEMMA InitGood ==
  Init => SceneInv
<1> SUFFICES ASSUME Init PROVE SceneInv
  OBVIOUS
<1>1. PICK f : f = Start
  OBVIOUS
<1>2. GoodFile(f) /\ file = f /\ mem = Loaded(f)
  BY <1>1, StartAssumption DEF Init, GoodFile
<1>3. Good(mem) /\ GoodFile(file) /\ Agrees(mem, file)
  BY <1>2, LoadedIsGood, LoadedAgrees
<1>4. PICK m : m = mem
  OBVIOUS
<1>5. shown = IdsOf(m.vertical) /\ IdsOf(m.vertical) \in Seq(ItemIds)
  BY <1>3, <1>4, WorkingCopyIsWhole, IdsAreOfItems DEF Init
<1>6. EditorTypes
  BY <1>5 DEF Init, EditorTypes
<1>7. RowsAreCurrent
  BY DEF Init, RowsAreCurrent
<1> QED BY <1>3, <1>6, <1>7, InvariantIs

LEMMA ManagerStepKeeps ==
  ASSUME SceneInv, ManagerStep
  PROVE  Kept
<1>1. CASE \E s \in SceneIds : CreateVerticalScene(s)
  BY <1>1, CreateKeeps
<1>2. CASE \E s \in SceneIds : RemoveVerticalScene(s)
  BY <1>2, RemoveKeeps
<1>3. CASE \E n \in DOMAIN mem.scenes : MoveVerticalScene(n)
  BY <1>3, MoveSceneKeeps
<1>4. CASE \E o \in ObsScenes, s \in Scenes(mem) \cup {None} : SetSceneLink(o, s)
  BY <1>4, SetLinkKeeps
<1>5. CASE RenameVerticalScene
  BY <1>5, RenameKeeps
<1>6. CASE SetFollowObsScene
  BY <1>6, SetFollowKeeps
<1>7. CASE RefreshSceneIdentities
  BY <1>7, RefreshIdentitiesKeeps
<1>8. CASE OtherSave
  BY <1>8, OtherSaveKeeps
<1>9. CASE ReloadForCurrentProfile
  BY <1>9, ReloadKeeps
<1>10. CASE ObsChangesScene
  BY <1>10, ObsChangeKeeps
<1> QED BY <1>1, <1>2, <1>3, <1>4, <1>5, <1>6, <1>7, <1>8, <1>9, <1>10 DEF ManagerStep

LEMMA EditorStepKeeps ==
  ASSUME SceneInv, EditorStep
  PROVE  Kept
<1>1. CASE \E s \in SceneIds : SelectVerticalScene(s)
  BY <1>1, SelectKeeps
<1>2. CASE \E rows \in {"scenes", "items"} : DropRows(rows)
  BY <1>2, DropRowsKeeps
<1>3. CASE \E i \in ItemIds : AddItem(i)
  BY <1>3, AddItemKeeps
<1>4. CASE \E n \in DOMAIN shown : RemoveItem(n) \/ MoveItem(n) \/ StartDrag(n)
  BY <1>4, RemoveItemKeeps, MoveItemKeeps, StartDragKeeps
<1>5. CASE \E n \in DOMAIN shown : \E form \in FormsAt(n) :
             EditItem(n, form) \/ UpdateSelectedItem(n, form) \/ UpdateItemVisibility(n, form)
  BY <1>5, EditItemKeeps, UpdateSelectedKeeps, VisibilityKeeps
<1>6. CASE \E form \in (IF drag = None THEN {} ELSE FormsAt(drag)) : Drag(form)
  <2>1. PICK form \in (IF drag = None THEN {} ELSE FormsAt(drag)) : Drag(form)
    BY <1>6
  <2>2. drag # None => form \in FormsAt(drag)
    BY <2>1
  <2> QED BY <2>1, <2>2, DragKeeps
<1>7. CASE EndDrag
  BY <1>7, EndDragKeeps
<1>8. CASE PrepareForUnload
  BY <1>8, UnloadKeeps
<1> QED BY <1>1, <1>2, <1>3, <1>4, <1>5, <1>6, <1>7, <1>8 DEF EditorStep

LEMMA StepKeeps ==
  ASSUME SceneInv, [Next]_vars
  PROVE  Kept
<1>1. CASE ManagerStep
  BY <1>1, ManagerStepKeeps
<1>2. CASE EditorStep
  BY <1>2, EditorStepKeeps
<1>3. CASE Posted
  BY <1>3, HandleDropKeeps, TimerKeeps, PostedSaveKeeps DEF Posted
<1>4. CASE UNCHANGED vars
  BY <1>4, UnchangedIsKept
<1> QED BY <1>1, <1>2, <1>3, <1>4 DEF Next

LEMMA InvariantIsKept ==
  SceneInv /\ [Next]_vars => SceneInv'
<1> SUFFICES ASSUME SceneInv, [Next]_vars PROVE SceneInv'
  OBVIOUS
<1>1. Good(mem)' /\ GoodFile(file)' /\ Agrees(mem, file)' /\ EditorTypes' /\ RowsAreCurrent'
  BY StepKeeps, KeptIsEnough
<1>2. TypeOK'
  BY <1>1 DEF TypeOK, EditorTypes, Good, GoodFile
<1>3. ScenesAreWhole'
  BY <1>1 DEF ScenesAreWhole, Good, GoodFile
<1>4. OnlyEditsAwaitSaving'
  BY <1>1 DEF OnlyEditsAwaitSaving, Agrees
<1> QED BY <1>1, <1>2, <1>3, <1>4 DEF SceneInv

\* The conjuncts of the invariant hold together, and no step undoes them.
THEOREM SceneInvariance == Spec => []SceneInv
BY InitGood, InvariantIsKept, PTL DEF Spec

\* Every variable of the vertical scenes has its type.
THEOREM TypeCorrect == Spec => []TypeOK
<1>1. SceneInv => TypeOK
  BY DEF SceneInv
<1> QED BY <1>1, SceneInvariance, PTL

\* However saves fail and whatever arrives late, the vertical scenes, their items and
\* links fit together, in memory and in the file (OutputManager::saveVerticalLayout,
\* removeVerticalScene).
THEOREM ScenesFitTogether == Spec => []ScenesAreWhole
<1>1. SceneInv => ScenesAreWhole
  BY DEF SceneInv
<1> QED BY <1>1, SceneInvariance, PTL

\* Whatever saves fail, only the choice of the active scene and the form of items ever
\* differ from the file (OutputManager::save and its callers' rollbacks).
THEOREM StructureIsSaved == Spec => []OnlyEditsAwaitSaving
<1>1. SceneInv => OnlyEditsAwaitSaving
  BY DEF SceneInv
<1> QED BY <1>1, SceneInvariance, PTL

\* The rows that the user sees and acts on are the active scene's items, but while a
\* handler that will refresh them is posted (VerticalLayoutEditor::refreshItems).
THEOREM RowsFollowItems == Spec => []RowsAreCurrent
<1>1. SceneInv => RowsAreCurrent
  BY DEF SceneInv
<1> QED BY <1>1, SceneInvariance, PTL

\* No step but prepareForUnload leaves an unsaved edit without a save on its way
\* (VerticalLayoutEditor::scheduleSave, saveNow).
THEOREM EditsReachTheFile == Spec => EditsAreSaved
<1>1. SceneInv /\ [Next]_vars => [(Unsaved /\ ~SavePending)' => (Unsaved /\ ~SavePending) \/ PrepareForUnload]_vars
  <2> SUFFICES ASSUME SceneInv, [Next]_vars
               PROVE  (Unsaved /\ ~SavePending)' => (Unsaved /\ ~SavePending) \/ PrepareForUnload
    OBVIOUS
  <2> QED BY StepKeeps, KeptIsEnough
<1> QED BY <1>1, SceneInvariance, PTL DEF Spec, EditsAreSaved

=============================================================================
