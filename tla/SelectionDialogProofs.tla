----------------------- MODULE SelectionDialogProofs -----------------------
(***************************************************************************)
(* Theorems about SelectionDialog, for any targets and any bounds: a       *)
(* target goes on only by the answer to its last question, no question is  *)
(* lost, and a visible dock asks nothing that is out of date.              *)
(*                                                                         *)
(* The argument is one of versions.  What has been asked is not newer than *)
(* its target's session, the dock knows of each session the newest question*)
(* it has been told, and holds no other one of that session.               *)
(***************************************************************************)
EXTENDS SelectionDialog, FiniteSetTheorems, WellFoundedInduction, TLAPS

(* Sets of natural numbers and sequences *)

LEMMA LeastNumber ==
  ASSUME NEW S \in SUBSET Nat, S # {}
  PROVE  Min(S) \in S /\ \A x \in S : Min(S) <= x
<1> DEFINE R == {p \in Nat \X Nat : p[1] < p[2]}
<1>1. IsWellFoundedOn(R, Nat)
  BY NatLessThanWellFounded DEF OpToRel
<1>2. PICK m \in S : \A y \in S : <<y, m>> \notin R
  <2> HIDE DEF R
  <2> QED BY <1>1, WFMin, Zenon
<1>3. \A y \in S : m <= y
  <2> TAKE y \in S
  <2>1. m \in Nat /\ y \in Nat /\ <<y, m>> \in Nat \X Nat
    OBVIOUS
  <2>2. <<y, m>>[1] = y /\ <<y, m>>[2] = m
    OBVIOUS
  <2>3. ~(y < m)
    BY <1>2, <2>1, <2>2
  <2> QED BY <2>1, <2>3
<1> QED BY <1>2, <1>3 DEF Min

LEMMA GreatestNumber ==
  ASSUME NEW S \in SUBSET Nat, S # {}, NEW b \in Nat, \A x \in S : x <= b
  PROVE  Max(S) \in S /\ \A x \in S : x <= Max(S)
<1> DEFINE U == {n \in Nat : \A x \in S : x <= n}
<1>1. U \in SUBSET Nat /\ U # {}
  OBVIOUS
<1>2. PICK m \in U : \A n \in U : m <= n
  BY <1>1, LeastNumber
<1>3. m \in S
  <2> SUFFICES ASSUME m \notin S
               PROVE  FALSE
    OBVIOUS
  <2>1. m \in Nat /\ \A x \in S : x \in Nat /\ x < m
    BY <1>2
  <2>2. PICK x \in S : TRUE
    OBVIOUS
  <2>3. m - 1 \in U
    BY <2>1, <2>2
  <2> QED BY <1>2, <2>1, <2>3
<1> QED BY <1>2, <1>3 DEF Max

\* The elements of t are those of s at the places in I, each once, and h tells which.
Places(h, t, s, I) ==
  /\ h \in [DOMAIN t -> I]
  /\ \A n \in DOMAIN t : t[n] = s[h[n]]
  /\ \A m, n \in DOMAIN t : h[m] = h[n] => m = n
  /\ \A i \in I : \E n \in DOMAIN t : h[n] = i

\* Kept(s, I) has each element of s at a place in I, and once.
LEMMA KeptFacts ==
  ASSUME NEW S, NEW s \in Seq(S), NEW I \in SUBSET DOMAIN s
  PROVE  /\ Kept(s, I) \in Seq(S)
         /\ \E h : Places(h, Kept(s, I), s, I)
<1> DEFINE N == Cardinality(I)
           upto == [i \in I |-> {j \in I : j <= i}]
           rank == [i \in I |-> Rank(i, I)]
           g == [n \in 1 .. N |-> CHOOSE i \in I : Rank(i, I) = n]
<1>1. IsFiniteSet(I) /\ N \in Nat /\ I \subseteq Nat
  <2>1. IsFiniteSet(1 .. Len(s)) /\ DOMAIN s = 1 .. Len(s)
    BY FS_Interval
  <2> QED BY <2>1, FS_Subset, FS_CardinalityType
<1>2. \A i \in I : Rank(i, I) \in 1 .. N
  <2> TAKE i \in I
  <2>1. upto[i] \in SUBSET I /\ upto[i] # {} /\ Rank(i, I) = Cardinality(upto[i])
    BY <1>1 DEF Rank
  <2> HIDE DEF upto
  <2>2. IsFiniteSet(upto[i]) /\ Cardinality(upto[i]) <= N
    BY <1>1, <2>1, FS_Subset
  <2>3. Cardinality(upto[i]) \in Nat /\ Cardinality(upto[i]) # 0
    BY <2>1, <2>2, FS_CardinalityType, FS_EmptySet
  <2> QED BY <1>1, <2>1, <2>2, <2>3
<1>3. \A i, j \in I : i < j => Rank(i, I) < Rank(j, I)
  <2> TAKE i, j \in I
  <2> HAVE i < j
  <2>1. /\ upto[i] \in SUBSET upto[j] /\ upto[i] # upto[j] /\ upto[j] \in SUBSET I
        /\ Rank(i, I) = Cardinality(upto[i]) /\ Rank(j, I) = Cardinality(upto[j])
    BY <1>1 DEF Rank
  <2> HIDE DEF upto
  <2>2. IsFiniteSet(upto[j])
    BY <1>1, <2>1, FS_Subset
  <2>3. Cardinality(upto[i]) <= Cardinality(upto[j]) /\ Cardinality(upto[i]) # Cardinality(upto[j])
    BY <2>1, <2>2, FS_Subset
  <2> QED BY <1>1, <1>2, <2>1, <2>3
<1>4. rank \in Injection(I, 1 .. N)
  <2>1. \A i, j \in I : rank[i] = rank[j] => i = j
    BY <1>1, <1>2, <1>3
  <2> QED BY <1>2, <2>1 DEF Injection, IsInjective
<1>5. rank \in Surjection(I, 1 .. N)
  <2>1. IsFiniteSet(1 .. N) /\ Cardinality(1 .. N) = N
    BY <1>1, FS_Interval
  <2> HIDE DEF rank
  <2> QED BY <1>4, <2>1, FS_Injection
<1>6. \A n \in 1 .. N : \E i \in I : Rank(i, I) = n
  BY <1>5 DEF Surjection
<1>7. \A n \in 1 .. N : g[n] \in I /\ Rank(g[n], I) = n
  BY <1>6
<1>8. Kept(s, I) = [n \in 1 .. N |-> s[g[n]]]
  BY DEF Kept
<1>9. \A i \in I : \E n \in 1 .. N : g[n] = i
  <2> TAKE i \in I
  <2> DEFINE k == g[Rank(i, I)]
  <2>1. k \in I /\ Rank(k, I) = Rank(i, I)
    BY <1>2, <1>7
  <2> HIDE DEF k
  <2>2. k = i
    BY <1>1, <1>2, <1>3, <2>1
  <2> QED BY <1>2, <2>2 DEF k
<1>10. Kept(s, I) \in Seq(S)
  <2>1. \A n \in 1 .. N : s[g[n]] \in S
    BY <1>7
  <2> HIDE DEF g, N
  <2> QED BY <1>1, <1>8, <2>1
<1>11. g \in [1 .. N -> I] /\ \A m, n \in 1 .. N : g[m] = g[n] => m = n
  BY <1>7
<1> HIDE DEF g, N
<1>12. Places(g, Kept(s, I), s, I)
  BY <1>8, <1>9, <1>11 DEF Places
<1> QED BY <1>10, <1>12

-----------------------------------------------------------------------------
(* What the dock holds *)

Docks ==
  [latest : [Targets -> Versions \cup {None}], pending : Seq(Questions),
   active : Questions \cup {None}, posted : BOOLEAN]

\* The questions dock d has
Held(d) == (ToSet(d.pending) \cup {d.active}) \ {None}

Version(q) == [serial |-> q.serial, generation |-> q.generation]

\* Session s may be answered the question q, as far as s goes.
Answerable(q) == SessionCurrent(q.target, q.serial) /\ session[q.target].required

\* Question or version v is not newer than session s, and older than what is in flight.
NotAhead(v, s) ==
  \/ v.serial < s.serial
  \/ v.serial = s.serial /\ (v.generation < s.generation \/ (v.generation = s.generation /\ ~s.inFlight))

\* Dock d knows the newest question of each session, and holds no other of it.
DockSound(d) ==
  /\ \A q \in Held(d) : NotAhead(q, session[q.target])
  /\ \A t \in Targets : d.latest[t] # None => NotAhead(d.latest[t], session[t])
  /\ \A q \in Held(d) : SessionCurrent(q.target, q.serial) => d.latest[q.target] = Version(q)
  /\ \A m, n \in DOMAIN d.pending : m # n => ~SameSession(d.pending[m], d.pending[n])
  /\ d.active # None => \A n \in DOMAIN d.pending : ~SameSession(d.pending[n], d.active)

ActiveIsCurrent(d) == d.active # None => RequestCurrent(d, d.active)

NothingWaits(d) == d.active = None => d.pending = << >>

LEMMA HeldFacts ==
  ASSUME NEW d \in Docks
  PROVE  /\ Held(d) \subseteq Questions
         /\ \A n \in DOMAIN d.pending : d.pending[n] \in Held(d)
         /\ d.active # None => d.active \in Held(d)
         /\ \A q \in Held(d) : q = d.active \/ \E n \in DOMAIN d.pending : q = d.pending[n]
  BY DialogAssumption DEF Held, Docks, ToSet

LEMMA RequestCurrentSplit ==
  ASSUME NEW d, NEW q
  PROVE  RequestCurrent(d, q) <=> Answerable(q) /\ d.latest[q.target] = Version(q)
  BY DEF RequestCurrent, Answerable, Version

\* Discarding keeps what can still be answered, and nothing else in the dialog.
LEMMA Discarding ==
  ASSUME session \in [Targets -> Sessions], NEW d \in Docks, DockSound(d)
  PROVE  /\ Discarded(d) \in Docks /\ DockSound(Discarded(d)) /\ ActiveIsCurrent(Discarded(d))
         /\ \A t \in Targets : Discarded(d).latest[t] \in {d.latest[t], None}
         /\ \A q \in Held(d) : Answerable(q) => q \in Held(Discarded(d))
         /\ Held(Discarded(d)) \subseteq Held(d)
<1> DEFINE known == [t \in Targets |-> IF d.latest[t] # None /\ ~SessionCurrent(t, d.latest[t].serial)
                                        THEN None ELSE d.latest[t]]
           e == [d EXCEPT !.latest = known]
           places == CurrentPlaces(e)
           stale == e.active # None /\ ~RequestCurrent(e, e.active)
           kept == Kept(d.pending, places)
           f == Discarded(d)
<1>1. /\ d.latest \in [Targets -> Versions \cup {None}] /\ d.pending \in Seq(Questions)
      /\ d.active \in Questions \cup {None} /\ d.posted \in BOOLEAN
  BY DEF Docks
<1>2. known \in [Targets -> Versions \cup {None}] /\ \A t \in Targets : known[t] \in {d.latest[t], None}
  BY <1>1
<1>3. e \in Docks /\ e.latest = known /\ e.pending = d.pending /\ e.active = d.active
  BY <1>1, <1>2 DEF Docks
<1>4. /\ f = [latest |-> known, pending |-> kept, active |-> IF stale THEN None ELSE d.active,
              posted |-> d.posted \/ stale]
      /\ f.latest = known /\ f.pending = kept /\ f.active = (IF stale THEN None ELSE d.active)
  <2>1. f = [e EXCEPT !.pending = Kept(@, CurrentPlaces(e)),
                      !.active = IF stale THEN None ELSE @,
                      !.posted = @ \/ stale]
    BY DEF Discarded
  <2>2. e = [latest |-> known, pending |-> d.pending, active |-> d.active, posted |-> d.posted]
    BY DEF Docks
  <2>3. f = [latest |-> known, pending |-> kept, active |-> IF stale THEN None ELSE d.active,
             posted |-> d.posted \/ stale]
    <3> HIDE DEF known, stale, f
    <3> QED BY <2>1, <2>2
  <2> HIDE DEF f, known, stale, kept
  <2> QED BY <2>3
<1>5. places \in SUBSET DOMAIN d.pending
      /\ \A n \in DOMAIN d.pending : n \in places <=> RequestCurrent(e, d.pending[n])
  BY <1>3 DEF CurrentPlaces
<1> HIDE DEF e, f, known, places, kept
<1>6. kept \in Seq(Questions)
  BY <1>1, <1>5, KeptFacts DEF kept
<1>15. PICK h : Places(h, kept, d.pending, places)
  BY <1>1, <1>5, KeptFacts DEF kept
<1>7. f \in Docks
  BY <1>1, <1>2, <1>4, <1>6 DEF Docks
<1>8. Held(f) \subseteq Held(d)
  <2> SUFFICES ASSUME NEW q \in Held(f)
               PROVE  q \in Held(d)
    OBVIOUS
  <2>1. CASE q = f.active
    BY <1>4, <1>7, <2>1, HeldFacts DEF Held
  <2>2. CASE \E n \in DOMAIN f.pending : q = f.pending[n]
    BY <1>4, <1>5, <1>15, <2>2, HeldFacts DEF Places
  <2> QED BY <1>7, <2>1, <2>2, HeldFacts
\* The newest question of a session that is current stays known.
<1>9. \A q \in Held(d) : SessionCurrent(q.target, q.serial) => known[q.target] = Version(q)
  <2> SUFFICES ASSUME NEW q \in Held(d), SessionCurrent(q.target, q.serial)
               PROVE  known[q.target] = Version(q)
    OBVIOUS
  <2>1. q \in Questions /\ d.latest[q.target] = Version(q)
    BY HeldFacts DEF DockSound
  <2>2. SessionCurrent(q.target, Version(q).serial)
    BY DEF Version
  <2> QED BY <2>1, <2>2 DEF known, Questions
<1>10. \A q \in Held(d) : Answerable(q) => RequestCurrent(e, q)
  BY <1>3, <1>9, RequestCurrentSplit DEF Answerable
<1>11. \A q \in Held(d) : Answerable(q) => q \in Held(f)
  <2> SUFFICES ASSUME NEW q \in Held(d), Answerable(q)
               PROVE  q \in Held(f)
    OBVIOUS
  <2>1. RequestCurrent(e, q) /\ q \in Questions
    BY <1>10, HeldFacts
  <2>2. CASE q = d.active
    <3>1. f.active = q
      BY <1>3, <1>4, <2>1, <2>2
    <3> QED BY <1>7, <2>1, <3>1, DialogAssumption, HeldFacts
  <2>3. CASE \E n \in DOMAIN d.pending : q = d.pending[n]
    BY <1>4, <1>5, <1>15, <1>7, <2>1, <2>3, HeldFacts DEF Places
  <2> QED BY <2>2, <2>3, HeldFacts
<1>12. ActiveIsCurrent(f)
  <2> SUFFICES ASSUME f.active # None
               PROVE  RequestCurrent(f, f.active)
    BY DEF ActiveIsCurrent
  <2>1. ~stale /\ f.active = e.active /\ RequestCurrent(e, e.active)
    BY <1>3, <1>4
  <2> QED BY <1>3, <1>4, <2>1, RequestCurrentSplit
<1>13. DockSound(f)
  <2>1. \A q \in Held(f) : NotAhead(q, session[q.target])
    BY <1>8 DEF DockSound
  <2>2. \A t \in Targets : f.latest[t] # None => NotAhead(f.latest[t], session[t])
    BY <1>2, <1>4 DEF DockSound
  <2>3. \A q \in Held(f) : SessionCurrent(q.target, q.serial) => f.latest[q.target] = Version(q)
    BY <1>4, <1>8, <1>9
  <2>4. \A m, n \in DOMAIN f.pending : m # n => ~SameSession(f.pending[m], f.pending[n])
    BY <1>4, <1>5, <1>15 DEF DockSound, Places
  <2>5. f.active # None => \A n \in DOMAIN f.pending : ~SameSession(f.pending[n], f.active)
    BY <1>4, <1>5, <1>15 DEF DockSound, Places
  <2> QED BY <2>1, <2>2, <2>3, <2>4, <2>5 DEF DockSound
<1>14. \A t \in Targets : f.latest[t] \in {d.latest[t], None}
  BY <1>2, <1>4
<1> QED BY <1>7, <1>8, <1>11, <1>12, <1>13, <1>14 DEF f

\* Showing the next question keeps what is current, and leaves none waiting if no dialog is open.
LEMMA Showing ==
  ASSUME session \in [Targets -> Sessions], NEW d \in Docks, DockSound(d), ActiveIsCurrent(d)
  PROVE  /\ ShowNext(d) \in Docks /\ DockSound(ShowNext(d))
         /\ ActiveIsCurrent(ShowNext(d)) /\ NothingWaits(ShowNext(d))
         /\ ShowNext(d).latest = d.latest
         /\ \A q \in Held(d) : Answerable(q) => q \in Held(ShowNext(d))
         /\ Held(ShowNext(d)) \subseteq Held(d)
<1> DEFINE f == ShowNext(d)
           places == CurrentPlaces(d)
<1>1. /\ d.latest \in [Targets -> Versions \cup {None}] /\ d.pending \in Seq(Questions)
      /\ d.active \in Questions \cup {None} /\ d.posted \in BOOLEAN
  BY DEF Docks
<1>2. \A q \in Held(d) : Answerable(q) => RequestCurrent(d, q)
  BY RequestCurrentSplit DEF DockSound, Answerable
<1>3. CASE d.active # None
  <2>1. f = d
    BY <1>3 DEF ShowNext
  <2> QED BY <1>3, <2>1 DEF NothingWaits
<1>4. CASE d.active = None /\ places = {}
  <2>1. f = [d EXCEPT !.pending = << >>]
    BY <1>4 DEF ShowNext
  <2>2. /\ f.latest = d.latest /\ f.pending = << >> /\ f.active = None /\ f.posted = d.posted
        /\ f = [latest |-> d.latest, pending |-> << >>, active |-> None, posted |-> d.posted]
    BY <1>4, <2>1 DEF Docks
  <2>3. f \in Docks
    BY <1>1, <2>2 DEF Docks
  <2>4. Held(f) = {}
    BY <2>2 DEF Held, ToSet
  <2>5. \A q \in Held(d) : ~Answerable(q)
    <3> SUFFICES ASSUME NEW q \in Held(d), Answerable(q)
                 PROVE  FALSE
      OBVIOUS
    <3>1. RequestCurrent(d, q) /\ q # None
      BY <1>2 DEF Held
    <3>2. PICK n \in DOMAIN d.pending : q = d.pending[n]
      BY <1>4, <3>1, HeldFacts
    <3> QED BY <1>4, <3>1, <3>2 DEF CurrentPlaces
  <2>6. DockSound(f)
    BY <2>2, <2>4 DEF DockSound
  <2> QED BY <2>2, <2>3, <2>4, <2>5, <2>6 DEF NothingWaits, ActiveIsCurrent
<1>5. CASE d.active = None /\ places # {}
  <2> DEFINE k == Min(places)
             tail == SubSeq(d.pending, k + 1, Len(d.pending))
  <2>1. places \in SUBSET Nat /\ places \subseteq DOMAIN d.pending /\ DOMAIN d.pending = 1 .. Len(d.pending)
        /\ Len(d.pending) \in Nat
    BY <1>1 DEF CurrentPlaces
  <2>2. k \in places /\ \A n \in places : k <= n
    BY <1>5, <2>1, LeastNumber
  <2>3. f = [d EXCEPT !.active = d.pending[k], !.pending = tail]
    BY <1>5 DEF ShowNext
  <2>4. /\ f.latest = d.latest /\ f.pending = tail /\ f.active = d.pending[k] /\ f.posted = d.posted
        /\ f = [latest |-> d.latest, pending |-> tail, active |-> d.pending[k], posted |-> d.posted]
    BY <2>3 DEF Docks
  <2> HIDE DEF f, places, k
  <2>5. k \in 1 .. Len(d.pending)
    BY <2>1, <2>2
  <2>6. /\ tail \in Seq(Questions) /\ Len(tail) = Len(d.pending) - k
        /\ \A n \in 1 .. Len(tail) : tail[n] = d.pending[n + k]
    <3>1. k + 1 \in Int /\ Len(d.pending) \in Int /\ k + 1 >= 1
      BY <2>1, <2>5
    <3>2. \A n \in (k + 1) .. Len(d.pending) : d.pending[n] \in Questions
      BY <1>1, <2>1, <2>5
    <3> QED BY <1>1, <2>1, <2>5, <3>1, <3>2
  <2> HIDE DEF tail
  <2>7. d.pending[k] \in Questions /\ d.pending[k] # None
    BY <1>1, <2>1, <2>5, DialogAssumption
  <2>8. f \in Docks
    BY <1>1, <2>4, <2>6, <2>7 DEF Docks
  <2>9. DOMAIN f.pending = 1 .. Len(d.pending) - k
    BY <2>4, <2>6
  <2>10. \A n \in DOMAIN f.pending : n + k \in DOMAIN d.pending /\ n + k # k /\ f.pending[n] = d.pending[n + k]
    BY <2>1, <2>4, <2>5, <2>6, <2>9
  <2>11. Held(f) \subseteq Held(d)
    <3> SUFFICES ASSUME NEW q \in Held(f)
                 PROVE  q \in Held(d)
      OBVIOUS
    <3>1. CASE q = f.active
      BY <2>1, <2>4, <2>5, <3>1, HeldFacts
    <3>2. CASE \E n \in DOMAIN f.pending : q = f.pending[n]
      BY <2>10, <3>2, HeldFacts
    <3> QED BY <2>8, <3>1, <3>2, HeldFacts
  <2>12. RequestCurrent(d, d.pending[k])
    BY <2>2 DEF places, CurrentPlaces
  <2>13. ActiveIsCurrent(f)
    BY <2>4, <2>12, RequestCurrentSplit DEF ActiveIsCurrent
  <2>14. \A q \in Held(d) : Answerable(q) => q \in Held(f)
    <3> SUFFICES ASSUME NEW q \in Held(d), Answerable(q)
                 PROVE  q \in Held(f)
      OBVIOUS
    <3>1. RequestCurrent(d, q) /\ q # None
      BY <1>2 DEF Held
    <3>2. PICK n \in DOMAIN d.pending : q = d.pending[n]
      BY <1>5, <3>1, HeldFacts
    <3>3. n \in places
      BY <3>1, <3>2 DEF places, CurrentPlaces
    <3>4. n \in Nat /\ k \in Nat /\ k <= n /\ n <= Len(d.pending)
      BY <2>1, <2>2, <2>5, <3>2, <3>3
    <3>5. CASE n = k
      BY <2>4, <2>7, <2>8, <3>2, <3>5, HeldFacts
    <3>6. CASE n # k
      <4>1. n - k \in DOMAIN f.pending /\ (n - k) + k = n
        BY <2>1, <2>9, <3>4, <3>6
      <4> QED BY <2>8, <2>10, <3>2, <4>1, HeldFacts
    <3> QED BY <3>5, <3>6
  <2>15. DockSound(f)
    <3>1. \A q \in Held(f) : NotAhead(q, session[q.target])
      BY <2>11 DEF DockSound
    <3>2. \A t \in Targets : f.latest[t] # None => NotAhead(f.latest[t], session[t])
      BY <2>4 DEF DockSound
    <3>3. \A q \in Held(f) : SessionCurrent(q.target, q.serial) => f.latest[q.target] = Version(q)
      BY <2>4, <2>11 DEF DockSound
    <3>4. \A m, n \in DOMAIN f.pending : m # n => ~SameSession(f.pending[m], f.pending[n])
      <4> TAKE m, n \in DOMAIN f.pending
      <4> HAVE m # n
      <4>1. m + k # n + k
        BY <2>5, <2>9
      <4> QED BY <2>10, <4>1 DEF DockSound
    <3>5. \A n \in DOMAIN f.pending : ~SameSession(f.pending[n], f.active)
      BY <2>1, <2>4, <2>5, <2>10 DEF DockSound
    <3> QED BY <3>1, <3>2, <3>3, <3>4, <3>5 DEF DockSound
  <2> QED BY <2>4, <2>7, <2>8, <2>11, <2>13, <2>14, <2>15 DEF NothingWaits, f
<1> QED BY <1>3, <1>4, <1>5

\* A question that is taken up takes the place of its session's last one, and of no other.
LEMMA Taking ==
  ASSUME session \in [Targets -> Sessions], NEW d \in Docks, DockSound(d), ActiveIsCurrent(d),
         NEW q \in Questions, ~Outdated(d, q), NotAhead(q, session[q.target]),
         NEW f, f = TakenUp([d EXCEPT !.latest[q.target] = Version(q)], q)
  PROVE  /\ f \in Docks /\ DockSound(f) /\ ActiveIsCurrent(f) /\ NothingWaits(f)
         /\ f.latest = [d.latest EXCEPT ![q.target] = Version(q)]
         /\ Answerable(q) => q \in Held(f)
         /\ \A p \in Held(d) : Answerable(p) /\ ~SameSession(p, q) => p \in Held(f)
<1> DEFINE known == [d.latest EXCEPT ![q.target] = Version(q)]
           e == [d EXCEPT !.latest[q.target] = Version(q)]
<1>1. /\ d.latest \in [Targets -> Versions \cup {None}] /\ d.pending \in Seq(Questions)
      /\ d.active \in Questions \cup {None} /\ d.posted \in BOOLEAN
      /\ q.target \in Targets /\ Version(q) \in Versions /\ q # None
  BY DialogAssumption DEF Docks, Questions, Versions, Version
<1>2. known \in [Targets -> Versions \cup {None}]
      /\ known[q.target] = Version(q) /\ \A t \in Targets : t # q.target => known[t] = d.latest[t]
  BY <1>1
<1>3. e = [latest |-> known, pending |-> d.pending, active |-> d.active, posted |-> d.posted]
  BY DEF Docks
<1>4. SessionCurrent(q.target, q.serial)
  BY DEF Outdated
<1>5. \A t \in Targets : known[t] # None => NotAhead(known[t], session[t])
  <2> TAKE t \in Targets
  <2>1. CASE t = q.target
    BY <1>2, <2>1 DEF NotAhead, Version
  <2>2. CASE t # q.target
    BY <1>2, <2>2 DEF DockSound
  <2> QED BY <2>1, <2>2
\* Another question of a session that is current is of another target.
<1>6. ASSUME NEW p \in Held(d), SessionCurrent(p.target, p.serial), ~SameSession(p, q)
      PROVE  p.target # q.target /\ known[p.target] = Version(p)
  <2>1. p \in Questions /\ d.latest[p.target] = Version(p)
    BY <1>6, HeldFacts DEF DockSound
  <2>2. p.target # q.target
    BY <1>4, <1>6 DEF SameSession, SessionCurrent
  <2> QED BY <1>2, <2>1, <2>2 DEF Questions
<1> HIDE DEF e, known
<1>7. CASE d.active # None /\ SameSession(d.active, q)
  <2>1. f = [e EXCEPT !.active = q]
    BY <1>3, <1>7 DEF TakenUp, e
  <2>2. /\ f = [latest |-> known, pending |-> d.pending, active |-> q, posted |-> d.posted]
        /\ f.latest = known /\ f.pending = d.pending /\ f.active = q
    BY <1>3, <2>1
  <2>3. f \in Docks
    BY <1>1, <1>2, <2>2 DEF Docks
  <2>4. \A n \in DOMAIN d.pending : ~SameSession(d.pending[n], q)
    BY <1>7 DEF DockSound, SameSession
  <2>5. ASSUME NEW p \in Held(f)
        PROVE  p = q \/ (p \in Held(d) /\ ~SameSession(p, q))
    BY <2>2, <2>3, <2>4, HeldFacts
  <2>6. RequestCurrent(f, q)
    <3>1. RequestCurrent(d, d.active)
      BY <1>7 DEF ActiveIsCurrent
    <3>2. session[q.target].required
      BY <1>7, <3>1 DEF RequestCurrent, SameSession
    <3> QED BY <1>2, <1>4, <2>2, <3>2 DEF RequestCurrent, Version
  <2>7. \A p \in Held(f) : NotAhead(p, session[p.target])
    BY <2>5 DEF DockSound
  <2>8. \A p \in Held(f) : SessionCurrent(p.target, p.serial) => f.latest[p.target] = Version(p)
    BY <1>2, <1>6, <2>2, <2>5
  <2>9. DockSound(f)
    BY <1>5, <2>2, <2>4, <2>7, <2>8 DEF DockSound
  <2>10. \A p \in Held(d) : ~SameSession(p, q) => p \in Held(f)
    <3> SUFFICES ASSUME NEW p \in Held(d), ~SameSession(p, q)
                 PROVE  p \in Held(f)
      OBVIOUS
    <3>1. PICK n \in DOMAIN d.pending : p = d.pending[n]
      BY <1>7, HeldFacts
    <3> QED BY <2>2, <2>3, <3>1, HeldFacts
  <2>11. q \in Held(f)
    BY <1>1, <2>2, <2>3, HeldFacts
  <2> QED BY <1>1, <2>2, <2>3, <2>6, <2>9, <2>10, <2>11 DEF ActiveIsCurrent, NothingWaits, known
<1>8. CASE ~(d.active # None /\ SameSession(d.active, q))
  <2> DEFINE N == Len(d.pending)
             waits == \E p \in ToSet(d.pending) : SameSession(p, q)
             queue == IF waits THEN [n \in DOMAIN d.pending |-> IF SameSession(d.pending[n], q) THEN q ELSE d.pending[n]]
                      ELSE Append(d.pending, q)
             g == [latest |-> known, pending |-> queue, active |-> d.active, posted |-> d.posted]
  <2>1. f = ShowNext(g)
    <3>0. e.pending = d.pending /\ e.active = d.active /\ f = TakenUp(e, q)
      BY <1>3 DEF e
    <3>1. CASE waits
      <4>1. f = ShowNext([e EXCEPT !.pending = [n \in DOMAIN @ |-> IF SameSession(@[n], q) THEN q ELSE @[n]]])
        BY <1>8, <3>0, <3>1 DEF TakenUp
      <4>2. [e EXCEPT !.pending = [n \in DOMAIN @ |-> IF SameSession(@[n], q) THEN q ELSE @[n]]] = g
        BY <1>3, <3>1
      <4> QED BY <4>1, <4>2
    <3>2. CASE ~waits
      <4>1. f = ShowNext([e EXCEPT !.pending = Append(@, q)])
        BY <1>8, <3>0, <3>2 DEF TakenUp
      <4>2. [e EXCEPT !.pending = Append(@, q)] = g
        <5> DEFINE r == Append(e.pending, q)
        <5>1. queue = r
          BY <3>0, <3>2
        <5> HIDE DEF queue, r
        <5>2. [e EXCEPT !.pending = r] = g
          BY <1>3, <5>1
        <5> QED BY <5>2 DEF r
      <4> QED BY <4>1, <4>2
    <3> QED BY <3>1, <3>2
  <2>2. waits <=> \E n \in DOMAIN d.pending : SameSession(d.pending[n], q)
    BY DEF ToSet
  <2>3. N \in Nat /\ DOMAIN d.pending = 1 .. N /\ \A n \in DOMAIN d.pending : d.pending[n] \in Questions
    BY <1>1
  <2>4. /\ queue \in Seq(Questions)
        /\ \A n \in DOMAIN queue :
             queue[n] = q \/ (n \in DOMAIN d.pending /\ queue[n] = d.pending[n] /\ ~SameSession(d.pending[n], q))
        /\ \A n \in DOMAIN d.pending :
             n \in DOMAIN queue /\ (~SameSession(d.pending[n], q) => queue[n] = d.pending[n])
        /\ \E n \in DOMAIN queue : queue[n] = q
        /\ \A m, n \in DOMAIN queue : m # n => ~SameSession(queue[m], queue[n])
    <3>0. \A m, n \in DOMAIN d.pending : m # n => ~SameSession(d.pending[m], d.pending[n])
      BY DEF DockSound
    <3>1. CASE waits
      <4> DEFINE r == [n \in DOMAIN d.pending |-> IF SameSession(d.pending[n], q) THEN q ELSE d.pending[n]]
      <4>1. queue = r
        BY <3>1
      <4>2. r \in Seq(Questions)
        BY <2>3
      <4>3. PICK k \in DOMAIN d.pending : SameSession(d.pending[k], q)
        BY <2>2, <3>1
      <4>4. \A n \in DOMAIN d.pending : SameSession(d.pending[n], q) => n = k
        BY <3>0, <4>3 DEF SameSession
      <4>5. DOMAIN r = DOMAIN d.pending /\ r[k] = q
            /\ \A n \in DOMAIN d.pending : n # k => r[n] = d.pending[n] /\ ~SameSession(d.pending[n], q)
        BY <4>3, <4>4
      <4> HIDE DEF r
      <4>6. \A m, n \in DOMAIN r : m # n => ~SameSession(r[m], r[n])
        BY <3>0, <4>3, <4>5 DEF SameSession
      <4> HIDE DEF queue
      <4> QED BY <4>1, <4>2, <4>3, <4>5, <4>6
    <3>2. CASE ~waits
      <4> DEFINE r == Append(d.pending, q)
      <4>1. queue = r
        BY <3>2
      <4>2. r \in Seq(Questions) /\ DOMAIN r = 1 .. N + 1 /\ r[N + 1] = q
            /\ \A n \in DOMAIN d.pending : r[n] = d.pending[n]
        BY <1>1, <2>3
      <4>3. \A n \in DOMAIN d.pending : ~SameSession(d.pending[n], q)
        BY <2>2, <3>2
      <4>4. \A n \in DOMAIN r : n = N + 1 \/ n \in DOMAIN d.pending
        BY <2>3, <4>2
      <4>5. DOMAIN d.pending \subseteq DOMAIN r /\ N + 1 \in DOMAIN r
        BY <2>3, <4>2
      <4> HIDE DEF r
      <4>6. \A m, n \in DOMAIN r : m # n => ~SameSession(r[m], r[n])
        BY <3>0, <4>2, <4>3, <4>4 DEF SameSession
      <4> HIDE DEF queue
      <4> QED BY <4>1, <4>2, <4>3, <4>4, <4>5, <4>6
    <3> QED BY <3>1, <3>2
  <2> HIDE DEF queue, waits
  <2>5. g.latest = known /\ g.pending = queue /\ g.active = d.active /\ g.posted = d.posted
    OBVIOUS
  <2>6. g \in Docks
    BY <1>1, <1>2, <2>4 DEF Docks
  <2> HIDE DEF g
  <2>7. d.active # None => ~SameSession(d.active, q) /\ d.active \in Held(d)
    BY <1>8, HeldFacts
  <2>8. ASSUME NEW p \in Held(g)
        PROVE  p = q \/ (p \in Held(d) /\ ~SameSession(p, q))
    <3>1. CASE p = g.active
      BY <2>5, <2>7, <3>1 DEF Held
    <3>2. CASE \E n \in DOMAIN g.pending : p = g.pending[n]
      BY <2>4, <2>5, <3>2, HeldFacts
    <3> QED BY <2>6, <3>1, <3>2, HeldFacts
  <2>9. ASSUME NEW p \in Held(d), ~SameSession(p, q)
        PROVE  p \in Held(g)
    <3>1. CASE p = d.active
      BY <2>5, <2>6, <3>1, HeldFacts DEF Held
    <3>2. CASE \E n \in DOMAIN d.pending : p = d.pending[n]
      BY <2>4, <2>5, <2>6, <2>9, <3>2, HeldFacts
    <3> QED BY <3>1, <3>2, HeldFacts
  <2>10. q \in Held(g)
    BY <2>4, <2>5, <2>6, HeldFacts
  <2>11. DockSound(g)
    <3>1. \A p \in Held(g) : NotAhead(p, session[p.target])
      BY <2>8 DEF DockSound
    <3>2. \A p \in Held(g) : SessionCurrent(p.target, p.serial) => g.latest[p.target] = Version(p)
      BY <1>2, <1>6, <2>5, <2>8
    <3>3. g.active # None => \A n \in DOMAIN g.pending : ~SameSession(g.pending[n], g.active)
      <4> SUFFICES ASSUME d.active # None, NEW n \in DOMAIN queue
                   PROVE  ~SameSession(queue[n], d.active)
        BY <2>5
      <4>1. CASE queue[n] = q
        BY <2>7, <4>1 DEF SameSession
      <4>2. CASE n \in DOMAIN d.pending /\ queue[n] = d.pending[n]
        BY <4>2 DEF DockSound
      <4> QED BY <2>4, <4>1, <4>2
    <3> QED BY <1>5, <2>4, <2>5, <3>1, <3>2, <3>3 DEF DockSound
  <2>12. ActiveIsCurrent(g)
    <3> SUFFICES ASSUME d.active # None
                 PROVE  RequestCurrent(g, d.active)
      BY <2>5 DEF ActiveIsCurrent
    <3>1. Answerable(d.active)
      BY RequestCurrentSplit DEF ActiveIsCurrent
    <3>2. known[d.active.target] = Version(d.active)
      BY <1>6, <2>7, <3>1 DEF Answerable
    <3> QED BY <2>5, <3>1, <3>2, RequestCurrentSplit
  <2> QED BY <2>1, <2>5, <2>6, <2>9, <2>10, <2>11, <2>12, Showing DEF known
<1> QED BY <1>7, <1>8

\* What a refresh of the dialog does
LEMMA Refreshing ==
  ASSUME session \in [Targets -> Sessions], NEW d \in Docks, DockSound(d),
         NEW f, f = ShowNext(Discarded(d))
  PROVE  /\ f \in Docks /\ DockSound(f) /\ ActiveIsCurrent(f) /\ NothingWaits(f)
         /\ \A t \in Targets : f.latest[t] \in {d.latest[t], None}
         /\ \A q \in Held(d) : Answerable(q) => q \in Held(f)
<1> DEFINE e == Discarded(d)
<1>1. /\ e \in Docks /\ DockSound(e) /\ ActiveIsCurrent(e)
      /\ \A t \in Targets : e.latest[t] \in {d.latest[t], None}
      /\ \A q \in Held(d) : Answerable(q) => q \in Held(e)
  BY Discarding
<1> HIDE DEF e
<1>2. /\ f \in Docks /\ DockSound(f) /\ ActiveIsCurrent(f) /\ NothingWaits(f)
      /\ f.latest = e.latest
      /\ \A q \in Held(e) : Answerable(q) => q \in Held(f)
  BY <1>1, Showing DEF e
<1> QED BY <1>1, <1>2

LEMMA Closing ==
  ASSUME NEW d \in Docks, DockSound(d), NEW f, f = [d EXCEPT !.active = None, !.posted = TRUE]
  PROVE  f \in Docks /\ DockSound(f) /\ f.active = None /\ f.posted /\ f.latest = d.latest /\ f.pending = d.pending
<1>1. /\ f = [latest |-> d.latest, pending |-> d.pending, active |-> None, posted |-> TRUE]
      /\ f.active = None /\ f.posted /\ f.latest = d.latest /\ f.pending = d.pending
  BY DEF Docks
<1>2. f \in Docks
  BY <1>1 DEF Docks
<1>3. Held(f) \subseteq Held(d)
  BY <1>1 DEF Held
<1>4. DockSound(f)
  BY <1>1, <1>3 DEF DockSound
<1> QED BY <1>1, <1>2, <1>4

-----------------------------------------------------------------------------
(* The invariant *)

\* Dock d knows no question of q's session that is as new as q.
NewTo(d, q) ==
  d.latest[q.target] # None /\ d.latest[q.target].serial = q.serial
  => d.latest[q.target].generation < q.generation

\* Questions on their way to the dock come in the order of their generations, and the
\* dock does not know them yet.
AskedSound ==
  /\ \A i \in 1 .. Len(asked) : NotAhead(asked[i], session[asked[i].target])
  /\ \A i, j \in 1 .. Len(asked) :
       i < j /\ SameSession(asked[i], asked[j]) => asked[i].generation < asked[j].generation
  /\ \A i \in 1 .. Len(asked) : NewTo(dock, asked[i])

\* A dialog that is out of date is about to be looked at, when the dock is visible.
RefreshIsDue ==
  /\ visible /\ dirty => scheduled
  /\ ~ActiveIsCurrent(dock) => changed \/ dirty
  /\ ~dock.posted => NothingWaits(dock)

DialogInv == TypeOK /\ DockSound(dock) /\ AskedSound /\ RefreshIsDue

LEMMA TypeFacts ==
  TypeOK <=> /\ session \in [Targets -> Sessions] /\ asked \in Seq(Questions) /\ dock \in Docks
             /\ visible \in BOOLEAN /\ changed \in BOOLEAN /\ dirty \in BOOLEAN /\ scheduled \in BOOLEAN
  BY DEF TypeOK, Docks

\* What is sound of a dock value stays so while the sessions stay as they are.
LEMMA SameSessions ==
  ASSUME session' = session
  PROVE  /\ DockSound(dock') => DockSound(dock)'
         /\ ActiveIsCurrent(dock') => ActiveIsCurrent(dock)'
         /\ NothingWaits(dock') => NothingWaits(dock)'
<1>1. DockSound(dock') => DockSound(dock)'
  BY DEF DockSound, SessionCurrent, Held, Version, NotAhead, SameSession
<1>2. ActiveIsCurrent(dock') => ActiveIsCurrent(dock)'
  BY DEF ActiveIsCurrent, RequestCurrent, SessionCurrent
<1>3. NothingWaits(dock') => NothingWaits(dock)'
  BY DEF NothingWaits
<1> QED BY <1>1, <1>2, <1>3

\* A step of the dock that leaves it sound, and the questions that still come unknown
LEMMA DockStepSound ==
  ASSUME DialogInv, session' = session, NEW n \in Nat, n <= Len(asked),
         asked' = SubSeq(asked, n + 1, Len(asked)),
         dock' \in Docks, DockSound(dock'),
         \A i \in 1 .. Len(asked) : i > n => NewTo(dock', asked[i])
  PROVE  asked' \in Seq(Questions) /\ DockSound(dock)' /\ AskedSound'
<1>1. asked \in Seq(Questions) /\ Len(asked) \in Nat
  BY TypeFacts DEF DialogInv
<1>2. /\ asked' \in Seq(Questions) /\ Len(asked') = Len(asked) - n
      /\ \A i \in 1 .. Len(asked') : asked'[i] = asked[i + n]
  <2>1. \A i \in (n + 1) .. Len(asked) : asked[i] \in Questions
    BY <1>1
  <2> QED BY <1>1, <2>1
<1>3. \A i \in 1 .. Len(asked') : i + n \in 1 .. Len(asked) /\ i + n > n
  BY <1>1, <1>2
<1>4. DockSound(dock)'
  BY SameSessions
<1>5. \A i \in 1 .. Len(asked') : NotAhead(asked'[i], session[asked'[i].target])
  BY <1>2, <1>3 DEF DialogInv, AskedSound
<1>6. \A i, j \in 1 .. Len(asked') :
        i < j /\ SameSession(asked'[i], asked'[j]) => asked'[i].generation < asked'[j].generation
  <2> TAKE i, j \in 1 .. Len(asked')
  <2> HAVE i < j /\ SameSession(asked'[i], asked'[j])
  <2>1. i + n < j + n
    BY <1>1, <1>2
  <2> QED BY <1>2, <1>3, <2>1 DEF DialogInv, AskedSound
<1>7. \A i \in 1 .. Len(asked') : NewTo(dock', asked'[i])
  BY <1>2, <1>3
<1>8. AskedSound'
  BY <1>5, <1>6, <1>7 DEF AskedSound, NotAhead, SameSession, NewTo
<1> QED BY <1>2, <1>4, <1>8

\* A session moves on without going back.
Onwards(a, b) ==
  /\ \A v \in Questions \cup Versions : NotAhead(v, a) => NotAhead(v, b)
  /\ \A v \in Questions \cup Versions :
       NotAhead(v, a) /\ v.serial = b.serial /\ b.phase \in Transporting
       => v.serial = a.serial /\ a.phase \in Transporting

\* A step of a session leaves sound what the dock has, and what is on its way there.
LEMMA SessionMoves ==
  ASSUME DialogInv, NEW t \in Targets, NEW s \in Sessions, Onwards(session[t], s),
         session' = [session EXCEPT ![t] = s],
         dock' \in Docks, DockSound(dock'), dock'.latest = dock.latest
  PROVE  /\ session' \in [Targets -> Sessions] /\ DockSound(dock)'
         /\ \A i \in 1 .. Len(asked) : NotAhead(asked[i], session'[asked[i].target])
<1>1. session \in [Targets -> Sessions] /\ asked \in Seq(Questions)
  BY TypeFacts DEF DialogInv
<1>2. /\ session' \in [Targets -> Sessions] /\ session'[t] = s
      /\ \A u \in Targets : u # t => session'[u] = session[u]
  BY <1>1
<1>3. \A u \in Targets, v \in Questions \cup Versions : NotAhead(v, session[u]) => NotAhead(v, session'[u])
  BY <1>2 DEF Onwards
<1>4. \A u \in Targets, v \in Questions \cup Versions :
        /\ NotAhead(v, session[u]) 
        /\ session'[u].serial = v.serial /\ session'[u].phase \in Transporting
        => SessionCurrent(u, v.serial)
  BY <1>2 DEF Onwards, SessionCurrent
<1>5. Held(dock') \subseteq Questions /\ \A q \in Held(dock') : q.target \in Targets
  BY HeldFacts DEF Questions
<1>6. \A u \in Targets : dock'.latest[u] \in Versions \cup {None}
  BY DEF Docks
<1>7. \A q \in Held(dock') : NotAhead(q, session'[q.target])
  BY <1>3, <1>5 DEF DockSound
<1>8. \A u \in Targets : dock'.latest[u] # None => NotAhead(dock'.latest[u], session'[u])
  BY <1>3, <1>6 DEF DockSound
<1>9. \A q \in Held(dock') :
        session'[q.target].serial = q.serial /\ session'[q.target].phase \in Transporting
        => dock'.latest[q.target] = Version(q)
  BY <1>4, <1>5 DEF DockSound
<1>10. DockSound(dock)'
  <2>1. /\ \A m, n \in DOMAIN dock'.pending : m # n => ~SameSession(dock'.pending[m], dock'.pending[n])
        /\ dock'.active # None => \A n \in DOMAIN dock'.pending : ~SameSession(dock'.pending[n], dock'.active)
    BY DEF DockSound
  <2> QED BY <1>7, <1>8, <1>9, <2>1 DEF DockSound, Held, NotAhead, SessionCurrent, Version, SameSession
<1>11. \A i \in 1 .. Len(asked) : NotAhead(asked[i], session'[asked[i].target])
  <2> TAKE i \in 1 .. Len(asked)
  <2>1. asked[i] \in Questions
    BY <1>1
  <2>2. asked[i].target \in Targets
    BY <2>1 DEF Questions
  <2> QED BY <1>3, <2>1, <2>2 DEF DialogInv, AskedSound
<1> QED BY <1>2, <1>10, <1>11

-----------------------------------------------------------------------------
(* The dock's steps *)

KeepsQuestions ==
  \A q \in OnItsWay : q \in Awaited' => q \in OnItsWay' \/ (q = dock.active /\ (Accept \/ Cancel))

LEMMA AwaitedFacts ==
  ASSUME session \in [Targets -> Sessions], NEW q \in Awaited
  PROVE  /\ q \in Questions /\ q # None /\ Answerable(q)
         /\ session[q.target].serial = q.serial /\ session[q.target].generation = q.generation
<1>1. PICK t \in Targets : session[t].phase = "sending" /\ session[t].required /\ q = Question(t)
  BY DEF Awaited
<1>2. session[t] \in Sessions /\ q.target = t /\ q.serial = session[t].serial /\ q.generation = session[t].generation
  BY <1>1 DEF Question
<1>3. q \in Questions
  BY <1>1, <1>2 DEF Question, Questions, Sessions
<1> QED BY <1>1, <1>2, <1>3, DialogAssumption DEF Answerable, SessionCurrent, Transporting

\* A step of the dock keeps the questions if its dialog and its queue do.
LEMMA DockKeeps ==
  ASSUME DialogInv, session' = session, dock' \in Docks,
         \A q \in Held(dock) \cup ToSet(asked) : q \in Awaited => q \in Held(dock') \cup ToSet(asked')
  PROVE  KeepsQuestions
<1> SUFFICES ASSUME NEW q \in OnItsWay, q \in Awaited
             PROVE  q \in OnItsWay'
  BY DEF KeepsQuestions, Awaited, Question
<1>1. q # None
  BY AwaitedFacts, TypeFacts DEF DialogInv
<1>2. q \in Held(dock) \cup ToSet(asked)
  BY <1>1 DEF OnItsWay, Held
<1>3. q \in Held(dock') \cup ToSet(asked')
  BY <1>2
<1> QED BY <1>3 DEF OnItsWay, Held, ToSet

LEMMA HandleSound ==
  ASSUME DialogInv, HandleYouTubeBroadcastSelection
  PROVE  DialogInv' /\ KeepsQuestions
<1> DEFINE q == Head(asked)
           d == Discarded(dock)
           f == IF Outdated(d, q) THEN ShowNext(d)
                ELSE TakenUp([d EXCEPT !.latest[q.target] = Version(q)], q)
<1>1. /\ session \in [Targets -> Sessions] /\ asked \in Seq(Questions) /\ dock \in Docks /\ DockSound(dock)
      /\ visible \in BOOLEAN /\ changed \in BOOLEAN /\ dirty \in BOOLEAN /\ scheduled \in BOOLEAN
  BY TypeFacts DEF DialogInv
<1>2. /\ asked # << >> /\ asked' = Tail(asked) /\ dock' = f
      /\ session' = session /\ UNCHANGED <<visible, changed, dirty, scheduled>>
  BY DEF HandleYouTubeBroadcastSelection, Version, gate
<1>3. /\ Len(asked) \in Nat /\ 1 <= Len(asked) /\ q = asked[1] /\ q \in Questions /\ q.target \in Targets
      /\ asked' = SubSeq(asked, 1 + 1, Len(asked))
  <2>1. Len(asked) \in Nat /\ 1 <= Len(asked) /\ q = asked[1] /\ asked' = SubSeq(asked, 1 + 1, Len(asked))
    BY <1>1, <1>2
  <2>2. q \in Questions
    BY <1>1, <2>1
  <2> QED BY <2>1, <2>2 DEF Questions
<1>4. /\ d \in Docks /\ DockSound(d) /\ ActiveIsCurrent(d)
      /\ \A t \in Targets : d.latest[t] \in {dock.latest[t], None}
      /\ \A p \in Held(dock) : Answerable(p) => p \in Held(d)
  BY <1>1, Discarding
<1>5. NotAhead(q, session[q.target])
  BY <1>3 DEF DialogInv, AskedSound
<1> HIDE DEF d, q
<1>6. \A i \in 1 .. Len(asked) : NewTo(d, asked[i])
  <2> TAKE i \in 1 .. Len(asked)
  <2>1. asked[i] \in Questions
    BY <1>1
  <2>2. asked[i].target \in Targets
    BY <2>1 DEF Questions
  <2>3. d.latest[asked[i].target] \in {dock.latest[asked[i].target], None}
    BY <1>4, <2>2
  <2> QED BY <2>3 DEF DialogInv, AskedSound, NewTo
<1>7. \A i \in 1 .. Len(asked) : i > 1 /\ SameSession(q, asked[i]) => q.generation < asked[i].generation
  BY <1>3 DEF DialogInv, AskedSound
\* What is awaited and is not q is in what is left of the signals, or in the dialog's part.
<1>8. \A p \in ToSet(asked) : p = q \/ p \in ToSet(asked')
  <2> SUFFICES ASSUME NEW i \in 1 .. Len(asked)
               PROVE  asked[i] = q \/ asked[i] \in ToSet(asked')
    BY <1>1 DEF ToSet
  <2>1. CASE i = 1
    BY <1>3, <2>1
  <2>2. CASE i # 1
    <3>1. i - 1 \in DOMAIN asked' /\ asked'[i - 1] = asked[i]
      BY <1>1, <1>2, <1>3, <2>2
    <3> QED BY <3>1 DEF ToSet
  <2> QED BY <2>1, <2>2
<1>9. CASE Outdated(d, q)
  <2>1. dock' = ShowNext(d)
    BY <1>2, <1>9
  <2>2. /\ dock' \in Docks /\ DockSound(dock') /\ ActiveIsCurrent(dock') /\ NothingWaits(dock')
        /\ dock'.latest = d.latest
        /\ \A p \in Held(d) : Answerable(p) => p \in Held(dock')
    BY <1>1, <1>4, <2>1, Showing
  <2>3. q \notin Awaited
    <3> SUFFICES ASSUME q \in Awaited
                 PROVE  FALSE
      OBVIOUS
    <3>1. SessionCurrent(q.target, q.serial)
      BY <1>1, AwaitedFacts DEF Answerable
    <3>2. LET v == d.latest[q.target] IN v # None /\ v.serial = q.serial /\ q.generation <= v.generation
      BY <1>9, <3>1 DEF Outdated
    <3>3. d.latest[q.target] \in Versions
      BY <1>3, <1>4, <3>2 DEF Docks
    <3>4. d.latest[q.target].generation < q.generation
      BY <1>3, <1>6, <3>2 DEF NewTo
    <3> QED BY <1>3, <3>2, <3>3, <3>4 DEF Versions, Questions
  <2>4. asked' \in Seq(Questions) /\ DockSound(dock)' /\ AskedSound'
    <3>1. \A i \in 1 .. Len(asked) : i > 1 => NewTo(dock', asked[i])
      BY <1>6, <2>2 DEF NewTo
    <3> QED BY <1>2, <1>3, <2>2, <3>1, DockStepSound
  <2>5. RefreshIsDue'
    BY <1>2, <2>2, SameSessions DEF RefreshIsDue, DialogInv
  <2>6. KeepsQuestions
    BY <1>1, <1>2, <1>4, <1>8, <2>2, <2>3, AwaitedFacts, DockKeeps
  <2> QED BY <1>1, <1>2, <2>2, <2>4, <2>5, <2>6, TypeFacts DEF DialogInv, TypeOK, Docks
<1>10. CASE ~Outdated(d, q)
  <2>1. dock' = TakenUp([d EXCEPT !.latest[q.target] = Version(q)], q)
    BY <1>2, <1>10
  <2>2. /\ dock' \in Docks /\ DockSound(dock') /\ ActiveIsCurrent(dock') /\ NothingWaits(dock')
        /\ dock'.latest = [d.latest EXCEPT ![q.target] = Version(q)]
        /\ Answerable(q) => q \in Held(dock')
        /\ \A p \in Held(d) : Answerable(p) /\ ~SameSession(p, q) => p \in Held(dock')
    BY <1>1, <1>3, <1>4, <1>5, <1>10, <2>1, Taking, SMTT(30)
  <2>3. \A i \in 1 .. Len(asked) : i > 1 => NewTo(dock', asked[i])
    <3> TAKE i \in 1 .. Len(asked)
    <3> HAVE i > 1
    <3>1. asked[i] \in Questions
      BY <1>1
    <3>2. asked[i].target \in Targets /\ d.latest \in [Targets -> Versions \cup {None}]
      BY <1>4, <3>1 DEF Questions, Docks
    <3>3. CASE asked[i].target = q.target
      BY <1>7, <2>2, <3>2, <3>3 DEF SameSession, Version, NewTo
    <3>4. CASE asked[i].target # q.target
      BY <1>6, <2>2, <3>2, <3>4 DEF NewTo
    <3> QED BY <3>3, <3>4
  <2>4. asked' \in Seq(Questions) /\ DockSound(dock)' /\ AskedSound'
    BY <1>2, <1>3, <2>2, <2>3, DockStepSound
  <2>5. RefreshIsDue'
    BY <1>2, <2>2, SameSessions DEF RefreshIsDue, DialogInv
  <2>6. ASSUME NEW p \in Held(dock), p \in Awaited
        PROVE  p \in Held(dock')
    <3>1. /\ p \in Questions /\ Answerable(p) /\ p \in Held(d)
          /\ session[p.target].serial = p.serial /\ session[p.target].generation = p.generation
      BY <1>1, <1>4, <2>6, AwaitedFacts
    <3>2. CASE ~SameSession(p, q)
      BY <2>2, <3>1, <3>2
    <3>3. CASE SameSession(p, q)
      <4>1. d.latest[q.target] = Version(p) /\ Version(p) \in Versions
        BY <1>4, <3>1, <3>3 DEF DockSound, Answerable, SameSession, Version, Versions, Questions
      <4>2. q.generation <= p.generation
        BY <1>3, <1>5, <3>1, <3>3 DEF NotAhead, SameSession, Questions
      <4>3. Outdated(d, q)
        BY <3>3, <4>1, <4>2, DialogAssumption DEF Outdated, SameSession, Version
      <4> QED BY <1>10, <4>3
    <3> QED BY <3>2, <3>3
  <2>7. KeepsQuestions
    BY <1>1, <1>2, <1>8, <2>2, <2>6, AwaitedFacts, DockKeeps
  <2> QED BY <1>1, <1>2, <2>2, <2>4, <2>5, <2>7, TypeFacts DEF DialogInv, TypeOK, Docks
<1> QED BY <1>9, <1>10

\* A step that refreshes the dialog, or leaves it alone
LEMMA RefreshSound ==
  ASSUME DialogInv, session' = session, asked' = asked,
         {visible', changed', dirty', scheduled'} \subseteq BOOLEAN,
         visible' /\ dirty' => scheduled',
         \/ \E d \in {dock, [dock EXCEPT !.posted = FALSE]} : dock' = ShowNext(Discarded(d))
         \/ dock' = dock /\ (changed \/ dirty => changed' \/ dirty')
  PROVE  DialogInv' /\ KeepsQuestions
<1>1. session \in [Targets -> Sessions] /\ asked \in Seq(Questions) /\ dock \in Docks /\ DockSound(dock)
  BY TypeFacts DEF DialogInv
<1>2. ASSUME \A t \in Targets : dock'.latest[t] \in {dock.latest[t], None}
      PROVE  \A i \in 1 .. Len(asked) : i > 0 => NewTo(dock', asked[i])
  <2> TAKE i \in 1 .. Len(asked)
  <2>1. asked[i] \in Questions
    BY <1>1
  <2>2. asked[i].target \in Targets
    BY <2>1 DEF Questions
  <2>3. dock'.latest[asked[i].target] \in {dock.latest[asked[i].target], None}
    BY <1>2, <2>2
  <2> QED BY <2>3 DEF DialogInv, AskedSound, NewTo
<1>3. asked' = SubSeq(asked, 0 + 1, Len(asked)) /\ Len(asked) \in Nat /\ 0 <= Len(asked)
  BY <1>1
<1>4. CASE dock' = dock /\ (changed \/ dirty => changed' \/ dirty')
  <2>1. DockSound(dock)' /\ AskedSound'
    BY <1>1, <1>4, ZenonT(60) DEF DialogInv, AskedSound, DockSound, SessionCurrent, Held, Version, NotAhead, SameSession, NewTo
  <2>2. RefreshIsDue'
    BY <1>4 DEF DialogInv, RefreshIsDue, ActiveIsCurrent, RequestCurrent, SessionCurrent, NothingWaits
  <2>3. KeepsQuestions
    BY <1>1, <1>4, DockKeeps
  <2> QED BY <1>1, <1>4, <2>1, <2>2, <2>3 DEF DialogInv, TypeOK, Docks
<1>5. CASE \E d \in {dock, [dock EXCEPT !.posted = FALSE]} : dock' = ShowNext(Discarded(d))
  <2>1. PICK d \in {dock, [dock EXCEPT !.posted = FALSE]} : dock' = ShowNext(Discarded(d))
    BY <1>5
  <2>2. d \in Docks /\ d.latest = dock.latest /\ d.pending = dock.pending /\ d.active = dock.active
    BY <1>1 DEF Docks
  <2>3. DockSound(d) /\ Held(d) = Held(dock)
    BY <1>1, <2>2 DEF DockSound, Held
  <2>4. /\ dock' \in Docks /\ DockSound(dock') /\ ActiveIsCurrent(dock') /\ NothingWaits(dock')
        /\ \A t \in Targets : dock'.latest[t] \in {dock.latest[t], None}
        /\ \A q \in Held(dock) : Answerable(q) => q \in Held(dock')
    BY <1>1, <2>1, <2>2, <2>3, Refreshing
  <2>5. DockSound(dock)' /\ AskedSound'
    <3>1. \A i \in 1 .. Len(asked) : i > 0 => NewTo(dock', asked[i])
      BY <1>2, <2>4
    <3> QED BY <1>3, <2>4, <3>1, DockStepSound
  <2>6. RefreshIsDue'
    BY <2>4, SameSessions DEF RefreshIsDue
  <2>7. KeepsQuestions
    BY <1>1, <2>4, AwaitedFacts, DockKeeps
  <2> QED BY <1>1, <2>4, <2>5, <2>6, <2>7 DEF DialogInv, TypeOK, Docks
<1> QED BY <1>4, <1>5

LEMMA DockSteps ==
  ASSUME DialogInv, DockStep
  PROVE  DialogInv' /\ KeepsQuestions
<1>1. visible \in BOOLEAN /\ changed \in BOOLEAN /\ dirty \in BOOLEAN /\ scheduled \in BOOLEAN
  BY TypeFacts DEF DialogInv
<1>2. visible /\ dirty => scheduled
  BY DEF DialogInv, RefreshIsDue
<1>3. CASE HandleYouTubeBroadcastSelection
  BY <1>3, HandleSound
<1>4. CASE RunPosted
  BY <1>1, <1>2, <1>4, RefreshSound DEF RunPosted, gate
<1>5. CASE DeliverChange
  BY <1>1, <1>2, <1>5, RefreshSound DEF DeliverChange
<1>6. CASE RunScheduled
  BY <1>1, <1>2, <1>6, RefreshSound DEF RunScheduled, Refresh
<1>7. CASE Show
  BY <1>1, <1>2, <1>7, RefreshSound DEF Show, Refresh
<1>8. CASE Hide
  BY <1>1, <1>2, <1>8, RefreshSound DEF Hide
<1> QED BY <1>3, <1>4, <1>5, <1>6, <1>7, <1>8 DEF DockStep

-----------------------------------------------------------------------------
(* The manager's steps, and the user's *)

LEMMA MovesSound ==
  ASSUME DialogInv, NEW t \in Targets, NEW s \in Sessions, Onwards(session[t], s), Moves(t, s),
         asked' = asked, dock' \in Docks, DockSound(dock'), dock'.latest = dock.latest,
         ~dock'.posted => NothingWaits(dock')
  PROVE  DialogInv'
<1>1. asked \in Seq(Questions) /\ visible \in BOOLEAN /\ dirty \in BOOLEAN /\ scheduled \in BOOLEAN
  BY TypeFacts DEF DialogInv
<1>2. /\ session' \in [Targets -> Sessions] /\ DockSound(dock)'
      /\ \A i \in 1 .. Len(asked) : NotAhead(asked[i], session'[asked[i].target])
  BY SessionMoves DEF Moves
<1>3. AskedSound'
  BY <1>2 DEF DialogInv, AskedSound, NotAhead, SameSession, NewTo
<1>4. RefreshIsDue'
  BY DEF Moves, DialogInv, RefreshIsDue, NothingWaits
<1>5. TypeOK'
  BY <1>1, <1>2 DEF Moves, TypeOK, Docks
<1> QED BY <1>2, <1>3, <1>4, <1>5 DEF DialogInv

LEMMA SessionKeeps ==
  ASSUME dock' = dock, ToSet(asked) \subseteq ToSet(asked')
  PROVE  KeepsQuestions
  BY DEF KeepsQuestions, OnItsWay, ToSet

\* No session has a serial beyond the last.
LEMMA LastSerialFacts ==
  ASSUME session \in [Targets -> Sessions], Targets # {}
  PROVE  LastSerial \in Nat /\ \A t \in Targets : session[t].serial <= LastSerial
<1> DEFINE S == {session[t].serial : t \in Targets}
<1>1. S \in SUBSET Nat /\ S # {} /\ MaxSessions \in Nat /\ \A n \in S : n <= MaxSessions
  BY DialogAssumption DEF Sessions
<1> HIDE DEF S
<1>2. Max(S) \in S /\ \A n \in S : n <= Max(S)
  BY <1>1, GreatestNumber
<1> QED BY <1>1, <1>2 DEF LastSerial, S

LEMMA SessionSteps ==
  ASSUME DialogInv, NEW t \in Targets, SessionStep(t)
  PROVE  DialogInv' /\ KeepsQuestions
<1> DEFINE a == session[t]
<1>1. /\ session \in [Targets -> Sessions] /\ asked \in Seq(Questions) /\ dock \in Docks /\ DockSound(dock)
      /\ ~dock.posted => NothingWaits(dock)
  BY TypeFacts DEF DialogInv, RefreshIsDue
<1>2. /\ a \in Sessions /\ a.serial \in 0 .. MaxSessions /\ a.inFlight \in BOOLEAN
      /\ a.generation \in Nat /\ a.generation + 1 \in Nat
  BY <1>1 DEF Sessions
<1> HIDE DEF a
<1>3. \A v \in Questions \cup Versions : v.serial \in Nat /\ v.generation \in Nat
  BY DEF Questions, Versions
\* A session that neither ends nor begins, and whose operations get new generations
<1>4. ASSUME NEW s \in Sessions, Moves(t, s), UNCHANGED <<asked, dock>>,
             s.serial = a.serial, s.phase \in Transporting => a.phase \in Transporting,
             \/ s.generation = a.generation /\ (s.inFlight => a.inFlight)
             \/ s.generation = a.generation + 1
      PROVE  DialogInv' /\ KeepsQuestions
  <2>1. Onwards(a, s)
    BY <1>2, <1>3, <1>4 DEF Onwards, NotAhead, Sessions
  <2> QED BY <1>1, <1>4, <2>1, MovesSound, SessionKeeps DEF a
<1>5. CASE Starts(t)
  <2> DEFINE s == [serial |-> LastSerial + 1, phase |-> "starting", required |-> FALSE,
                   inFlight |-> FALSE, generation |-> 0]
  <2>1. LastSerial \in Nat /\ a.serial <= LastSerial /\ LastSerial < MaxSessions
    BY <1>1, <1>5, LastSerialFacts DEF Starts, a
  <2>2. s \in Sessions
    BY <2>1, DialogAssumption DEF Sessions, Transporting
  <2>3. Onwards(a, s)
    BY <1>2, <1>3, <2>1 DEF Onwards, NotAhead
  <2> QED BY <1>1, <1>5, <2>2, <2>3, MovesSound, SessionKeeps DEF Starts, a
<1>6. CASE Connects(t)
  <2>1. CASE a.generation < MaxGeneration /\ Moves(t, [Begun(a) EXCEPT !.phase = "sending"])
    <3> DEFINE s == [Begun(a) EXCEPT !.phase = "sending"]
    <3>1. s.serial = a.serial /\ s.phase = "sending" /\ s.generation = a.generation + 1
      BY <1>2 DEF Sessions, Begun
    <3>2. s \in Sessions
      BY <1>2 DEF Sessions, Transporting, Begun
    <3> HIDE DEF s
    <3> QED BY <1>4, <1>6, <2>1, <3>1, <3>2 DEF Connects, Transporting, a, s
  <2>2. CASE Moves(t, [a EXCEPT !.phase = "sending", !.required = FALSE])
    <3> DEFINE s == [a EXCEPT !.phase = "sending", !.required = FALSE]
    <3>1. s.serial = a.serial /\ s.phase = "sending" /\ (s.inFlight => a.inFlight) /\ s.generation = a.generation
      BY <1>2 DEF Sessions
    <3>2. s \in Sessions
      BY <1>2 DEF Sessions, Transporting, Begun
    <3> HIDE DEF s
    <3> QED BY <1>4, <1>6, <2>2, <3>1, <3>2 DEF Connects, Transporting, a, s
  <2> QED BY <1>6, <2>1, <2>2 DEF Connects, a
<1>7. CASE Reconnects(t)
  <2> DEFINE s == [a EXCEPT !.phase = "reconnecting", !.inFlight = FALSE, !.generation = @ + 1]
  <2>1. s.serial = a.serial /\ s.phase = "reconnecting" /\ ~s.inFlight /\ s.generation = a.generation + 1
    BY <1>2 DEF Sessions
  <2>2. s \in Sessions
    BY <1>2 DEF Sessions, Transporting, Begun
  <2> HIDE DEF s
  <2> QED BY <1>4, <1>7, <2>1, <2>2 DEF Reconnects, Transporting, a, s
<1>8. CASE PollBegins(t)
  <2> DEFINE s == Begun(a)
  <2>1. s.serial = a.serial /\ s.phase = a.phase /\ s.generation = a.generation + 1
    BY <1>2 DEF Sessions, Begun
  <2>2. s \in Sessions
    BY <1>2 DEF Sessions, Transporting, Begun
  <2> HIDE DEF s
  <2> QED BY <1>4, <1>8, <2>1, <2>2 DEF PollBegins, a, s
<1>9. CASE AsksUser(t) /\ asked' = asked
  <2> DEFINE s == [a EXCEPT !.inFlight = FALSE, !.required = TRUE]
  <2>1. s.serial = a.serial /\ s.phase = a.phase /\ ~s.inFlight /\ s.generation = a.generation
    BY <1>2 DEF Sessions
  <2>2. s \in Sessions
    BY <1>2 DEF Sessions, Transporting, Begun
  <2> HIDE DEF s
  <2> QED BY <1>4, <1>9, <2>1, <2>2 DEF AsksUser, a, s
<1>10. CASE AsksUser(t) /\ asked' = Append(asked, Question(t))
  <2> DEFINE s == [a EXCEPT !.inFlight = FALSE, !.required = TRUE]
             q == Question(t)
             N == Len(asked)
  <2>1. s.serial = a.serial /\ s.phase = a.phase /\ ~s.inFlight /\ s.generation = a.generation
    BY <1>2 DEF Sessions
  <2>2. s \in Sessions
    BY <1>2 DEF Sessions, Transporting, Begun
  <2>3. Moves(t, s) /\ a.inFlight /\ asked' = Append(asked, q) /\ dock' = dock
    BY <1>10 DEF AsksUser, a
  <2>4. q \in Questions /\ q.target = t /\ q.serial = a.serial /\ q.generation = a.generation
    BY <1>2 DEF Question, Questions, a
  <2> HIDE DEF s, q
  <2>5. Onwards(a, s)
    BY <1>2, <1>3, <2>1, <2>3 DEF Onwards, NotAhead
  <2>6. /\ session' \in [Targets -> Sessions] /\ DockSound(dock)'
        /\ \A i \in 1 .. N : NotAhead(asked[i], session'[asked[i].target])
    BY <1>1, <2>2, <2>3, <2>5, SessionMoves DEF Moves, a
  <2>7. session'[t] = s
    BY <1>1, <2>3 DEF Moves
  <2>8. /\ asked' \in Seq(Questions) /\ N \in Nat /\ Len(asked') = N + 1 /\ asked'[N + 1] = q
        /\ \A i \in 1 .. N : asked'[i] = asked[i]
    BY <1>1, <2>3, <2>4
  <2>9. \A i \in 1 .. Len(asked') : i = N + 1 \/ i \in 1 .. N
    BY <2>8
  \* Until now an operation was in flight, so that every question is older than it.
  <2>10. \A v \in Questions \cup Versions :
           NotAhead(v, a) /\ v.serial = q.serial => v.generation < q.generation
    BY <1>2, <1>3, <2>3, <2>4 DEF NotAhead
  <2>11. \A i \in 1 .. N : SameSession(asked[i], q) => asked[i].generation < q.generation
    <3> TAKE i \in 1 .. N
    <3> HAVE SameSession(asked[i], q)
    <3>1. asked[i] \in Questions
      BY <1>1
    <3>2. NotAhead(asked[i], a)
      BY <2>4 DEF DialogInv, AskedSound, SameSession, a
    <3> QED BY <2>10, <3>1, <3>2 DEF SameSession
  <2>12. NewTo(dock, q)
    <3> SUFFICES ASSUME dock.latest[t] # None, dock.latest[t].serial = q.serial
                 PROVE  dock.latest[t].generation < q.generation
      BY <2>4 DEF NewTo
    <3>1. dock.latest[t] \in Versions /\ NotAhead(dock.latest[t], a)
      BY <1>1 DEF Docks, DockSound, a
    <3> QED BY <2>10, <3>1
  <2>13. \A i \in 1 .. Len(asked') : NotAhead(asked'[i], session'[asked'[i].target])
    <3>1. NotAhead(q, s)
      BY <1>2, <2>1, <2>4 DEF NotAhead
    <3> QED BY <2>4, <2>6, <2>7, <2>8, <2>9, <3>1
  <2>14. \A i, j \in 1 .. Len(asked') :
           i < j /\ SameSession(asked'[i], asked'[j]) => asked'[i].generation < asked'[j].generation
    <3> TAKE i, j \in 1 .. Len(asked')
    <3> HAVE i < j /\ SameSession(asked'[i], asked'[j])
    <3>1. i \in 1 .. N
      BY <2>8
    <3>2. CASE j = N + 1
      BY <2>8, <2>11, <3>1, <3>2
    <3>3. CASE j \in 1 .. N
      BY <2>8, <3>1, <3>3 DEF DialogInv, AskedSound
    <3> QED BY <2>9, <3>2, <3>3
  <2>15. \A i \in 1 .. Len(asked') : NewTo(dock, asked'[i])
    BY <2>8, <2>9, <2>12 DEF DialogInv, AskedSound
  <2>16. AskedSound'
    BY <2>3, <2>13, <2>14, <2>15 DEF AskedSound, NotAhead, SameSession, NewTo
  <2>17. RefreshIsDue'
    BY <2>3 DEF Moves, DialogInv, RefreshIsDue, NothingWaits
  <2>18. TypeOK'
    BY <1>1, <2>3, <2>6, <2>8, TypeFacts DEF Moves, DialogInv, TypeOK, Docks
  <2>19. ToSet(asked) \subseteq ToSet(asked')
    BY <1>1, <2>8 DEF ToSet
  <2> QED BY <2>3, <2>6, <2>16, <2>17, <2>18, <2>19, SessionKeeps DEF DialogInv
<1>11. CASE EndsOtherwise(t)
  <2> DEFINE s == [a EXCEPT !.inFlight = FALSE]
  <2>1. s.serial = a.serial /\ s.phase = a.phase /\ ~s.inFlight /\ s.generation = a.generation
    BY <1>2 DEF Sessions
  <2>2. s \in Sessions
    BY <1>2 DEF Sessions, Transporting, Begun
  <2> HIDE DEF s
  <2> QED BY <1>4, <1>11, <2>1, <2>2 DEF EndsOtherwise, a, s
<1>12. CASE Stops(t)
  <2> DEFINE s == [a EXCEPT !.phase = "closing"]
  <2>1. s.serial = a.serial /\ s.phase = "closing" /\ (s.inFlight => a.inFlight) /\ s.generation = a.generation
    BY <1>2 DEF Sessions
  <2>2. s \in Sessions
    BY <1>2 DEF Sessions, Transporting, Begun
  <2> HIDE DEF s
  <2> QED BY <1>4, <1>12, <2>1, <2>2 DEF Stops, Transporting, a, s
<1>13. CASE Released(t)
  <2> DEFINE s == [a EXCEPT !.phase = "idle", !.required = FALSE, !.inFlight = FALSE]
  <2>1. s.serial = a.serial /\ s.phase = "idle" /\ ~s.inFlight /\ s.generation = a.generation
    BY <1>2 DEF Sessions
  <2>2. s \in Sessions
    BY <1>2 DEF Sessions, Transporting, Begun
  <2> HIDE DEF s
  <2> QED BY <1>4, <1>13, <2>1, <2>2 DEF Released, Transporting, a, s
<1> QED BY <1>5, <1>6, <1>7, <1>8, <1>9, <1>10, <1>11, <1>12, <1>13
       DEF SessionStep, AsksUser

LEMMA UserSteps ==
  ASSUME DialogInv, Accept \/ Cancel
  PROVE  DialogInv' /\ KeepsQuestions
<1> DEFINE q == dock.active
           a == session[q.target]
<1>1. /\ session \in [Targets -> Sessions] /\ asked \in Seq(Questions) /\ dock \in Docks /\ DockSound(dock)
      /\ visible \in BOOLEAN /\ changed \in BOOLEAN /\ dirty \in BOOLEAN /\ scheduled \in BOOLEAN
  BY TypeFacts DEF DialogInv
<1>2. q # None /\ dock' = Closed /\ asked' = asked
  BY DEF Accept, Cancel
<1>3. /\ dock' \in Docks /\ DockSound(dock') /\ dock'.active = None /\ dock'.posted
      /\ dock'.latest = dock.latest /\ dock'.pending = dock.pending
  BY <1>1, <1>2, Closing DEF Closed
<1>4. KeepsQuestions
  BY <1>2, <1>3 DEF KeepsQuestions, OnItsWay
<1>5. CASE UNCHANGED <<session, gate>>
  <2>1. DockSound(dock)' /\ AskedSound'
    BY <1>2, <1>3, <1>5, SameSessions DEF DialogInv, AskedSound, NotAhead, SameSession, NewTo
  <2>2. RefreshIsDue'
    BY <1>3, <1>5 DEF DialogInv, RefreshIsDue, ActiveIsCurrent, gate
  <2> QED BY <1>1, <1>2, <1>3, <1>4, <1>5, <2>1, <2>2 DEF DialogInv, TypeOK, Docks, gate
<1>6. CASE ~UNCHANGED <<session, gate>>
  <2>0. q \in Questions /\ q.target \in Targets
    BY <1>1, <1>2 DEF Docks, Questions
  <2>1. /\ a \in Sessions /\ a.serial \in 0 .. MaxSessions /\ a.generation \in Nat
        /\ a.generation + 1 \in Nat /\ (a.generation + 1) + 1 = a.generation + 2 /\ (a.generation + 1) + 1 \in Nat
    BY <1>1, <2>0 DEF Sessions
  <2>2. \/ Moves(q.target, Begun([a EXCEPT !.generation = @ + 1]))
        \/ Moves(q.target, [a EXCEPT !.generation = @ + 1, !.required = FALSE])
    BY <1>6 DEF Accept, Cancel
  <2> HIDE DEF a, q
  <2>3. \A v \in Questions \cup Versions : v.serial \in Nat /\ v.generation \in Nat
    BY DEF Questions, Versions
  <2>4. ASSUME NEW s \in Sessions, Moves(q.target, s), s.serial = a.serial, s.phase = a.phase,
               s.generation \in {a.generation + 1, a.generation + 2}
        PROVE  DialogInv'
    <3>1. Onwards(a, s)
      BY <2>1, <2>3, <2>4 DEF Onwards, NotAhead
    <3> QED BY <1>2, <1>3, <2>0, <2>4, <3>1, MovesSound DEF a
  <2>5. CASE Moves(q.target, Begun([a EXCEPT !.generation = @ + 1]))
    <3> DEFINE s == Begun([a EXCEPT !.generation = @ + 1])
    <3>1. s.serial = a.serial /\ s.phase = a.phase /\ s.generation = a.generation + 2
      BY <2>1 DEF Sessions, Begun
    <3>2. s \in Sessions
      BY <2>1 DEF Sessions, Transporting, Begun
    <3> HIDE DEF s
    <3> QED BY <1>4, <2>4, <2>5, <3>1, <3>2 DEF s
  <2>6. CASE Moves(q.target, [a EXCEPT !.generation = @ + 1, !.required = FALSE])
    <3> DEFINE s == [a EXCEPT !.generation = @ + 1, !.required = FALSE]
    <3>1. s.serial = a.serial /\ s.phase = a.phase /\ (s.inFlight => a.inFlight) /\ s.generation = a.generation + 1
      BY <2>1 DEF Sessions
    <3>2. s \in Sessions
      BY <2>1 DEF Sessions, Transporting, Begun
    <3> HIDE DEF s
    <3> QED BY <1>4, <2>4, <2>6, <3>1, <3>2 DEF s
  <2> QED BY <2>2, <2>5, <2>6
<1> QED BY <1>5, <1>6

-----------------------------------------------------------------------------
(* Theorems *)

LEMMA InitSound == Init => DialogInv
<1> SUFFICES ASSUME Init
             PROVE  DialogInv
  OBVIOUS
<1>1. /\ dock.active = None /\ dock.pending = << >> /\ asked = << >> /\ ~visible
      /\ \A t \in Targets : dock.latest[t] = None
  BY DEF Init
<1>2. TypeOK
  <2>1. [serial |-> 0, phase |-> "idle", required |-> FALSE, inFlight |-> FALSE, generation |-> 0] \in Sessions
    BY DialogAssumption DEF Sessions
  <2>2. session \in [Targets -> Sessions]
    BY <2>1 DEF Init
  <2>3. dock \in Docks
    <3>1. << >> \in Seq(Questions)
      OBVIOUS
    <3> QED BY <3>1 DEF Init, Docks
  <2>4. asked \in Seq(Questions)
    BY DEF Init
  <2>5. visible \in BOOLEAN /\ changed \in BOOLEAN /\ dirty \in BOOLEAN /\ scheduled \in BOOLEAN
    BY DEF Init
  <2> QED BY <2>2, <2>3, <2>4, <2>5, TypeFacts
<1>3. DockSound(dock)
  BY <1>1 DEF DockSound, Held, ToSet
<1>4. AskedSound /\ RefreshIsDue
  BY <1>1 DEF AskedSound, RefreshIsDue, ActiveIsCurrent, NothingWaits
<1> QED BY <1>2, <1>3, <1>4 DEF DialogInv

LEMMA NextSound ==
  ASSUME DialogInv, [Next]_vars
  PROVE  DialogInv' /\ [KeepsQuestions]_vars
<1>1. CASE DockStep
  BY <1>1, DockSteps
<1>2. CASE Cancel \/ Accept
  BY <1>2, UserSteps
<1>3. CASE \E t \in Targets : SessionStep(t)
  BY <1>3, SessionSteps
<1>4. CASE UNCHANGED vars
  <2>1. TypeOK'
    BY <1>4 DEF DialogInv, TypeOK, vars, gate
  <2>2. DockSound(dock)' /\ AskedSound' /\ RefreshIsDue'
    BY <1>4, SMTT(30) DEF DialogInv, DockSound, AskedSound, RefreshIsDue, ActiveIsCurrent, RequestCurrent, SessionCurrent,
                NothingWaits, Held, Version, NotAhead, SameSession, NewTo, vars, gate
  <2> QED BY <1>4, <2>1, <2>2 DEF DialogInv
<1> QED BY <1>1, <1>2, <1>3, <1>4 DEF Next

\* Theorem: DialogInv is an invariant: questions, dialog and sessions fit together as above.
THEOREM DialogInvariance == Spec => []DialogInv
<1> QED BY InitSound, NextSound, PTL DEF Spec

\* Theorem: sessions, questions and the dock keep their types.
THEOREM TypeCorrect == Spec => []TypeOK
<1>1. DialogInv => TypeOK
  BY DEF DialogInv
<1> QED BY <1>1, DialogInvariance, PTL

\* Theorem: a visible dock with nothing on its way asks for what is still awaited, and lets
\* questions wait only for that dialog (discardStale..., showNextYouTubeBroadcastSelection).
THEOREM VisibleDialogIsCurrent == Spec => []DialogIsCurrent
<1>1. DialogInv => DialogIsCurrent
  BY DEF DialogInv, RefreshIsDue, DialogIsCurrent, ActiveIsCurrent, NothingWaits, TypeOK
<1> QED BY <1>1, DialogInvariance, PTL

\* Theorem: a question that is awaited and on its way stays on its way until it is answered or
\* dismissed (handleYouTubeBroadcastSelection, discardStale..., showNext...).
THEOREM NoQuestionIsLost == Spec => QuestionsAreNotLost
<1>1. DialogInv /\ [Next]_vars => [KeepsQuestions]_vars
  BY NextSound
<1> QED BY <1>1, DialogInvariance, PTL DEF Spec, QuestionsAreNotLost, KeepsQuestions

\* Theorem: while its output sends, a target that has asked goes on only by the answer
\* to the very question it asked last (isYouTubeBroadcastRequestCurrent,
\* applyYouTubeBroadcastSelection).
THEOREM OnlyTheLastAnswerCounts == Spec => OnlyItsAnswer
<1> DEFINE Answered == \A t \in Targets :
             /\ session[t].phase = "sending" /\ session[t].required
             /\ session'[t].phase = "sending" /\ ~session'[t].required
             => dock.active = Question(t)
<1>1. ASSUME DialogInv, Next
      PROVE  Answered
  <2> SUFFICES ASSUME NEW t \in Targets, session[t].phase = "sending", session[t].required,
                      session'[t].phase = "sending", ~session'[t].required
               PROVE  dock.active = Question(t)
    OBVIOUS
  <2>1. session \in [Targets -> Sessions] /\ dock \in Docks
    BY <1>1, TypeFacts DEF DialogInv
  <2>2. ~DockStep /\ ~Cancel
    BY DEF DockStep, HandleYouTubeBroadcastSelection, RunPosted, DeliverChange, RunScheduled, Show, Hide, Cancel
  <2>3. ASSUME NEW u \in Targets, SessionStep(u)
        PROVE  FALSE
    <3>1. CASE u # t
      <4>1. session'[t] = session[t]
        BY <2>1, <2>3, <3>1 DEF SessionStep, Starts, Connects, Reconnects, PollBegins, AsksUser, EndsOtherwise,
                                Stops, Released, Moves
      <4> QED BY <4>1
    <3>2. CASE u = t
      <4>1. session[t] \in Sessions /\ session[t].phase = "sending" /\ session[t].required = TRUE
        BY <2>1 DEF Sessions
      <4>2. ~Starts(t) /\ ~Connects(t) /\ ~PollBegins(t) /\ ~Released(t)
        BY DEF Starts, Connects, PollBegins, Released
      <4>3. ~Reconnects(t) /\ ~Stops(t)
        BY <2>1, <4>1 DEF Reconnects, Stops, Moves, Sessions
      <4>4. ~AsksUser(t) /\ ~EndsOtherwise(t)
        BY <2>1, <4>1 DEF AsksUser, EndsOtherwise, Moves, Sessions
      <4> QED BY <2>3, <3>2, <4>2, <4>3, <4>4 DEF SessionStep
    <3> QED BY <3>1, <3>2
  <2>4. Accept
    BY <1>1, <2>2, <2>3 DEF Next
  <2> DEFINE q == dock.active
  <2>5. q \in Questions /\ q.target \in Targets
    BY <2>1, <2>4 DEF Accept, Docks, Questions
  <2>6. RequestCurrent(dock, q) /\ AnswersQuestion(q) /\ q.target = t
    BY <2>1, <2>4, <2>5 DEF Accept, Moves
  <2>7. q.serial = session[t].serial /\ q.generation = session[t].generation
    BY <2>6 DEF AnswersQuestion
  <2>8. q = [target |-> q.target, serial |-> q.serial, generation |-> q.generation]
    BY <2>5 DEF Questions
  <2> QED BY <2>6, <2>7, <2>8 DEF Question
<1>2. DialogInv /\ [Next]_vars => [Answered]_vars
  BY <1>1
<1> QED BY <1>2, DialogInvariance, PTL DEF Spec, OnlyItsAnswer
=============================================================================
