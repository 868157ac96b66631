------------------------ MODULE SettingsStoreProofs ------------------------
(***************************************************************************)
(* Proofs about SettingsStore: what is written, put back and deleted, for  *)
(* every set of targets, secrets and files, and a crash at any moment.     *)
(***************************************************************************)
EXTENDS SettingsStore, SequenceTheorems, TLAPS

-----------------------------------------------------------------------------
(* Lists of targets: the operators change credentials and keep positions. *)

\* A list of targets is a function on 1 .. n, for some n within the bound.
LEMMA SettingsAreFunctions ==
  ASSUME NEW S
  PROVE  S \in Settings <=> \E n \in Nat : n <= MaxTargets /\ S \in [1 .. n -> Target]
<1>1. ASSUME S \in Settings
      PROVE  \E n \in Nat : n <= MaxTargets /\ S \in [1 .. n -> Target]
  <2>1. S \in Seq(Target) /\ Len(S) <= MaxTargets
    BY <1>1 DEF Settings
  <2>2. Len(S) \in Nat /\ S \in [1 .. Len(S) -> Target]
    BY <2>1, LenProperties
  <2> QED BY <2>1, <2>2
<1>2. ASSUME NEW n \in Nat, n <= MaxTargets, S \in [1 .. n -> Target]
      PROVE  S \in Settings
  <2>1. S \in Seq(Target)
    BY <1>2, SeqDef
  <2>2. Len(S) = n
    BY <1>2, <2>1, LenProperties
  <2> QED BY <1>2, <2>1, <2>2 DEF Settings
<1> QED BY <1>1, <1>2

\* A list made of another, position by position, is a list of targets.
LEMMA MapInSettings ==
  ASSUME NEW S \in Settings, NEW F, F \in [DOMAIN S -> Target]
  PROVE  F \in Settings /\ DOMAIN F = DOMAIN S
<1>1. PICK n \in Nat : n <= MaxTargets /\ S \in [1 .. n -> Target]
  BY SettingsAreFunctions
<1> QED BY <1>1, SettingsAreFunctions

\* A target of a list, and the credentials of it.
LEMMA SettingsFacts ==
  ASSUME NEW S \in Settings
  PROVE  /\ \A i \in DOMAIN S : i \in Nat /\ S[i] \in Target /\ S[i].id \in Ids /\ S[i].managed \in BOOLEAN
         /\ \A i \in DOMAIN S, k \in Kinds :
              /\ S[i].cred[k] \in Credential
              /\ S[i].cred[k].ref \in Refs \cup {None} /\ S[i].cred[k].secret \in Secrets \cup {None}
<1>1. PICK n \in Nat : n <= MaxTargets /\ S \in [1 .. n -> Target]
  BY SettingsAreFunctions
<1>2. \A i \in DOMAIN S : i \in Nat /\ S[i] \in Target
  BY <1>1
<1>3. \A i \in DOMAIN S : S[i].id \in Ids /\ S[i].managed \in BOOLEAN /\ S[i].cred \in [Kinds -> Credential]
  BY <1>2 DEF Target
<1> QED BY <1>2, <1>3 DEF Credential

\* The references in a list, by position and kind.
LEMMA RefsInFacts ==
  ASSUME NEW S, NEW r
  PROVE  r \in RefsIn(S) <=> r # None /\ \E i \in DOMAIN S, k \in Kinds : S[i].cred[k].ref = r
<1>1. ASSUME r \in RefsIn(S)
      PROVE  r # None /\ \E i \in DOMAIN S, k \in Kinds : S[i].cred[k].ref = r
  <2>1. PICK p \in Positions(S) : r = At(S, p).ref
    BY <1>1 DEF RefsIn
  <2>2. PICK i \in DOMAIN S, k \in Kinds : p = <<i, k>>
    BY <2>1 DEF Positions
  <2> QED BY <1>1, <2>1, <2>2 DEF RefsIn, At
<1>2. ASSUME r # None, NEW i \in DOMAIN S, NEW k \in Kinds, S[i].cred[k].ref = r
      PROVE  r \in RefsIn(S)
  <2>1. <<i, k>> \in Positions(S) /\ At(S, <<i, k>>) = S[i].cred[k]
    BY DEF Positions, At
  <2> QED BY <1>2, <2>1 DEF RefsIn
<1> QED BY <1>1, <1>2

LEMMA WithSecretFacts ==
  ASSUME NEW S, NEW p
  PROVE  p \in WithSecret(S) <=>
           \E i \in DOMAIN S, k \in Kinds : p = <<i, k>> /\ S[i].cred[k].secret # None
BY DEF WithSecret, Positions, At

\* ensureCredentialRefs gives its own reference to each secret without one.
LEMMA EnsureRefsFacts ==
  ASSUME NEW S \in Settings
  PROVE  /\ EnsureRefs(S) \in Settings /\ DOMAIN EnsureRefs(S) = DOMAIN S
         /\ \A i \in DOMAIN S :
              /\ EnsureRefs(S)[i].id = S[i].id /\ EnsureRefs(S)[i].managed = S[i].managed
              /\ \A k \in Kinds : EnsureRefs(S)[i].cred[k] = Ensured(S[i].cred[k], Own(k, S[i].id))
<1>1. \A i \in DOMAIN S : S[i] \in Target
  BY SettingsFacts
<1>2. ASSUME NEW i \in DOMAIN S
      PROVE  /\ EnsureRefs(S)[i] \in Target
             /\ EnsureRefs(S)[i].id = S[i].id /\ EnsureRefs(S)[i].managed = S[i].managed
             /\ \A k \in Kinds : EnsureRefs(S)[i].cred[k] = Ensured(S[i].cred[k], Own(k, S[i].id))
  <2>1. \A k \in Kinds : Own(k, S[i].id) \in Refs
    BY <1>1 DEF Own, Refs, Owned, Target
  <2>2. \A k \in Kinds : Ensured(S[i].cred[k], Own(k, S[i].id)) \in Credential
    BY <1>1, <2>1 DEF Ensured, Credential, Target
  <2> QED BY <1>1, <2>2 DEF EnsureRefs, Target
<1>3. EnsureRefs(S) \in [DOMAIN S -> Target]
  BY <1>2 DEF EnsureRefs
<1> QED BY <1>2, <1>3, MapInSettings

\* To forget a secret leaves the reference.
LEMMA ForgetFacts ==
  ASSUME NEW S \in Settings, NEW P
  PROVE  /\ Forget(S, P) \in Settings /\ DOMAIN Forget(S, P) = DOMAIN S
         /\ \A i \in DOMAIN S :
              /\ Forget(S, P)[i].id = S[i].id /\ Forget(S, P)[i].managed = S[i].managed
              /\ \A k \in Kinds : Forget(S, P)[i].cred[k] =
                   IF <<i, k>> \in P THEN [S[i].cred[k] EXCEPT !.secret = None] ELSE S[i].cred[k]
<1>1. \A i \in DOMAIN S : S[i] \in Target
  BY SettingsFacts
<1>2. ASSUME NEW i \in DOMAIN S
      PROVE  /\ Forget(S, P)[i] \in Target
             /\ Forget(S, P)[i].id = S[i].id /\ Forget(S, P)[i].managed = S[i].managed
             /\ \A k \in Kinds : Forget(S, P)[i].cred[k] =
                  IF <<i, k>> \in P THEN [S[i].cred[k] EXCEPT !.secret = None] ELSE S[i].cred[k]
  <2>1. \A k \in Kinds : [S[i].cred[k] EXCEPT !.secret = None] \in Credential
    BY <1>1 DEF Credential, Target
  <2> QED BY <1>1, <2>1 DEF Forget, Target
<1>3. Forget(S, P) \in [DOMAIN S -> Target]
  BY <1>2 DEF Forget
<1> QED BY <1>2, <1>3, MapInSettings

\* Lists that have the same references at the same places.
LEMMA SameRefs ==
  ASSUME NEW S, NEW T, DOMAIN T = DOMAIN S,
         \A i \in DOMAIN S, k \in Kinds : T[i].cred[k].ref = S[i].cred[k].ref
  PROVE  RefsIn(T) = RefsIn(S)
<1>1. ASSUME NEW r
      PROVE  r \in RefsIn(T) <=> r \in RefsIn(S)
  BY RefsInFacts
<1> QED BY <1>1

\* The reference of a credential stays when its secret is forgotten.
LEMMA ForgetKeepsRefs ==
  ASSUME NEW S \in Settings, NEW P
  PROVE  RefsIn(Forget(S, P)) = RefsIn(S)
<1>1. ASSUME NEW i \in DOMAIN S, NEW k \in Kinds
      PROVE  Forget(S, P)[i].cred[k].ref = S[i].cred[k].ref
  <2>1. S[i].cred[k] \in Credential
    BY SettingsFacts
  <2>2. [S[i].cred[k] EXCEPT !.secret = None].ref = S[i].cred[k].ref
    BY <2>1 DEF Credential
  <2>3. Forget(S, P)[i].cred[k] =
          IF <<i, k>> \in P THEN [S[i].cred[k] EXCEPT !.secret = None] ELSE S[i].cred[k]
    BY ForgetFacts
  <2> QED BY <2>2, <2>3
<1>2. DOMAIN Forget(S, P) = DOMAIN S
  BY ForgetFacts
<1> QED BY <1>1, <1>2, SameRefs

LEMMA ContentFacts ==
  ASSUME NEW S \in Settings
  PROVE  Content(S) \in Settings /\ RefsIn(Content(S)) = RefsIn(EnsureRefs(S))
BY EnsureRefsFacts, ForgetFacts, ForgetKeepsRefs DEF Content

-----------------------------------------------------------------------------
(* Lists with a target more, less or changed *)

LEMMA AppendFacts ==
  ASSUME NEW S \in Settings, Len(S) < MaxTargets, NEW t \in Target
  PROVE  /\ Append(S, t) \in Settings
         /\ DOMAIN Append(S, t) = DOMAIN S \cup {Len(S) + 1}
         /\ \A i \in DOMAIN S : Append(S, t)[i] = S[i]
         /\ Append(S, t)[Len(S) + 1] = t
         /\ Len(S) + 1 \notin DOMAIN S
BY StoreAssumption DEF Settings

LEMMA WithoutFacts ==
  ASSUME NEW S \in Settings, NEW i \in DOMAIN S
  PROVE  /\ Without(S, i) \in Settings
         /\ \A j \in DOMAIN Without(S, i) :
              \/ j < i /\ j \in DOMAIN S /\ Without(S, i)[j] = S[j]
              \/ j >= i /\ j + 1 \in DOMAIN S /\ Without(S, i)[j] = S[j + 1]
         /\ \A j \in DOMAIN S : j # i => \E l \in DOMAIN Without(S, i) : Without(S, i)[l] = S[j]
<1>1. PICK n \in Nat : n <= MaxTargets /\ S \in [1 .. n -> Target]
  BY SettingsAreFunctions
<1>2. Len(S) = n
  BY <1>1, LenProperties DEF Settings
<1>3. n \in Nat \ {0} /\ i \in 1 .. n
  BY <1>1
<1>4. Without(S, i) \in [1 .. n - 1 -> Target]
  BY <1>1, <1>2, <1>3 DEF Without
<1>5. n - 1 \in Nat /\ n - 1 <= MaxTargets
  BY <1>1, <1>3, StoreAssumption
<1>6. Without(S, i) \in Settings
  BY <1>4, <1>5, SettingsAreFunctions
<1>7. \A j \in 1 .. n - 1 : Without(S, i)[j] = IF j < i THEN S[j] ELSE S[j + 1]
  BY <1>2 DEF Without
<1>8. \A j \in DOMAIN S : j # i => (IF j < i THEN j ELSE j - 1) \in 1 .. n - 1
  BY <1>1, <1>3
<1>9. DOMAIN Without(S, i) = 1 .. n - 1
  BY <1>4
<1>10. ASSUME NEW j \in DOMAIN S, j # i
       PROVE  \E l \in DOMAIN Without(S, i) : Without(S, i)[l] = S[j]
  <2>1. PICK l \in 1 .. n - 1 : l = IF j < i THEN j ELSE j - 1
    BY <1>8, <1>10
  <2>2. Without(S, i)[l] = S[j]
    BY <1>1, <1>3, <1>7, <1>10, <2>1
  <2> QED BY <1>9, <2>2
<1> QED BY <1>1, <1>3, <1>4, <1>6, <1>7, <1>10

\* A target one or both of whose secrets were read.
LEMMA ExceptCredFacts ==
  ASSUME NEW S \in Settings, NEW i \in DOMAIN S, NEW c \in [Kinds -> Credential]
  PROVE  LET T == [S EXCEPT ![i].cred = c]
         IN  /\ T \in Settings /\ DOMAIN T = DOMAIN S
             /\ \A j \in DOMAIN S : j # i => T[j] = S[j]
             /\ T[i].id = S[i].id /\ T[i].managed = S[i].managed /\ T[i].cred = c
<1> DEFINE T == [S EXCEPT ![i].cred = c]
<1>1. \A j \in DOMAIN S : S[j] \in Target
  BY SettingsFacts
<1>2. \A j \in DOMAIN S : T[j] \in Target
  BY <1>1 DEF Target
<1>3. PICK n \in Nat : n <= MaxTargets /\ S \in [1 .. n -> Target]
  BY SettingsAreFunctions
<1>4. T \in [DOMAIN S -> Target]
  BY <1>2, <1>3
<1>5. T \in Settings /\ DOMAIN T = DOMAIN S
  BY <1>4, MapInSettings
<1>6. T[i].id = S[i].id /\ T[i].managed = S[i].managed /\ T[i].cred = c
  BY <1>1, <1>3 DEF Target
<1>7. \A j \in DOMAIN S : j # i => T[j] = S[j]
  BY <1>3
<1> QED BY <1>5, <1>6, <1>7

-----------------------------------------------------------------------------
(* Loading: what becomes of targets that have an id twice, and of logins   *)
(* that the publisher manages now.                                          *)

LEMMA StagedFacts ==
  ASSUME NEW c \in Credential, NEW k \in Kinds, NEW id \in Ids, NEW b,
         creds \in [Refs -> Secrets \cup {None}]
  PROVE  LET d == Staged(c, Own(k, id), b)
         IN  /\ d \in Credential
             /\ d.secret = None => d = c
             /\ d.ref \in Owned \cup {c.ref}
             /\ c = NoCredential => d = c
<1> USE DEF Credential
<1>1. Own(k, id) \in Owned /\ Own(k, id) \in Refs
  BY DEF Own, Owned, Refs
<1>2. CASE c.secret # None
  <2>1. Staged(c, Own(k, id), b) = [c EXCEPT !.ref = Own(k, id)]
    BY <1>2 DEF Staged
  <2> QED BY <1>1, <1>2, <2>1 DEF NoCredential
<1>3. CASE c.secret = None /\ b /\ c.ref \in Owned /\ creds[c.ref] # None
  <2>1. creds[c.ref] \in Secrets
    BY <1>3 DEF Refs
  <2>2. Staged(c, Own(k, id), b) = [ref |-> Own(k, id), secret |-> creds[c.ref]]
    BY <1>3 DEF Staged
  <2>3. c # NoCredential
    BY <1>3, StoreAssumption DEF NoCredential, Refs
  <2>4. PICK d : d = Staged(c, Own(k, id), b)
    OBVIOUS
  <2>5. d.ref = Own(k, id) /\ d.secret = creds[c.ref] /\ d \in Credential
    BY <1>1, <2>1, <2>2, <2>4
  <2> HIDE DEF Credential
  <2> QED BY <1>1, <1>3, <2>3, <2>4, <2>5
<1>4. CASE c.secret = None /\ ~(b /\ c.ref \in Owned /\ creds[c.ref] # None)
  <2>1. Staged(c, Own(k, id), b) = c
    BY <1>4 DEF Staged
  <2> QED BY <2>1
<1> QED BY <1>2, <1>3, <1>4

\* The ids of a list and those that its duplicates get.
Renames(S, new) ==
  /\ new \in [Duplicates(S) -> Ids \ {S[i].id : i \in DOMAIN S}]
  /\ \A i, j \in Duplicates(S) : new[i] = new[j] => i = j

LEMMA ReassignedFacts ==
  ASSUME NEW S \in Settings, NEW new, NEW R, Renames(S, new),
         creds \in [Refs -> Secrets \cup {None}]
  PROVE  LET T == Reassigned(S, new, R)
         IN  /\ T \in Settings /\ DOMAIN T = DOMAIN S
             /\ \A i \in DOMAIN S \ Duplicates(S) : T[i] = S[i]
             /\ \A i \in Duplicates(S) :
                  /\ T[i].id = new[i] /\ T[i].managed = S[i].managed
                  /\ \A k \in Kinds : T[i].cred[k] = Staged(S[i].cred[k], Own(k, new[i]), <<i, k>> \in R)
<1> DEFINE T == Reassigned(S, new, R)
<1>1. \A i \in DOMAIN S : S[i] \in Target
  BY SettingsFacts
<1>2. Duplicates(S) \subseteq DOMAIN S /\ \A i \in Duplicates(S) : new[i] \in Ids
  BY DEF Duplicates, Renames
<1>3. ASSUME NEW i \in Duplicates(S)
      PROVE  /\ T[i] \in Target
             /\ T[i].id = new[i] /\ T[i].managed = S[i].managed
             /\ \A k \in Kinds : T[i].cred[k] = Staged(S[i].cred[k], Own(k, new[i]), <<i, k>> \in R)
  <2>1. \A k \in Kinds : Staged(S[i].cred[k], Own(k, new[i]), <<i, k>> \in R) \in Credential
    <3> TAKE k \in Kinds
    <3>1. S[i].cred[k] \in Credential
      BY <1>2, SettingsFacts
    <3> QED BY <1>2, <3>1, StagedFacts
  <2> DEFINE cr == [k \in Kinds |-> Staged(S[i].cred[k], Own(k, new[i]), <<i, k>> \in R)]
  <2>2. cr \in [Kinds -> Credential]
    BY <2>1
  <2>3. T[i] = [S[i] EXCEPT !.id = new[i], !.cred = cr]
    BY <1>2 DEF Reassigned
  <2>4. \A k \in Kinds : cr[k] = Staged(S[i].cred[k], Own(k, new[i]), <<i, k>> \in R)
    OBVIOUS
  <2> HIDE DEF T, cr
  <2>5. S[i] \in Target /\ new[i] \in Ids
    BY <1>1, <1>2
  <2> QED BY <2>2, <2>3, <2>4, <2>5 DEF Target
<1>4. \A i \in DOMAIN S \ Duplicates(S) : T[i] = S[i]
  BY DEF Reassigned
<1>5. T \in [DOMAIN S -> Target]
  BY <1>1, <1>3, <1>4 DEF Reassigned
<1>6. T \in Settings /\ DOMAIN T = DOMAIN S
  BY <1>5, MapInSettings
<1> QED BY <1>3, <1>4, <1>6

LEMMA WithoutManagedFacts ==
  ASSUME NEW S \in Settings
  PROVE  LET T == WithoutManaged(S)
         IN  /\ T \in Settings /\ DOMAIN T = DOMAIN S
             /\ \A i \in DOMAIN S :
                  /\ T[i].id = S[i].id /\ T[i].managed = S[i].managed
                  /\ \A k \in Kinds :
                       T[i].cred[k] = IF S[i].managed /\ k = "oauth" THEN NoCredential ELSE S[i].cred[k]
<1> DEFINE T == WithoutManaged(S)
<1>1. \A i \in DOMAIN S : S[i] \in Target
  BY SettingsFacts
<1>2. NoCredential \in Credential
  BY DEF NoCredential, Credential
<1>3. ASSUME NEW i \in DOMAIN S
      PROVE  /\ T[i] \in Target /\ T[i].id = S[i].id /\ T[i].managed = S[i].managed
             /\ \A k \in Kinds :
                  T[i].cred[k] = IF S[i].managed /\ k = "oauth" THEN NoCredential ELSE S[i].cred[k]
  <2>1. T[i] = IF S[i].managed THEN [S[i] EXCEPT !.cred["oauth"] = NoCredential] ELSE S[i]
    BY DEF WithoutManaged
  <2>2. S[i] \in Target
    BY <1>1
  <2> HIDE DEF T
  <2> QED BY <1>2, <2>1, <2>2 DEF Target, Kinds
<1>4. T \in [DOMAIN S -> Target]
  BY <1>3 DEF WithoutManaged
<1> QED BY <1>3, <1>4, MapInSettings

LEMMA UnmigratedFacts ==
  ASSUME NEW S \in Settings, NEW R \in Settings, DOMAIN R = DOMAIN S
  PROVE  LET T == Unmigrated(S, R)
         IN  /\ T \in Settings /\ DOMAIN T = DOMAIN S
             /\ \A i \in DOMAIN S :
                  /\ T[i].id = R[i].id /\ T[i].managed = R[i].managed
                  /\ \A k \in Kinds :
                       T[i].cred[k] = IF k = "oauth" /\ i \in PublisherManaged(R) THEN R[i].cred[k] ELSE S[i].cred[k]
<1> DEFINE T == Unmigrated(S, R)
<1>1. \A i \in DOMAIN S : S[i] \in Target /\ R[i] \in Target
  BY SettingsFacts
<1>2. ASSUME NEW i \in DOMAIN S
      PROVE  /\ T[i] \in Target /\ T[i].id = R[i].id /\ T[i].managed = R[i].managed
             /\ \A k \in Kinds :
                  T[i].cred[k] = IF k = "oauth" /\ i \in PublisherManaged(R) THEN R[i].cred[k] ELSE S[i].cred[k]
  <2> DEFINE cr == [k \in Kinds |-> IF k = "oauth" /\ i \in PublisherManaged(R) THEN R[i].cred[k] ELSE S[i].cred[k]]
  <2>1. cr \in [Kinds -> Credential]
    BY <1>1 DEF Target
  <2>2. T[i] = [R[i] EXCEPT !.cred = cr]
    BY DEF Unmigrated
  <2>3. \A k \in Kinds :
          cr[k] = IF k = "oauth" /\ i \in PublisherManaged(R) THEN R[i].cred[k] ELSE S[i].cred[k]
    OBVIOUS
  <2>4. R[i] \in Target
    BY <1>1
  <2> HIDE DEF T, cr
  <2> QED BY <2>1, <2>2, <2>3, <2>4 DEF Target
<1>3. T \in [DOMAIN S -> Target]
  BY <1>2 DEF Unmigrated
<1> QED BY <1>2, <1>3, MapInSettings
-----------------------------------------------------------------------------
(* Types, and what protects the file *)

\* A save is under way only in a running OBS that may write the file, which
\* means that OBS has read it; and when it is about to replace the file, the
\* copy is made.
Protected ==
  /\ saving # None => running /\ known /\ ~saveBlocked
  /\ running /\ ~saveBlocked => known
  /\ ~running => ~saveBlocked
  /\ Doing("write") => file = None \/ backup = file

StoreInv == TypeOK /\ Protected

LEMMA NoTargets == <<>> \in Settings /\ DOMAIN <<>> = {} /\ Duplicates(<<>>) = {} /\ RefsIn(<<>>) = {}
<1>1. <<>> \in Settings
  BY StoreAssumption DEF Settings
<1>2. DOMAIN <<>> = {}
  OBVIOUS
<1>3. ASSUME NEW r
      PROVE  r \notin RefsIn(<<>>)
  BY <1>2, RefsInFacts
<1> QED BY <1>1, <1>2, <1>3 DEF Duplicates

LEMMA RefsInTypes ==
  ASSUME NEW S \in Settings
  PROVE  RefsIn(S) \subseteq Refs
BY RefsInFacts, SettingsFacts

LEMMA PositionsTypes ==
  ASSUME NEW S \in Settings
  PROVE  Positions(S) \subseteq Nat \X Kinds /\ WithSecret(S) \subseteq Nat \X Kinds
BY SettingsFacts DEF Positions, WithSecret

\* The references of one target of a list.
LEMMA OneTargetRefs ==
  ASSUME NEW S \in Settings, NEW i \in DOMAIN S
  PROVE  /\ RefsIn(<<S[i]>>) \subseteq RefsIn(S)
         /\ \A k \in Kinds : S[i].cred[k].ref # None => S[i].cred[k].ref \in RefsIn(<<S[i]>>)
<1>1. DOMAIN <<S[i]>> = {1} /\ <<S[i]>>[1] = S[i]
  OBVIOUS
<1>2. ASSUME NEW r \in RefsIn(<<S[i]>>)
      PROVE  r \in RefsIn(S)
  <2>1. PICK j \in DOMAIN <<S[i]>>, k \in Kinds : r # None /\ <<S[i]>>[j].cred[k].ref = r
    BY RefsInFacts
  <2>2. S[i].cred[k].ref = r
    BY <1>1, <2>1
  <2> QED BY <2>1, <2>2, RefsInFacts
<1>3. \A k \in Kinds : S[i].cred[k].ref # None => S[i].cred[k].ref \in RefsIn(<<S[i]>>)
  BY <1>1, RefsInFacts
<1> QED BY <1>2, <1>3

\* A save begins with the list, the duties and the credentials it was given.
LEMMA SavesFacts ==
  ASSUME StoreInv, saving = None,
         NEW S \in Settings, NEW old \in Settings,
         NEW P \in SUBSET (Nat \X Kinds), NEW R \in SUBSET Refs, Saves(S, old, P, R)
  PROVE  \/ saveBlocked /\ targets' = old /\ saving' = None
         \/ /\ ~saveBlocked /\ targets' = S
            /\ saving' \in SaveRecord /\ saving' # None
            /\ saving'.step = "backup" /\ saving'.old = old /\ saving'.forget = P
            /\ saving'.obsolete = R /\ saving'.todo = WithSecret(S) /\ saving'.done = <<>>
            /\ saving'.origin = creds
<1>1. CASE saveBlocked
  BY <1>1 DEF Saves
<1>2. CASE ~saveBlocked
  <2>1. targets' = S /\ saving' = [step |-> "backup", old |-> old, forget |-> P, obsolete |-> R,
                                   todo |-> WithSecret(S), done |-> <<>>, origin |-> creds]
    BY <1>2 DEF Saves
  <2>2. WithSecret(S) \in SUBSET (Nat \X Kinds)
    BY PositionsTypes
  <2>3. <<>> \in Seq([ref : Refs, was : Secrets \cup {None}])
    OBVIOUS
  <2>4. creds \in [Refs -> Secrets \cup {None}]
    BY DEF StoreInv, TypeOK
  <2>5. saving' \in SaveRecord
    BY <2>1, <2>2, <2>3, <2>4 DEF SaveRecord
  <2> QED BY <1>2, <2>1, <2>5, StoreAssumption
<1> QED BY <1>1, <1>2

\* An operation that begins a save, or does not as the file is protected.
LEMMA SavesKeepStoreInv ==
  ASSUME StoreInv, Idle, edits' \in 0 .. MaxEdits,
         NEW S \in Settings, NEW P \in SUBSET (Nat \X Kinds), NEW R \in SUBSET Refs,
         Saves(S, targets, P, R),
         UNCHANGED <<disk, running, saveBlocked, known, failed>>
  PROVE  StoreInv'
<1>1. targets \in Settings /\ saving = None /\ running
  BY DEF StoreInv, TypeOK, Idle
<1>2. targets' \in Settings /\ saving' \in SaveRecord \cup {None}
      /\ (saving' # None => ~saveBlocked /\ saving'.step = "backup" /\ saving'.todo = WithSecret(targets'))
  BY <1>1, SavesFacts
<1>3. TypeOK'
  BY <1>2 DEF StoreInv, TypeOK, disk, WithSecret, Positions, At
<1>4. Protected'
  BY <1>1, <1>2 DEF StoreInv, Protected, disk, Doing
<1> QED BY <1>3, <1>4 DEF StoreInv

LEMMA StoreInvInit == Init => StoreInv
<1> SUFFICES ASSUME Init
             PROVE  StoreInv
  OBVIOUS
<1>1. TypeOK
  <2>1. file \in Files /\ None \in Files
    BY StoreAssumption DEF Init, Files
  <2>2. saving = None /\ targets = <<>> /\ edits \in 0 .. MaxEdits /\ creds \in [Refs -> Secrets \cup {None}]
    BY StoreAssumption DEF Init
  <2>3. targets \in Settings
    BY <2>2, NoTargets
  <2> QED BY <2>1, <2>2, <2>3 DEF Init, TypeOK
<1>2. Protected
  BY DEF Init, Protected, Doing
<1> QED BY <1>1, <1>2 DEF StoreInv

\* What a save under way is made of.
LEMMA SavingFacts ==
  ASSUME TypeOK, saving # None
  PROVE  /\ saving \in SaveRecord
         /\ saving.step \in {"backup", "write", "rollback", "cleanup"} /\ saving.old \in Settings
         /\ saving.obsolete \subseteq Refs /\ saving.todo \subseteq Nat \X Kinds
         /\ saving.todo \subseteq WithSecret(targets)
         /\ saving.done \in Seq([ref : Refs, was : Secrets \cup {None}])
         /\ saving.origin \in [Refs -> Secrets \cup {None}]
BY DEF TypeOK, SaveRecord

\* The credential that WriteCredential writes has a secret and a reference.
LEMMA ToWriteFacts ==
  ASSUME TypeOK, NEW p \in WithSecret(targets)
  PROVE  LET c == At(EnsureRefs(targets), p)
         IN  c \in Credential /\ c.ref \in Refs /\ c.secret \in Secrets
<1>1. PICK i \in DOMAIN targets, k \in Kinds : p = <<i, k>> /\ targets[i].cred[k].secret # None
  BY WithSecretFacts
<1>2. targets \in Settings /\ targets[i].cred[k] \in Credential /\ targets[i].id \in Ids
  BY SettingsFacts DEF TypeOK
<1>3. PICK c : c = At(EnsureRefs(targets), p)
  OBVIOUS
<1>4. c = Ensured(targets[i].cred[k], Own(k, targets[i].id))
  BY <1>1, <1>2, <1>3, EnsureRefsFacts DEF At
<1>5. Own(k, targets[i].id) \in Refs
  BY <1>2 DEF Own, Refs, Owned
<1>6. c \in Credential /\ c.secret # None /\ c.ref # None
  BY <1>1, <1>2, <1>4, <1>5, StoreAssumption DEF Ensured, Credential
<1> QED BY <1>3, <1>6 DEF Credential

\* A sequence without its last element.
LEMMA DropLast ==
  ASSUME NEW T, NEW d \in Seq(T), NEW m \in Nat, Len(d) = m + 1
  PROVE  /\ SubSeq(d, 1, m) \in Seq(T) /\ Len(SubSeq(d, 1, m)) = m
         /\ \A n \in 1 .. m : SubSeq(d, 1, m)[n] = d[n]
<1>1. \A i \in 1 .. m : d[i] \in T
  BY ElementOfSeq
<1>2. 1 \in Int /\ m \in Int
  OBVIOUS
<1>3. /\ SubSeq(d, 1, m) \in Seq(T) /\ Len(SubSeq(d, 1, m)) = IF 1 <= m THEN m - 1 + 1 ELSE 0
      /\ \A i \in 1 .. m - 1 + 1 : SubSeq(d, 1, m)[i] = d[1 + i - 1]
  BY <1>1, <1>2, SubSeqProperties
<1>4. m - 1 + 1 = m /\ (IF 1 <= m THEN m - 1 + 1 ELSE 0) = m /\ \A i \in 1 .. m : 1 + i - 1 = i
  OBVIOUS
<1> QED BY <1>3, <1>4, Zenon

LEMMA DoneFacts ==
  ASSUME TypeOK, saving # None, saving.done # <<>>
  PROVE  LET d == saving.done IN
         /\ Len(d) \in Nat \ {0}
         /\ \A n \in 1 .. Len(d) : d[n].ref \in Refs /\ d[n].was \in Secrets \cup {None}
         /\ SubSeq(d, 1, Len(d) - 1) \in Seq([ref : Refs, was : Secrets \cup {None}])
         /\ Len(SubSeq(d, 1, Len(d) - 1)) = Len(d) - 1
         /\ \A n \in 1 .. Len(d) - 1 : SubSeq(d, 1, Len(d) - 1)[n] = d[n]
<1>1. PICK Entry : Entry = [ref : Refs, was : Secrets \cup {None}]
  OBVIOUS
<1>2. PICK d : d = saving.done
  OBVIOUS
<1>3. d \in Seq(Entry) /\ d # <<>>
  BY <1>1, <1>2, SavingFacts
<1>4. Len(d) \in Nat \ {0} /\ \A n \in 1 .. Len(d) : d[n] \in Entry
  BY <1>3, ElementOfSeq, EmptySeq
<1>5. PICK m \in Nat : Len(d) = m + 1 /\ m = Len(d) - 1
  BY <1>4
<1>6. /\ SubSeq(d, 1, m) \in Seq(Entry) /\ Len(SubSeq(d, 1, m)) = m
      /\ \A n \in 1 .. m : SubSeq(d, 1, m)[n] = d[n]
  BY <1>3, <1>5, DropLast
<1>7. \A n \in 1 .. Len(d) : d[n].ref \in Refs /\ d[n].was \in Secrets \cup {None}
  BY <1>1, <1>4
<1> QED BY <1>1, <1>2, <1>4, <1>5, <1>6, <1>7

LEMMA DoneRefs ==
  ASSUME TypeOK, saving # None
  PROVE  /\ Len(saving.done) \in Nat /\ DOMAIN saving.done = 1 .. Len(saving.done)
         /\ \A n \in DOMAIN saving.done :
              saving.done[n].ref \in Refs /\ saving.done[n].was \in Secrets \cup {None}
<1>1. PICK Entry : Entry = [ref : Refs, was : Secrets \cup {None}]
  OBVIOUS
<1>2. PICK d : d = saving.done
  OBVIOUS
<1>3. d \in Seq(Entry)
  BY <1>1, <1>2, SavingFacts
<1>4. Len(d) \in Nat /\ DOMAIN d = 1 .. Len(d) /\ \A n \in 1 .. Len(d) : d[n] \in Entry
  BY <1>3, ElementOfSeq, LenProperties
<1> QED BY <1>1, <1>2, <1>4

\* What loading makes of a file: both lists a save may leave, and the
\* references that it may delete.
LEMMA LoadedFacts ==
  ASSUME NEW S \in Settings, NEW new, NEW R, Renames(S, new),
         creds \in [Refs -> Secrets \cup {None}]
  PROVE  LET staged == Reassigned(S, new, R)
         IN  /\ staged \in Settings /\ DOMAIN staged = DOMAIN S
             /\ WithoutManaged(staged) \in Settings /\ Unmigrated(S, staged) \in Settings
             /\ UNION {RefsIn(<<staged[i]>>) : i \in PublisherManaged(staged)} \subseteq Refs
             /\ {p \in Duplicates(S) \X Kinds : At(S, p).secret = None} \subseteq Nat \X Kinds
<1>1. PICK staged : staged = Reassigned(S, new, R)
  OBVIOUS
<1>2. staged \in Settings /\ DOMAIN staged = DOMAIN S
  BY <1>1, ReassignedFacts
<1>3. WithoutManaged(staged) \in Settings /\ Unmigrated(S, staged) \in Settings
  BY <1>2, WithoutManagedFacts, UnmigratedFacts
<1>4. \A i \in PublisherManaged(staged) : RefsIn(<<staged[i]>>) \subseteq Refs
  BY <1>2, OneTargetRefs, RefsInTypes DEF PublisherManaged
<1>5. Duplicates(S) \subseteq Nat
  BY SettingsFacts DEF Duplicates
<1> QED BY <1>1, <1>2, <1>3, <1>4, <1>5

\* Ids decide which targets are duplicates.
LEMMA SameIds ==
  ASSUME NEW S, NEW T, DOMAIN T = DOMAIN S, S \in Settings, \A i \in DOMAIN S : T[i].id = S[i].id
  PROVE  Duplicates(T) = Duplicates(S)
<1>1. \A i \in DOMAIN S : \A j \in 1 .. i - 1 : j \in DOMAIN S
  <2>1. PICK n \in Nat : S \in [1 .. n -> Target]
    BY SettingsAreFunctions
  <2> QED BY <2>1
<1> QED BY <1>1 DEF Duplicates

\* What WriteCredential does with a credential that has a secret.
LEMMA WriteCredentialFacts ==
  ASSUME TypeOK, WriteCredential
  PROVE  \E p \in saving.todo, c \in Credential :
           /\ c = At(EnsureRefs(targets), p)
           /\ c.ref \in Refs /\ c.secret \in Secrets
           /\ \/ saving' = [saving EXCEPT !.todo = @ \ {p}] /\ UNCHANGED creds /\ creds[c.ref] = c.secret
              \/ /\ creds' = [creds EXCEPT ![c.ref] = c.secret]
                 /\ saving' = [saving EXCEPT !.todo = @ \ {p},
                                             !.done = Append(@, [ref |-> c.ref, was |-> creds[c.ref]])]
              \/ Proceeds("rollback") /\ UNCHANGED creds
           /\ saving' \in SaveRecord /\ saving' # None
<1>1. PICK p \in saving.todo : LET c == At(EnsureRefs(targets), p) IN
        \/ saving' = [saving EXCEPT !.todo = @ \ {p}] /\ UNCHANGED creds /\ creds[c.ref] = c.secret
        \/ /\ creds' = [creds EXCEPT ![c.ref] = c.secret]
           /\ saving' = [saving EXCEPT !.todo = @ \ {p},
                                       !.done = Append(@, [ref |-> c.ref, was |-> creds[c.ref]])]
        \/ Proceeds("rollback") /\ UNCHANGED creds
  BY DEF WriteCredential
<1>2. PICK c : c = At(EnsureRefs(targets), p)
  OBVIOUS
<1>3. c \in Credential /\ c.ref \in Refs /\ c.secret \in Secrets
  BY <1>2, SavingFacts, ToWriteFacts DEF WriteCredential, Doing
<1>4. saving # None /\ saving \in SaveRecord
  BY SavingFacts DEF WriteCredential, Doing
<1>5. saving' \in SaveRecord
  <2>1. CASE saving' = [saving EXCEPT !.todo = @ \ {p}]
    BY <1>4, <2>1 DEF SaveRecord
  <2>2. CASE saving' = [saving EXCEPT !.todo = @ \ {p},
                                      !.done = Append(@, [ref |-> c.ref, was |-> creds[c.ref]])]
    <3>1. [ref |-> c.ref, was |-> creds[c.ref]] \in [ref : Refs, was : Secrets \cup {None}]
      BY <1>3 DEF TypeOK
    <3>2. saving.done \in Seq([ref : Refs, was : Secrets \cup {None}])
      BY <1>4, SavingFacts
    <3>3. Append(saving.done, [ref |-> c.ref, was |-> creds[c.ref]]) \in Seq([ref : Refs, was : Secrets \cup {None}])
      BY <3>1, <3>2, AppendProperties
    <3> QED BY <1>4, <2>2, <3>3 DEF SaveRecord
  <2>3. CASE Proceeds("rollback")
    BY <1>4, <2>3 DEF SaveRecord, Proceeds
  <2> QED BY <1>1, <1>2, <2>1, <2>2, <2>3
<1>6. saving' # None
  BY <1>5, StoreAssumption
<1> QED BY <1>1, <1>2, <1>3, <1>5, <1>6

\* What an operation on the targets saves, and which references it gives up.
LEMMA EditsSave ==
  ASSUME TypeOK, AddTarget \/ MutateTargetForUi \/ RemoveTarget \/ Save
  PROVE  /\ Idle /\ edits' \in 0 .. MaxEdits /\ UNCHANGED <<disk, running, saveBlocked, known, failed>>
         /\ \E S \in Settings, P \in SUBSET (Nat \X Kinds), R \in SUBSET Refs :
              /\ Saves(S, targets, P, R)
              /\ RefsIn(S) \subseteq RefsIn(targets) /\ RefsIn(targets) \subseteq RefsIn(S) \cup R
              /\ Duplicates(targets) = {} => Duplicates(S) = {}
<1>t. targets \in Settings /\ edits \in 0 .. MaxEdits /\ MaxEdits \in Nat
  BY StoreAssumption DEF TypeOK
<1>s. {} \in SUBSET (Nat \X Kinds) /\ {} \in SUBSET Refs
  OBVIOUS
<1>1. CASE AddTarget
  <2>1. Edits /\ Len(targets) < MaxTargets /\ UNCHANGED <<disk, running, saveBlocked, known, failed>>
    BY <1>1 DEF AddTarget
  <2>2. PICK id \in Ids \ {targets[i].id : i \in DOMAIN targets}, managed \in BOOLEAN,
             key \in NewCredentials, oauth \in NewCredentials :
          Saves(Append(targets, [id |-> id, managed |-> managed,
                                 cred |-> [k \in Kinds |-> IF k = "key" THEN key ELSE oauth]]),
                targets, {}, {})
    BY <1>1 DEF AddTarget
  <2>3. key \in Credential /\ oauth \in Credential /\ key.ref = None /\ oauth.ref = None
    BY DEF NewCredentials, Credential
  <2>4. PICK t : t = [id |-> id, managed |-> managed, cred |-> [k \in Kinds |-> IF k = "key" THEN key ELSE oauth]]
    OBVIOUS
  <2>5. t \in Target /\ t.id = id /\ \A k \in Kinds : t.cred[k].ref = None
    BY <2>3, <2>4 DEF Target
  <2>6. PICK S : S = Append(targets, t)
    OBVIOUS
  <2>7. /\ S \in Settings /\ DOMAIN S = DOMAIN targets \cup {Len(targets) + 1}
        /\ \A i \in DOMAIN targets : S[i] = targets[i]
        /\ S[Len(targets) + 1] = t /\ Len(targets) + 1 \notin DOMAIN targets
    BY <1>t, <2>1, <2>5, <2>6, AppendFacts
  <2>8. RefsIn(S) \subseteq RefsIn(targets) /\ RefsIn(targets) \subseteq RefsIn(S)
    BY <2>5, <2>7, RefsInFacts
  <2>9. Duplicates(targets) = {} => Duplicates(S) = {}
    <3> SUFFICES ASSUME Duplicates(targets) = {}, NEW i \in DOMAIN S, NEW j \in 1 .. i - 1, S[j].id = S[i].id
                 PROVE  FALSE
      BY DEF Duplicates
    <3>1. Len(targets) \in Nat /\ DOMAIN targets = 1 .. Len(targets)
      BY <1>t, LenProperties DEF Settings
    <3>2. CASE i = Len(targets) + 1
      BY <2>5, <2>7, <3>1, <3>2
    <3>3. CASE i \in DOMAIN targets
      BY <2>7, <3>1, <3>3 DEF Duplicates
    <3> QED BY <2>7, <3>2, <3>3
  <2> QED BY <1>t, <1>s, <2>1, <2>2, <2>4, <2>6, <2>7, <2>8, <2>9 DEF Edits
<1>2. CASE MutateTargetForUi
  <2>1. Edits /\ UNCHANGED <<disk, running, saveBlocked, known, failed>>
    BY <1>2 DEF MutateTargetForUi
  <2>2. PICK i \in DOMAIN targets :
          \E managed \in BOOLEAN, key \in Retyped(targets[i].cred["key"]), oauth \in Retyped(targets[i].cred["oauth"]) :
            Saves(Retargeted(i, managed, key, oauth), targets, {}, RefsIn(<<targets[i]>>))
    BY <1>2 DEF MutateTargetForUi
  <2>3. PICK managed \in BOOLEAN, key \in Retyped(targets[i].cred["key"]),
             oauth \in Retyped(targets[i].cred["oauth"]) :
          Saves(Retargeted(i, managed, key, oauth), targets, {}, RefsIn(<<targets[i]>>))
    BY <2>2
  <2>4. [k \in Kinds |-> IF k = "key" THEN key ELSE oauth] \in [Kinds -> Credential]
    <3>1. targets[i].cred["key"] \in Credential /\ targets[i].cred["oauth"] \in Credential
      BY <1>t, SettingsFacts DEF Kinds
    <3>2. \A c \in Credential : Retyped(c) \subseteq Credential
      BY DEF Retyped, NoCredential, Credential
    <3> QED BY <3>1, <3>2
  <2>5. PICK S, c : S = Retargeted(i, managed, key, oauth) /\ c = [k \in Kinds |-> IF k = "key" THEN key ELSE oauth]
    OBVIOUS
  <2>6. /\ S \in Settings /\ DOMAIN S = DOMAIN targets
        /\ \A j \in DOMAIN targets : j # i => S[j] = targets[j]
        /\ S[i].id = targets[i].id /\ S[i].cred = c
    <3>1. PICK old : old = targets
      OBVIOUS
    <3>2. old \in Settings /\ i \in DOMAIN old /\ c \in [Kinds -> Credential]
      BY <1>t, <2>4, <2>5, <3>1
    <3>3. S = [old EXCEPT ![i].managed = managed, ![i].cred = c]
      BY <2>5, <3>1 DEF Retargeted
    <3>4. \A j \in DOMAIN old : old[j] \in Target
      BY <3>2, SettingsFacts
    <3>5. PICK n \in Nat : old \in [1 .. n -> Target]
      BY <3>2, SettingsAreFunctions
    <3>6. S[i].id = old[i].id /\ S[i].cred = c /\ S[i] \in Target
      BY <3>2, <3>3, <3>4, <3>5 DEF Target
    <3>7. \A j \in DOMAIN old : j # i => S[j] = old[j]
      BY <3>2, <3>3, <3>5
    <3>8. S \in [DOMAIN old -> Target]
      BY <3>3, <3>4, <3>5, <3>6, <3>7
    <3> QED BY <3>1, <3>2, <3>6, <3>7, <3>8, MapInSettings
  <2>7. RefsIn(<<targets[i]>>) \in SUBSET Refs
    BY <1>t, OneTargetRefs, RefsInTypes
  <2>8. \A k \in Kinds : c[k].ref \in {targets[i].cred[k].ref, None}
    <3>1. \A x \in Credential : \A y \in Retyped(x) : y.ref \in {x.ref, None}
      BY DEF Retyped, NoCredential, Credential
    <3>2. targets[i].cred["key"] \in Credential /\ targets[i].cred["oauth"] \in Credential
      BY <1>t, SettingsFacts DEF Kinds
    <3>3. key.ref \in {targets[i].cred["key"].ref, None} /\ oauth.ref \in {targets[i].cred["oauth"].ref, None}
      BY <3>1, <3>2
    <3> QED BY <2>5, <3>3 DEF Kinds
  <2>9. RefsIn(S) \subseteq RefsIn(targets)
    BY <2>6, <2>8, RefsInFacts
  <2>11. ASSUME NEW r \in RefsIn(targets)
         PROVE  r \in RefsIn(S) \cup RefsIn(<<targets[i]>>)
    <3>1. PICK j \in DOMAIN targets, k \in Kinds : r # None /\ targets[j].cred[k].ref = r
      BY <2>11, RefsInFacts
    <3>2. CASE j = i
      BY <1>t, <3>1, <3>2, OneTargetRefs
    <3>3. CASE j # i
      BY <2>6, <3>1, <3>3, RefsInFacts
    <3> QED BY <3>2, <3>3
  <2>10. Duplicates(S) = Duplicates(targets)
    BY <1>t, <2>6, SameIds
  <2> QED BY <1>t, <1>s, <2>1, <2>3, <2>5, <2>6, <2>7, <2>9, <2>10, <2>11 DEF Edits
<1>3. CASE RemoveTarget
  <2>1. Edits /\ UNCHANGED <<disk, running, saveBlocked, known, failed>>
    BY <1>3 DEF RemoveTarget
  <2>2. PICK i \in DOMAIN targets : Saves(Without(targets, i), targets, {}, RefsIn(<<targets[i]>>))
    BY <1>3 DEF RemoveTarget
  <2>3. PICK S : S = Without(targets, i)
    OBVIOUS
  <2>4. /\ S \in Settings /\ RefsIn(<<targets[i]>>) \in SUBSET Refs
        /\ \A j \in DOMAIN S : \/ j < i /\ j \in DOMAIN targets /\ S[j] = targets[j]
                               \/ j >= i /\ j + 1 \in DOMAIN targets /\ S[j] = targets[j + 1]
    BY <1>t, <2>3, WithoutFacts, OneTargetRefs, RefsInTypes
  <2>5. RefsIn(S) \subseteq RefsIn(targets)
    BY <2>4, RefsInFacts
  <2>7. ASSUME NEW r \in RefsIn(targets)
        PROVE  r \in RefsIn(S) \cup RefsIn(<<targets[i]>>)
    <3>1. PICK j \in DOMAIN targets, k \in Kinds : r # None /\ targets[j].cred[k].ref = r
      BY <2>7, RefsInFacts
    <3>2. CASE j = i
      BY <1>t, <3>1, <3>2, OneTargetRefs
    <3>3. CASE j # i
      <4>1. PICK l \in DOMAIN S : S[l] = targets[j]
        BY <1>t, <2>3, <3>3, WithoutFacts
      <4> QED BY <3>1, <4>1, RefsInFacts
    <3> QED BY <3>2, <3>3
  <2>6. Duplicates(targets) = {} => Duplicates(S) = {}
    <3> SUFFICES ASSUME Duplicates(targets) = {}, NEW j \in DOMAIN S, NEW l \in 1 .. j - 1, S[l].id = S[j].id
                 PROVE  FALSE
      BY DEF Duplicates
    <3>1. PICK m \in Nat, n \in Nat : DOMAIN S = 1 .. m /\ DOMAIN targets = 1 .. n
      BY <1>t, <2>4, SettingsAreFunctions
    <3>2. l \in DOMAIN S /\ l < j /\ l \in Nat /\ j \in Nat /\ i \in Nat
      BY <3>1
    <3>3. PICK a \in DOMAIN targets, b \in DOMAIN targets : a < b /\ a \in Nat \ {0} /\ b \in Nat /\ targets[a] = S[l] /\ targets[b] = S[j]
      BY <2>4, <3>1, <3>2, SMTT(30)
    <3>4. b \in Duplicates(targets)
      BY <3>3 DEF Duplicates
    <3> QED BY <3>4
  <2> QED BY <1>t, <1>s, <2>1, <2>2, <2>3, <2>4, <2>5, <2>6, <2>7 DEF Edits
<1>4. CASE Save
  <2>1. Edits /\ UNCHANGED <<disk, running, saveBlocked, known, failed>> /\ Saves(targets, targets, {}, {})
    BY <1>4 DEF Save
  <2> QED BY <1>t, <1>s, <2>1 DEF Edits
<1> QED BY <1>1, <1>2, <1>3, <1>4

\* What loading saves, if it has to.
LEMMA LoadSaves ==
  ASSUME TypeOK, LoadSettings
  PROVE  /\ file \in Settings /\ Starts /\ known' = TRUE /\ UNCHANGED <<disk, saveBlocked, failed, edits>>
         /\ \/ Duplicates(file) = {} /\ targets' = file /\ UNCHANGED saving
            \/ \E new, T : \E staged \in Settings, S \in Settings, old \in Settings,
                              P \in SUBSET (Nat \X Kinds), R \in SUBSET Refs :
                 /\ Renames(file, new) /\ staged = Reassigned(file, new, T)
                 /\ S = WithoutManaged(staged) /\ old = Unmigrated(file, staged)
                 /\ R = UNION {RefsIn(<<staged[i]>>) : i \in PublisherManaged(staged)}
                 /\ Saves(S, old, P, R)
<1>1. file \in Settings /\ Starts /\ known' = TRUE /\ UNCHANGED <<disk, saveBlocked, failed, edits>>
  BY DEF LoadSettings, TypeOK, Files
<1>2. PICK new \in [Duplicates(file) -> Ids \ {file[i].id : i \in DOMAIN file}],
           T \in SUBSET (Duplicates(file) \X Kinds) :
        /\ \A i, j \in Duplicates(file) : new[i] = new[j] => i = j
        /\ \/ Duplicates(file) = {} /\ targets' = file /\ UNCHANGED saving
           \/ LET staged == Reassigned(file, new, T)
              IN  Saves(WithoutManaged(staged), Unmigrated(file, staged),
                        {p \in Duplicates(file) \X Kinds : At(file, p).secret = None},
                        UNION {RefsIn(<<staged[i]>>) : i \in PublisherManaged(staged)})
  BY DEF LoadSettings
<1>3. CASE Duplicates(file) = {} /\ targets' = file /\ UNCHANGED saving
  BY <1>1, <1>3
<1>4. CASE ~(Duplicates(file) = {} /\ targets' = file /\ UNCHANGED saving)
  <2>1. PICK staged : staged = Reassigned(file, new, T)
    OBVIOUS
  <2>2. Renames(file, new)
    BY <1>2 DEF Renames
  <2>3. /\ staged \in Settings
        /\ WithoutManaged(staged) \in Settings /\ Unmigrated(file, staged) \in Settings
        /\ UNION {RefsIn(<<staged[i]>>) : i \in PublisherManaged(staged)} \subseteq Refs
        /\ {p \in Duplicates(file) \X Kinds : At(file, p).secret = None} \subseteq Nat \X Kinds
    BY <1>1, <2>1, <2>2, LoadedFacts DEF TypeOK
  <2>4. PICK S, old, P, R :
          /\ S = WithoutManaged(staged) /\ old = Unmigrated(file, staged)
          /\ P = {p \in Duplicates(file) \X Kinds : At(file, p).secret = None}
          /\ R = UNION {RefsIn(<<staged[i]>>) : i \in PublisherManaged(staged)}
    OBVIOUS
  <2>5. S \in Settings /\ old \in Settings /\ P \in SUBSET (Nat \X Kinds) /\ R \in SUBSET Refs
    BY <2>3, <2>4
  <2>6. Saves(S, old, P, R)
    BY <1>2, <1>4, <2>1, <2>4
  <2> QED BY <1>1, <2>1, <2>2, <2>3, <2>4, <2>5, <2>6
<1> QED BY <1>2, <1>3, <1>4

\* No step of the program or of its environment breaks the types, or protection.
LEMMA StoreInvNext ==
  ASSUME StoreInv, [Next]_vars
  PROVE  StoreInv'
<1> USE DEF StoreInv
<1>t. TypeOK /\ Protected /\ creds \in [Refs -> Secrets \cup {None}] /\ targets \in Settings
  BY DEF TypeOK
<1>f. None \in Files /\ Settings \subseteq Files
  BY DEF Files
<1>1. CASE NoFile
  <2>1. TypeOK'
    BY <1>1, <1>t, NoTargets DEF NoFile, Starts, disk, TypeOK, Protected
  <2>2. Protected'
    BY <1>1, <1>t DEF NoFile, Starts, disk, Protected, Doing
  <2> QED BY <2>1, <2>2
<1>2. CASE LoadsNothing
  <2>1. TypeOK'
    BY <1>2, <1>t, NoTargets DEF LoadsNothing, Starts, disk, TypeOK, Protected
  <2>2. Protected'
    BY <1>2, <1>t DEF LoadsNothing, Starts, disk, Protected, Doing
  <2> QED BY <2>1, <2>2
<1>3. CASE QuarantineInvalidSettings
  <2>1. TypeOK'
    BY <1>3, <1>t, <1>f, NoTargets DEF QuarantineInvalidSettings, Starts, TypeOK, Protected
  <2>2. Protected'
    BY <1>3, <1>t DEF QuarantineInvalidSettings, Starts, Protected, Doing
  <2> QED BY <2>1, <2>2
<1>4. CASE LoadSettings
  <2>1. saving = None /\ ~saveBlocked /\ running' /\ known' /\ UNCHANGED <<disk, saveBlocked, failed, edits>>
    BY <1>4, <1>t, LoadSaves DEF Starts, Protected
  <2>2. targets' \in Settings /\ saving' \in SaveRecord \cup {None}
        /\ (saving' # None => saving'.step = "backup" /\ saving'.todo = WithSecret(targets'))
    <3>1. \/ targets' = file /\ UNCHANGED saving /\ file \in Settings
          \/ \E S \in Settings, old \in Settings, P \in SUBSET (Nat \X Kinds), R \in SUBSET Refs : Saves(S, old, P, R)
      BY <1>4, <1>t, LoadSaves
    <3> QED BY <2>1, <3>1, SavesFacts
  <2>3. TypeOK'
    BY <1>t, <2>1, <2>2 DEF TypeOK, disk, WithSecret, Positions, At
  <2>4. Protected'
    BY <2>1, <2>2 DEF Protected, Doing, disk
  <2> QED BY <2>3, <2>4
<1>5. CASE AddTarget \/ MutateTargetForUi \/ RemoveTarget \/ Save
  <2>1. /\ Idle /\ edits' \in 0 .. MaxEdits /\ UNCHANGED <<disk, running, saveBlocked, known, failed>>
        /\ \E S \in Settings, P \in SUBSET (Nat \X Kinds), R \in SUBSET Refs : Saves(S, targets, P, R)
    BY <1>5, <1>t, EditsSave
  <2> QED BY <2>1, SavesKeepStoreInv
<1>6. CASE HydrateTargetSecrets
  <2>1. Idle /\ UNCHANGED <<disk, running, saveBlocked, saving, known, failed, edits>>
    BY <1>6 DEF HydrateTargetSecrets
  <2>2. PICK i \in DOMAIN targets, G \in SUBSET Kinds :
          targets' = [targets EXCEPT ![i].cred =
                        [k \in Kinds |-> IF k \in G THEN Hydrated(targets[i].cred[k]) ELSE targets[i].cred[k]]]
    <3>1. \A G \in {{"key"}, Kinds} : G \in SUBSET Kinds
      BY DEF Kinds
    <3> QED BY <1>6, <3>1, <1>t DEF HydrateTargetSecrets
  <2>3. \A k \in Kinds : Hydrated(targets[i].cred[k]) \in Credential /\ targets[i].cred[k] \in Credential
    <3> TAKE k \in Kinds
    <3>1. PICK c \in Credential : c = targets[i].cred[k]
      BY <1>t, SettingsFacts
    <3>2. Hydrated(c) \in Credential
      BY <1>t DEF Hydrated, Credential, Refs
    <3> QED BY <3>1, <3>2
  <2>4. targets' \in Settings
    BY <1>t, <2>2, <2>3, ExceptCredFacts
  <2>5. TypeOK'
    BY <1>t, <2>1, <2>4 DEF TypeOK, disk, Idle
  <2>6. Protected'
    BY <1>t, <2>1 DEF Protected, Doing, disk
  <2> QED BY <2>5, <2>6
<1>7. CASE BackUp
  <2>1. saving # None /\ saving \in SaveRecord /\ saving.old \in Settings /\ file \in Files /\ backup \in Files
    BY <1>7, <1>t, SavingFacts DEF BackUp, Doing, TypeOK
  <2>2. CASE Fails /\ UNCHANGED backup
    <3>1. TypeOK'
      BY <1>7, <1>t, <2>1, <2>2 DEF BackUp, Fails, TypeOK
    <3>2. Protected'
      BY <1>7, <1>t, <2>2 DEF BackUp, Fails, Protected, Doing
    <3> QED BY <3>1, <3>2
  <2>3. CASE backup' = (IF file = None THEN backup ELSE file) /\ Proceeds("write") /\ UNCHANGED targets
    <3>1. saving' \in SaveRecord /\ saving'.step = "write" /\ saving'.todo = saving.todo
      BY <2>1, <2>3 DEF Proceeds, SaveRecord
    <3>2. TypeOK'
      BY <1>7, <1>t, <2>1, <2>3, <3>1 DEF BackUp, TypeOK, WithSecret, Positions, At
    <3>3. Protected'
      BY <1>7, <1>t, <2>1, <2>3, <3>1 DEF BackUp, Protected, Doing
    <3> QED BY <3>2, <3>3
  <2> QED BY <1>7, <2>2, <2>3 DEF BackUp
<1>8. CASE WriteCredential
  <2>1. saving # None /\ saving \in SaveRecord /\ saving.step = "write" /\ saving.todo \subseteq WithSecret(targets)
    BY <1>8, <1>t, SavingFacts DEF WriteCredential, Doing
  <2>2. PICK p \in saving.todo, c \in Credential :
          /\ c.ref \in Refs /\ c.secret \in Secrets
          /\ \/ /\ saving' = [saving EXCEPT !.todo = @ \ {p}]
                /\ UNCHANGED creds
             \/ /\ creds' = [creds EXCEPT ![c.ref] = c.secret]
                /\ saving' = [saving EXCEPT !.todo = @ \ {p},
                                            !.done = Append(@, [ref |-> c.ref, was |-> creds[c.ref]])]
             \/ Proceeds("rollback") /\ UNCHANGED creds
    BY <1>8, <1>t, WriteCredentialFacts
  <2>3. creds' \in [Refs -> Secrets \cup {None}]
    BY <1>t, <2>2
  <2>4. saving' \in SaveRecord /\ saving'.todo \subseteq saving.todo /\ saving'.step \in {"write", "rollback"}
    <3>1. saving' \in SaveRecord
      BY <1>8, <1>t, WriteCredentialFacts
    <3>2. CASE saving' = [saving EXCEPT !.todo = @ \ {p}]
      BY <2>1, <3>1, <3>2 DEF SaveRecord
    <3>3. CASE saving' = [saving EXCEPT !.todo = @ \ {p},
                                        !.done = Append(@, [ref |-> c.ref, was |-> creds[c.ref]])]
      BY <2>1, <3>1, <3>3 DEF SaveRecord
    <3>4. CASE Proceeds("rollback")
      BY <2>1, <3>1, <3>4 DEF SaveRecord, Proceeds
    <3> QED BY <2>2, <3>2, <3>3, <3>4
  <2>5. UNCHANGED <<file, backup, kept, running, targets, saveBlocked, known, failed, edits>>
    BY <1>8 DEF WriteCredential
  <2>6. TypeOK'
    BY <1>t, <2>1, <2>3, <2>4, <2>5 DEF TypeOK, WithSecret, Positions, At
  <2>7. Protected'
    BY <1>t, <2>1, <2>4, <2>5 DEF Protected, Doing
  <2> QED BY <2>6, <2>7
<1>9. CASE Commit
  <2>1. saving # None /\ saving \in SaveRecord /\ saving.step = "write" /\ saving.todo = {}
    BY <1>9, <1>t, SavingFacts DEF Commit, Doing
  <2>2. CASE Proceeds("rollback") /\ UNCHANGED <<file, targets, known>>
    <3>1. saving' \in SaveRecord /\ saving'.step = "rollback" /\ saving'.todo = {}
      BY <2>1, <2>2 DEF Proceeds, SaveRecord
    <3>2. TypeOK'
      BY <1>9, <1>t, <2>2, <3>1 DEF Commit, TypeOK
    <3>3. Protected'
      BY <1>9, <1>t, <2>1, <2>2, <3>1 DEF Commit, Protected, Doing
    <3> QED BY <3>2, <3>3
  <2>3. CASE /\ file' = Content(targets) /\ targets' = Forget(EnsureRefs(targets), saving.forget)
             /\ known' = TRUE /\ saving' = [saving EXCEPT !.step = "cleanup", !.obsolete = Unneeded(targets')]
    <3>1. saving' \in SaveRecord /\ saving'.step = "cleanup" /\ saving'.todo = {}
      BY <2>1, <2>3 DEF Unneeded, SaveRecord
    <3>2. file' \in Settings /\ targets' \in Settings
      BY <1>t, <2>3, ContentFacts, EnsureRefsFacts, ForgetFacts
    <3>3. TypeOK'
      BY <1>9, <1>t, <1>f, <2>3, <3>1, <3>2 DEF Commit, TypeOK
    <3>4. Protected'
      BY <1>9, <1>t, <2>1, <2>3, <3>1 DEF Commit, Protected, Doing
    <3> QED BY <3>3, <3>4
  <2> QED BY <1>9, <2>2, <2>3 DEF Commit
<1>10. CASE RollBack
  <2>1. saving # None /\ saving \in SaveRecord /\ saving.old \in Settings /\ saving.step = "rollback"
        /\ saving.todo \subseteq WithSecret(targets)
    BY <1>10, <1>t, SavingFacts DEF RollBack, Doing
  <2>2. CASE saving.done = <<>> /\ Fails /\ UNCHANGED <<creds, failed>>
    <3>1. TypeOK'
      BY <1>10, <1>t, <2>1, <2>2 DEF RollBack, Fails, TypeOK
    <3>2. Protected'
      BY <1>10, <1>t, <2>2 DEF RollBack, Fails, Protected, Doing
    <3> QED BY <3>1, <3>2
  <2>3. CASE /\ saving.done # <<>>
             /\ LET last == saving.done[Len(saving.done)]
                IN  \/ creds' = [creds EXCEPT ![last.ref] = last.was] /\ UNCHANGED failed
                    \/ failed' = failed \cup {last.ref} /\ UNCHANGED creds
             /\ saving' = [saving EXCEPT !.done = SubSeq(@, 1, Len(@) - 1)]
             /\ UNCHANGED targets
    <3>1. /\ saving.done[Len(saving.done)].ref \in Refs
          /\ saving.done[Len(saving.done)].was \in Secrets \cup {None}
          /\ SubSeq(saving.done, 1, Len(saving.done) - 1) \in Seq([ref : Refs, was : Secrets \cup {None}])
      <4>1. /\ Len(saving.done) \in Nat \ {0}
            /\ SubSeq(saving.done, 1, Len(saving.done) - 1) \in Seq([ref : Refs, was : Secrets \cup {None}])
        BY <1>t, <2>1, <2>3, DoneFacts
      <4>2. Len(saving.done) \in DOMAIN saving.done
        BY <1>t, <2>1, <4>1, DoneRefs
      <4> QED BY <1>t, <2>1, <4>1, <4>2, DoneRefs
    <3>2. creds' \in [Refs -> Secrets \cup {None}] /\ failed' \subseteq Refs
      BY <1>t, <2>3, <3>1 DEF TypeOK
    <3>3. saving' \in SaveRecord /\ saving'.step = "rollback" /\ saving'.todo = saving.todo
      BY <2>1, <2>3, <3>1 DEF SaveRecord
    <3>4. TypeOK'
      BY <1>10, <1>t, <2>1, <2>3, <3>2, <3>3 DEF RollBack, TypeOK, WithSecret, Positions, At
    <3>5. Protected'
      BY <1>10, <1>t, <2>1, <3>3 DEF RollBack, Protected, Doing
    <3> QED BY <3>4, <3>5
  <2> QED BY <1>10, <2>2, <2>3 DEF RollBack
<1>11. CASE CleanUp
  <2>1. saving # None /\ saving \in SaveRecord /\ saving.step = "cleanup" /\ saving.obsolete \subseteq Refs
        /\ saving.todo \subseteq WithSecret(targets)
    BY <1>11, <1>t, SavingFacts DEF CleanUp, Doing
  <2>2. CASE saving.obsolete = {} /\ saving' = None /\ UNCHANGED <<creds, failed>>
    <3>1. TypeOK'
      BY <1>11, <1>t, <2>2 DEF CleanUp, TypeOK
    <3>2. Protected'
      BY <1>11, <1>t, <2>2 DEF CleanUp, Protected, Doing
    <3> QED BY <3>1, <3>2
  <2>3. CASE \E r \in saving.obsolete :
               /\ saving' = [saving EXCEPT !.obsolete = @ \ {r}]
               /\ \/ creds' = [creds EXCEPT ![r] = None] /\ UNCHANGED failed
                  \/ failed' = failed \cup {r} /\ UNCHANGED creds
    <3>1. creds' \in [Refs -> Secrets \cup {None}] /\ failed' \subseteq Refs
      BY <1>t, <2>1, <2>3 DEF TypeOK
    <3>2. saving' \in SaveRecord /\ saving'.step = "cleanup" /\ saving'.todo = saving.todo
      BY <2>1, <2>3 DEF SaveRecord
    <3>3. TypeOK'
      BY <1>11, <1>t, <2>1, <3>1, <3>2 DEF CleanUp, TypeOK, WithSecret, Positions, At
    <3>4. Protected'
      BY <1>11, <1>t, <2>1, <3>2 DEF CleanUp, Protected, Doing
    <3> QED BY <3>3, <3>4
  <2> QED BY <1>11, <2>2, <2>3 DEF CleanUp
<1>12. CASE Stops
  <2>1. failed' \subseteq Refs
    <3>1. CASE saving = None
      BY <1>12, <1>t, <3>1 DEF Stops, TypeOK
    <3>2. CASE saving # None /\ saving.step = "cleanup"
      BY <1>12, <1>t, <3>2, SavingFacts DEF Stops, TypeOK
    <3>3. CASE saving # None /\ saving.step # "cleanup"
      <4>1. \A n \in DOMAIN saving.done : saving.done[n].ref \in Refs
        BY <1>t, <3>3, DoneRefs
      <4> QED BY <1>12, <1>t, <3>3, <4>1 DEF Stops, TypeOK
    <3> QED BY <3>1, <3>2, <3>3
  <2>2. TypeOK'
    BY <1>12, <1>t, <2>1, NoTargets DEF Stops, TypeOK, disk
  <2>3. Protected'
    BY <1>12 DEF Stops, Protected, Doing
  <2> QED BY <2>2, <2>3
<1>13. CASE UNCHANGED vars
  <2>1. TypeOK'
    BY <1>13, <1>t DEF vars, TypeOK, WithSecret, Positions, At
  <2>2. Protected'
    BY <1>13, <1>t DEF vars, Protected, Doing
  <2> QED BY <2>1, <2>2
<1> QED BY <1>1, <1>2, <1>3, <1>4, <1>5, <1>6, <1>7, <1>8, <1>9, <1>10, <1>11, <1>12, <1>13
        DEF Next

\* The variables have their types, whatever fails and wherever OBS crashes.
THEOREM TypeCorrect == Spec => []TypeOK
<1>1. StoreInv => TypeOK
  BY DEF StoreInv
<1> QED BY <1>1, StoreInvInit, StoreInvNext, PTL DEF Spec

\* Theorem: a version of the settings file that is replaced is in the copy
\* beside it, or was moved away, and a file that OBS could not read or open is
\* never the one replaced (the backup at the head of SettingsStore::save,
\* quarantineInvalidSettings, saveBlocked_).
THEOREM ReplacedVersionsAreKept == Spec => ReplacedIsKept
<1>1. ASSUME StoreInv, Next, file' # file, file # None
      PROVE  \/ file \in kept'
             \/ known /\ backup = file
  <2>1. CASE Commit
    BY <1>1, <2>1 DEF Commit, Doing, StoreInv, Protected
  <2>2. CASE QuarantineInvalidSettings
    BY <1>1, <2>2 DEF QuarantineInvalidSettings
  <2>3. CASE NoFile \/ LoadsNothing \/ LoadSettings \/ Stops
    BY <1>1, <2>3 DEF NoFile, LoadsNothing, LoadSettings, Stops, disk
  <2>4. CASE AddTarget \/ MutateTargetForUi \/ RemoveTarget \/ Save \/ HydrateTargetSecrets
    BY <1>1, <2>4 DEF AddTarget, MutateTargetForUi, RemoveTarget, Save, HydrateTargetSecrets, disk
  <2>5. CASE BackUp \/ WriteCredential \/ RollBack \/ CleanUp
    BY <1>1, <2>5 DEF BackUp, WriteCredential, RollBack, CleanUp
  <2> QED BY <1>1, <2>1, <2>2, <2>3, <2>4, <2>5 DEF Next
<1>2. StoreInv /\ [Next]_vars => [file' # file /\ file # None =>
                                    \/ file \in kept'
                                    \/ known /\ backup = file]_vars
  BY <1>1
<1> QED BY <1>2, StoreInvInit, StoreInvNext, PTL DEF Spec, ReplacedIsKept

-----------------------------------------------------------------------------
(* A failed save leaves the credentials as it found them. *)

\* The first entry of a reference r in the record of a save has the value that
\* the save found; without an entry it is still there.  A save may write one
\* reference twice, for two targets that have it, and the later entry has the
\* value of the earlier write: only in reverse does that come right.
Restorable ==
  saving # None /\ saving.step # "cleanup" =>
    \A r \in Refs \ failed :
      /\ (\A n \in DOMAIN saving.done : saving.done[n].ref # r) => creds[r] = saving.origin[r]
      /\ \A n \in DOMAIN saving.done :
           saving.done[n].ref = r /\ (\A m \in 1 .. n - 1 : saving.done[m].ref # r)
             => saving.done[n].was = saving.origin[r]

RestoreInv == StoreInv /\ Restorable

\* What begins a save, or nothing, keeps the record.
LEMMA SavesKeepRestorable ==
  ASSUME RestoreInv, saving = None,
         NEW S \in Settings, NEW old \in Settings,
         NEW P \in SUBSET (Nat \X Kinds), NEW R \in SUBSET Refs,
         Saves(S, old, P, R), UNCHANGED creds
  PROVE  Restorable'
<1>1. \/ saving' = None
      \/ saving'.done = <<>> /\ saving'.origin = creds
  BY SavesFacts DEF RestoreInv
<1>2. CASE saving' = None
  BY <1>2 DEF Restorable
<1>3. CASE saving'.done = <<>> /\ saving'.origin = creds
  <2>1. DOMAIN saving'.done = {}
    BY <1>3
  <2> QED BY <1>3, <2>1 DEF Restorable
<1> QED BY <1>1, <1>2, <1>3
LEMMA RestoreInvNext ==
  ASSUME RestoreInv, [Next]_vars
  PROVE  RestoreInv'
<1>t. StoreInv /\ TypeOK /\ Protected /\ Restorable /\ creds \in [Refs -> Secrets \cup {None}]
  BY DEF RestoreInv, StoreInv, TypeOK
<1>n. StoreInv'
  BY <1>t, StoreInvNext
<1>1. CASE AddTarget \/ MutateTargetForUi \/ RemoveTarget \/ Save
  <2>1. /\ saving = None /\ UNCHANGED creds /\ targets \in Settings
        /\ \E S \in Settings, P \in SUBSET (Nat \X Kinds), R \in SUBSET Refs : Saves(S, targets, P, R)
    BY <1>1, <1>t, EditsSave DEF Idle, disk, TypeOK
  <2> QED BY <1>n, <2>1, SavesKeepRestorable DEF RestoreInv
<1>2. CASE LoadSettings
  <2>1. saving = None /\ UNCHANGED creds
    BY <1>2, <1>t, LoadSaves DEF disk, Starts, Protected
  <2>2. \/ UNCHANGED saving
        \/ \E S \in Settings, old \in Settings, P \in SUBSET (Nat \X Kinds), R \in SUBSET Refs : Saves(S, old, P, R)
    BY <1>2, <1>t, LoadSaves
  <2>3. CASE UNCHANGED saving
    BY <1>n, <2>1, <2>3 DEF RestoreInv, Restorable
  <2> QED BY <1>n, <2>1, <2>2, <2>3, SavesKeepRestorable DEF RestoreInv
<1>3. CASE NoFile \/ LoadsNothing \/ QuarantineInvalidSettings \/ HydrateTargetSecrets \/ Stops
  <2>1. saving' = None
    BY <1>3, <1>t DEF NoFile, LoadsNothing, QuarantineInvalidSettings, HydrateTargetSecrets, Stops, Idle, Starts, Protected
  <2> QED BY <1>n, <2>1 DEF RestoreInv, Restorable
<1>4. CASE BackUp
  <2>1. \/ saving' = None
        \/ saving # None /\ saving.step = "backup" /\ saving' = [saving EXCEPT !.step = "write"]
    BY <1>4 DEF BackUp, Fails, Proceeds, Doing
  <2>2. UNCHANGED <<creds, failed>>
    BY <1>4 DEF BackUp
  <2>3. saving' # None => saving'.done = saving.done /\ saving'.origin = saving.origin
    BY <1>t, <2>1, SavingFacts DEF SaveRecord
  <2> QED BY <1>n, <1>t, <2>1, <2>2, <2>3 DEF RestoreInv, Restorable
<1>5. CASE WriteCredential
  <2>1. saving # None /\ saving \in SaveRecord /\ saving.step = "write" /\ UNCHANGED failed
    BY <1>5, <1>t, SavingFacts DEF WriteCredential, Doing
  <2>2. PICK p \in saving.todo, c \in Credential :
          /\ c.ref \in Refs /\ c.secret \in Secrets
          /\ \/ saving' = [saving EXCEPT !.todo = @ \ {p}] /\ UNCHANGED creds
             \/ /\ creds' = [creds EXCEPT ![c.ref] = c.secret]
                /\ saving' = [saving EXCEPT !.todo = @ \ {p},
                                            !.done = Append(@, [ref |-> c.ref, was |-> creds[c.ref]])]
             \/ Proceeds("rollback") /\ UNCHANGED creds
    BY <1>5, <1>t, WriteCredentialFacts
  <2>3. CASE UNCHANGED creds /\ (saving' = [saving EXCEPT !.todo = @ \ {p}] \/ Proceeds("rollback"))
    <3>1. saving'.done = saving.done /\ saving'.origin = saving.origin
      BY <2>1, <2>3 DEF SaveRecord, Proceeds
    <3> QED BY <1>n, <1>t, <2>1, <2>3, <3>1 DEF RestoreInv, Restorable
  <2>4. CASE /\ creds' = [creds EXCEPT ![c.ref] = c.secret]
             /\ saving' = [saving EXCEPT !.todo = @ \ {p},
                                         !.done = Append(@, [ref |-> c.ref, was |-> creds[c.ref]])]
    <3>1. PICK d : d = saving.done
      OBVIOUS
    <3>2. PICK e : e = [ref |-> c.ref, was |-> creds[c.ref]]
      OBVIOUS
    <3>3. saving'.done = Append(d, e) /\ saving'.origin = saving.origin
      BY <2>1, <2>4, <3>1, <3>2 DEF SaveRecord
    <3>4. /\ Len(d) \in Nat /\ DOMAIN d = 1 .. Len(d)
          /\ Len(Append(d, e)) = Len(d) + 1 /\ DOMAIN Append(d, e) = 1 .. Len(d) + 1
          /\ \A n \in 1 .. Len(d) : Append(d, e)[n] = d[n]
          /\ Append(d, e)[Len(d) + 1] = e
      <4>1. PICK Entry : Entry = [ref : Refs, was : Secrets \cup {None}]
        OBVIOUS
      <4>2. d \in Seq(Entry) /\ e \in Entry
        BY <1>t, <2>1, <2>2, <3>1, <3>2, <4>1, SavingFacts
      <4> QED BY <4>2, AppendProperties, LenProperties
    <3>5. PICK f : f = Append(d, e)
      OBVIOUS
    <3>6. Restorable'
      <4> SUFFICES ASSUME NEW r \in Refs \ failed
                   PROVE  /\ (\A n \in DOMAIN f : f[n].ref # r) => creds'[r] = saving.origin[r]
                          /\ \A n \in DOMAIN f :
                               f[n].ref = r /\ (\A m \in 1 .. n - 1 : f[m].ref # r) => f[n].was = saving.origin[r]
        BY <2>1, <3>3, <3>5 DEF Restorable
      <4>1. /\ (\A n \in DOMAIN d : d[n].ref # r) => creds[r] = saving.origin[r]
            /\ \A n \in DOMAIN d : d[n].ref = r /\ (\A m \in 1 .. n - 1 : d[m].ref # r) => d[n].was = saving.origin[r]
        BY <1>t, <2>1, <3>1 DEF Restorable
      <4>2. ASSUME \A n \in DOMAIN f : f[n].ref # r
            PROVE  creds'[r] = saving.origin[r]
        <5>1. \A n \in DOMAIN d : d[n].ref # r
          BY <3>4, <3>5, <4>2
        <5>2. c.ref # r
          BY <3>2, <3>4, <3>5, <4>2
        <5> QED BY <1>t, <2>2, <2>4, <4>1, <5>1, <5>2
      <4>3. ASSUME NEW n \in DOMAIN f, f[n].ref = r, \A m \in 1 .. n - 1 : f[m].ref # r
            PROVE  f[n].was = saving.origin[r]
        <5>1. CASE n \in DOMAIN d
          BY <3>4, <3>5, <4>1, <4>3, <5>1
        <5>2. CASE n = Len(d) + 1
          <6>1. \A m \in DOMAIN d : d[m].ref # r
            BY <3>4, <3>5, <4>3, <5>2
          <6>2. f[n] = e
            BY <3>4, <3>5, <5>2
          <6> QED BY <3>2, <4>1, <4>3, <6>1, <6>2
        <5> QED BY <3>4, <3>5, <5>1, <5>2
      <4> QED BY <4>2, <4>3
    <3> QED BY <1>n, <3>6 DEF RestoreInv
  <2> QED BY <2>2, <2>3, <2>4
<1>6. CASE Commit
  <2>1. saving # None /\ saving \in SaveRecord /\ UNCHANGED <<creds, failed>>
    BY <1>6, <1>t, SavingFacts DEF Commit, Doing
  <2>2. \/ saving' = [saving EXCEPT !.step = "rollback"]
        \/ saving' = [saving EXCEPT !.step = "cleanup", !.obsolete = Unneeded(targets')]
    BY <1>6 DEF Commit, Proceeds
  <2>3. saving.step = "write" /\ saving'.done = saving.done /\ saving'.origin = saving.origin
    BY <1>6, <2>1, <2>2 DEF SaveRecord, Commit, Doing
  <2> QED BY <1>n, <1>t, <2>1, <2>3 DEF RestoreInv, Restorable
<1>7. CASE RollBack
  <2>1. saving # None /\ saving \in SaveRecord /\ saving.step = "rollback"
    BY <1>7, <1>t, SavingFacts DEF RollBack, Doing
  <2>2. CASE saving' = None
    BY <1>n, <2>2 DEF RestoreInv, Restorable
  <2>3. CASE saving' # None
    <3>1. PICK d : d = saving.done
      OBVIOUS
    <3>2. /\ d # <<>>
          /\ \/ creds' = [creds EXCEPT ![d[Len(d)].ref] = d[Len(d)].was] /\ UNCHANGED failed
             \/ failed' = failed \cup {d[Len(d)].ref} /\ UNCHANGED creds
          /\ saving' = [saving EXCEPT !.done = SubSeq(d, 1, Len(d) - 1)]
      BY <1>7, <2>3, <3>1 DEF RollBack, Fails
    <3>3. PICK l \in Nat \ {0} : l = Len(d)
      BY <1>t, <2>1, <3>1, <3>2, DoneFacts
    <3>4. PICK f : f = SubSeq(d, 1, Len(d) - 1)
      OBVIOUS
    <3>5. /\ DOMAIN d = 1 .. l /\ DOMAIN f = 1 .. l - 1
          /\ \A n \in 1 .. l - 1 : f[n] = d[n]
          /\ d[l].ref \in Refs
      <4>1. f \in Seq([ref : Refs, was : Secrets \cup {None}]) /\ Len(f) = l - 1 /\ \A n \in 1 .. l - 1 : f[n] = d[n]
        BY <1>t, <2>1, <3>1, <3>2, <3>3, <3>4, DoneFacts
      <4>2. DOMAIN f = 1 .. l - 1
        BY <4>1, LenProperties
      <4> QED BY <1>t, <2>1, <3>1, <3>3, <4>1, <4>2, DoneRefs
    <3>6. saving'.done = f /\ saving'.origin = saving.origin /\ saving'.step = "rollback"
      BY <2>1, <3>2, <3>4 DEF SaveRecord
    <3>7. Restorable'
      <4> SUFFICES ASSUME NEW r \in Refs \ failed'
                   PROVE  /\ (\A n \in DOMAIN f : f[n].ref # r) => creds'[r] = saving.origin[r]
                          /\ \A n \in DOMAIN f :
                               f[n].ref = r /\ (\A m \in 1 .. n - 1 : f[m].ref # r) => f[n].was = saving.origin[r]
        BY <3>6 DEF Restorable
      <4>1. r \in Refs \ failed
        BY <3>2
      <4>2. /\ (\A n \in DOMAIN d : d[n].ref # r) => creds[r] = saving.origin[r]
            /\ \A n \in DOMAIN d : d[n].ref = r /\ (\A m \in 1 .. n - 1 : d[m].ref # r) => d[n].was = saving.origin[r]
        BY <1>t, <2>1, <3>1, <4>1 DEF Restorable
      <4>3. ASSUME \A n \in DOMAIN f : f[n].ref # r
            PROVE  creds'[r] = saving.origin[r]
        <5>1. \A m \in 1 .. l - 1 : d[m].ref # r
          BY <3>5, <4>3
        <5>2. CASE d[l].ref = r
          <6>1. d[l].was = saving.origin[r]
            BY <3>5, <4>2, <5>1, <5>2
          <6>2. creds' = [creds EXCEPT ![d[l].ref] = d[l].was]
            BY <3>2, <3>3, <5>2
          <6> QED BY <1>t, <4>1, <5>2, <6>1, <6>2
        <5>3. CASE d[l].ref # r
          <6>1. \A m \in DOMAIN d : d[m].ref # r
            BY <3>5, <5>1, <5>3
          <6>2. creds'[r] = creds[r]
            BY <1>t, <3>2, <3>3, <4>1, <5>3
          <6> QED BY <4>2, <6>1, <6>2
        <5> QED BY <5>2, <5>3
      <4>4. ASSUME NEW n \in DOMAIN f, f[n].ref = r, \A m \in 1 .. n - 1 : f[m].ref # r
            PROVE  f[n].was = saving.origin[r]
        <5>1. n \in DOMAIN d /\ d[n] = f[n] /\ \A m \in 1 .. n - 1 : d[m].ref # r
          BY <3>5, <4>4
        <5> QED BY <4>2, <4>4, <5>1
      <4> QED BY <4>3, <4>4
    <3> QED BY <1>n, <3>7 DEF RestoreInv
  <2> QED BY <2>2, <2>3
<1>8. CASE CleanUp
  <2>1. saving' = None \/ saving'.step = "cleanup"
    <3>1. saving # None /\ saving \in SaveRecord /\ saving.step = "cleanup"
      BY <1>8, <1>t, SavingFacts DEF CleanUp, Doing
    <3> QED BY <1>8, <3>1 DEF CleanUp, SaveRecord
  <2> QED BY <1>n, <2>1 DEF RestoreInv, Restorable
<1>9. CASE UNCHANGED vars
  BY <1>n, <1>t, <1>9 DEF vars, RestoreInv, Restorable
<1> QED BY <1>1, <1>2, <1>3, <1>4, <1>5, <1>6, <1>7, <1>8, <1>9 DEF Next

\* Theorem: when a failed save has undone what it recorded, each credential is
\* as the save found it, unless the store refused it now or earlier, also when
\* two targets have the same reference (rollbackSecretWrites, in reverse).
THEOREM FailedSavesRestore == Spec => []FailedSaveRestores
<1>1. Init => RestoreInv
  BY StoreInvInit DEF Init, RestoreInv, Restorable
<1>2. RestoreInv => FailedSaveRestores
  <2> SUFFICES ASSUME RestoreInv, Doing("rollback"), saving.done = <<>>, NEW r \in Refs \ failed
               PROVE  creds[r] = saving.origin[r]
    BY DEF FailedSaveRestores
  <2>1. DOMAIN saving.done = {}
    OBVIOUS
  <2> QED BY <2>1 DEF RestoreInv, Restorable, Doing
<1> QED BY <1>1, <1>2, RestoreInvNext, PTL DEF Spec

-----------------------------------------------------------------------------
(* References resolve. *)

\* A login that the publisher manages has no credentials of its own in a target
\* that has the id of an earlier one: what loading stages for such a target is
\* not undone if the save of it fails.
LoginsOfDuplicates(f) ==
  f \in Settings => \A i \in Duplicates(f) : f[i].managed => f[i].cred["oauth"] = NoCredential

\* The references of G are those the invariant is about.  If they are not only
\* foreign ones, the file must have no such duplicates.
Loadable(G, f) == G \cap Owned = {} \/ LoginsOfDuplicates(f)

Resolve(G, S) == \A r \in G \cap RefsIn(S) : creds[r] # None

\* Between saves, and while a save cleans up, what the targets name is stored.
\* Before that, what the file and the targets named before is, and is put back
\* as it was if the save fails; the targets name nothing else but what the save
\* has written already, or has to.
ResolveInv(G) ==
  /\ Loadable(G, file)
  /\ \A r \in G \cap RefsOf(file) : creds[r] # None
  /\ Duplicates(targets) = {}
  /\ saving = None => Resolve(G, targets)
  /\ saving # None /\ saving.step = "cleanup" =>
       /\ Resolve(G, targets)
       /\ saving.obsolete \subseteq Owned \ RefsIn(targets)
       /\ RefsOf(file) = RefsIn(targets)
  /\ saving # None /\ saving.step # "cleanup" =>
       /\ Duplicates(saving.old) = {}
       /\ Resolve(G, saving.old)
       /\ \A n \in DOMAIN saving.done :
            /\ saving.done[n].ref \in Owned \cup RefsIn(saving.old)
            /\ saving.done[n].ref \in G \cap (RefsIn(saving.old) \cup RefsOf(file)) => saving.done[n].was # None
       /\ \A p \in Positions(targets) :
            /\ At(targets, p).ref \in Owned \cup RefsIn(saving.old) \cup {None}
            /\ At(targets, p).secret = None /\ At(targets, p).ref \in G => At(targets, p).ref \in RefsIn(saving.old)
            /\ saving.step # "rollback" /\ At(targets, p).secret # None /\ p \notin saving.todo
                 => creds[At(EnsureRefs(targets), p).ref] # None

\* Loading gives each target an id of its own.
LEMMA LoadedIds ==
  ASSUME NEW S \in Settings, NEW new, NEW R, Renames(S, new),
         creds \in [Refs -> Secrets \cup {None}]
  PROVE  LET staged == Reassigned(S, new, R)
         IN  Duplicates(WithoutManaged(staged)) = {} /\ Duplicates(Unmigrated(S, staged)) = {}
<1>1. PICK staged : staged = Reassigned(S, new, R)
  OBVIOUS
<1>2. /\ staged \in Settings /\ DOMAIN staged = DOMAIN S
      /\ \A i \in DOMAIN S \ Duplicates(S) : staged[i].id = S[i].id
      /\ \A i \in Duplicates(S) : staged[i].id = new[i]
  BY <1>1, ReassignedFacts
<1>3. PICK n \in Nat : S \in [1 .. n -> Target]
  BY SettingsAreFunctions
<1>4. Duplicates(staged) = {}
  <2> SUFFICES ASSUME NEW i \in DOMAIN S, NEW j \in 1 .. i - 1, staged[j].id = staged[i].id
               PROVE  FALSE
    BY <1>2 DEF Duplicates
  <2>1. i \in 1 .. n /\ j \in 1 .. n /\ j \in DOMAIN S /\ j # i
    BY <1>3
  <2>2. CASE i \in Duplicates(S) /\ j \in Duplicates(S)
    BY <1>2, <2>1, <2>2 DEF Renames
  <2>3. CASE i \in Duplicates(S) /\ j \notin Duplicates(S)
    BY <1>2, <2>1, <2>3 DEF Renames
  <2>4. CASE i \notin Duplicates(S) /\ j \in Duplicates(S)
    BY <1>2, <2>1, <2>4 DEF Renames
  <2>5. CASE i \notin Duplicates(S) /\ j \notin Duplicates(S)
    BY <1>2, <2>1, <2>5 DEF Duplicates
  <2> QED BY <2>2, <2>3, <2>4, <2>5
<1>5. /\ DOMAIN WithoutManaged(staged) = DOMAIN staged
      /\ \A i \in DOMAIN staged : WithoutManaged(staged)[i].id = staged[i].id
  BY <1>2, WithoutManagedFacts
<1>6. /\ DOMAIN Unmigrated(S, staged) = DOMAIN staged
      /\ \A i \in DOMAIN staged : Unmigrated(S, staged)[i].id = staged[i].id
  BY <1>2, UnmigratedFacts
<1>7. Duplicates(WithoutManaged(staged)) = {}
  BY <1>2, <1>4, <1>5, SameIds
<1>8. Duplicates(Unmigrated(S, staged)) = {}
  BY <1>2, <1>4, <1>6, SameIds
<1> QED BY <1>1, <1>7, <1>8

\* What loading saves names what the file did, and references it has made; what
\* it puts back if that fails names only what the file did.
LEMMA LoadedRefs ==
  ASSUME NEW S \in Settings, NEW new, NEW R, Renames(S, new),
         creds \in [Refs -> Secrets \cup {None}],
         NEW G \in SUBSET Refs, Loadable(G, S)
  PROVE  LET staged == Reassigned(S, new, R)
             old    == Unmigrated(S, staged)
         IN  /\ G \cap RefsIn(old) \subseteq RefsIn(S)
             /\ \A i \in DOMAIN WithoutManaged(staged), k \in Kinds :
                  LET c == WithoutManaged(staged)[i].cred[k]
                  IN  /\ c.ref \in Owned \cup RefsIn(old) \cup {None}
                      /\ c.secret = None => c.ref \in RefsIn(old) \cup {None}
<1>1. PICK staged : staged = Reassigned(S, new, R)
  OBVIOUS
<1>2. PICK old : old = Unmigrated(S, staged)
  OBVIOUS
<1>3. PICK new_ : new_ = WithoutManaged(staged)
  OBVIOUS
<1>4. /\ staged \in Settings /\ DOMAIN staged = DOMAIN S
      /\ \A i \in DOMAIN S \ Duplicates(S) : staged[i] = S[i]
      /\ \A i \in Duplicates(S) :
           /\ staged[i].managed = S[i].managed
           /\ \A k \in Kinds : staged[i].cred[k] = Staged(S[i].cred[k], Own(k, new[i]), <<i, k>> \in R)
  BY <1>1, ReassignedFacts
<1>5. /\ DOMAIN old = DOMAIN S
      /\ \A i \in DOMAIN S, k \in Kinds :
           old[i].cred[k] = IF k = "oauth" /\ i \in PublisherManaged(staged) THEN staged[i].cred[k] ELSE S[i].cred[k]
  BY <1>2, <1>4, UnmigratedFacts
<1>6. /\ DOMAIN new_ = DOMAIN S
      /\ \A i \in DOMAIN S, k \in Kinds :
           new_[i].cred[k] = IF staged[i].managed /\ k = "oauth" THEN NoCredential ELSE staged[i].cred[k]
  BY <1>3, <1>4, WithoutManagedFacts
<1>7. ASSUME NEW i \in DOMAIN S, NEW k \in Kinds
      PROVE  /\ S[i].cred[k] \in Credential
             /\ staged[i].cred[k].ref \in Owned \cup {S[i].cred[k].ref}
             /\ staged[i].cred[k].secret = None => staged[i].cred[k] = S[i].cred[k]
             /\ S[i].cred[k] = NoCredential => staged[i].cred[k] = NoCredential
  <2>1. PICK c \in Credential : c = S[i].cred[k]
    BY SettingsFacts
  <2>2. CASE i \notin Duplicates(S)
    BY <1>4, <2>1, <2>2
  <2>3. CASE i \in Duplicates(S)
    <3>1. new[i] \in Ids
      BY <2>3 DEF Renames
    <3>2. PICK d : d = Staged(c, Own(k, new[i]), <<i, k>> \in R)
      OBVIOUS
    <3>3. d.ref \in Owned \cup {c.ref} /\ (d.secret = None => d = c) /\ (c = NoCredential => d = c)
      BY <3>1, <3>2, StagedFacts
    <3> QED BY <1>4, <2>1, <2>3, <3>2, <3>3
  <2> QED BY <2>2, <2>3
<1>8. ASSUME NEW r \in G, r \in RefsIn(old)
      PROVE  r \in RefsIn(S)
  <2>1. PICK i \in DOMAIN S, k \in Kinds : r # None /\ old[i].cred[k].ref = r
    BY <1>5, <1>8, RefsInFacts
  <2>2. CASE old[i].cred[k] = S[i].cred[k]
    BY <2>1, <2>2, RefsInFacts
  <2>3. CASE old[i].cred[k] # S[i].cred[k]
    <3>1. k = "oauth" /\ i \in PublisherManaged(staged) /\ old[i].cred[k] = staged[i].cred[k]
      BY <1>5, <2>3
    <3>2. i \in Duplicates(S) /\ S[i].managed
      BY <1>4, <2>3, <3>1 DEF PublisherManaged
    <3>3. staged[i].cred[k] # NoCredential
      BY <3>1 DEF PublisherManaged
    <3>4. S[i].cred["oauth"] # NoCredential
      BY <1>7, <3>1, <3>3
    <3>5. ~LoginsOfDuplicates(S)
      BY <3>2, <3>4 DEF LoginsOfDuplicates
    <3>6. r \notin Owned
      BY <3>5, <1>8 DEF Loadable
    <3>7. r = S[i].cred[k].ref
      BY <1>7, <2>1, <3>1, <3>6
    <3> QED BY <2>1, <3>7, RefsInFacts
  <2> QED BY <2>2, <2>3
<1>9. ASSUME NEW i \in DOMAIN new_, NEW k \in Kinds
      PROVE  /\ new_[i].cred[k].ref \in Owned \cup RefsIn(old) \cup {None}
             /\ new_[i].cred[k].secret = None => new_[i].cred[k].ref \in RefsIn(old) \cup {None}
  <2>1. i \in DOMAIN S
    BY <1>6
  <2>2. CASE staged[i].managed /\ k = "oauth"
    BY <1>6, <2>1, <2>2 DEF NoCredential
  <2>3. CASE ~(staged[i].managed /\ k = "oauth")
    <3>1. new_[i].cred[k] = staged[i].cred[k]
      BY <1>6, <2>1, <2>3
    <3>2. old[i].cred[k] = S[i].cred[k]
      BY <1>5, <2>1, <2>3 DEF PublisherManaged
    <3>3. S[i].cred[k].ref \in RefsIn(old) \cup {None}
      BY <1>5, <2>1, <3>2, RefsInFacts
    <3> QED BY <1>7, <2>1, <3>1, <3>3
  <2> QED BY <2>2, <2>3
<1> QED BY <1>1, <1>2, <1>3, <1>8, <1>9

LEMMA RefsOfFacts ==
  /\ \A S \in Settings : RefsOf(S) = RefsIn(S)
  /\ RefsOf(None) = {}
  /\ \A f \in Files : RefsOf(f) \subseteq Refs
<1>1. \A S \in Settings : RefsOf(S) = RefsIn(S)
  BY StoreAssumption DEF RefsOf
<1>2. \A S \in Settings : RefsIn(S) \subseteq Refs
  BY RefsInTypes
<1> QED BY <1>1, <1>2 DEF RefsOf, Files

\* A place in a list, by position and kind.
LEMMA AtFacts ==
  ASSUME NEW S, NEW p \in Positions(S)
  PROVE  \E i \in DOMAIN S, k \in Kinds : p = <<i, k>> /\ At(S, p) = S[i].cred[k]
BY DEF Positions, At

LEMMA AtRefs ==
  ASSUME NEW S, NEW p \in Positions(S), At(S, p).ref # None
  PROVE  At(S, p).ref \in RefsIn(S)
BY DEF RefsIn

\* The reference under which a credential is written.
LEMMA EnsuredFacts ==
  ASSUME NEW S \in Settings, NEW p \in Positions(S)
  PROVE  /\ At(S, p) \in Credential /\ At(EnsureRefs(S), p) \in Credential
         /\ At(EnsureRefs(S), p).ref \in Owned \cup {At(S, p).ref}
         /\ At(S, p).secret = None => At(EnsureRefs(S), p) = At(S, p)
         /\ Positions(EnsureRefs(S)) = Positions(S)
<1>1. PICK i \in DOMAIN S, k \in Kinds : p = <<i, k>> /\ At(S, p) = S[i].cred[k]
  BY AtFacts
<1>2. PICK c \in Credential : c = S[i].cred[k]
  BY SettingsFacts
<1>3. EnsureRefs(S)[i].cred[k] = Ensured(c, Own(k, S[i].id)) /\ DOMAIN EnsureRefs(S) = DOMAIN S
  BY <1>2, EnsureRefsFacts
<1>4. Own(k, S[i].id) \in Owned
  BY SettingsFacts DEF Own, Owned
<1>5. PICK e : e = Ensured(c, Own(k, S[i].id))
  OBVIOUS
<1>6. e \in Credential /\ e.ref \in Owned \cup {c.ref} /\ (c.secret = None => e = c)
  BY <1>4, <1>5 DEF Ensured, Credential, Refs
<1>7. At(EnsureRefs(S), p) = e
  BY <1>1, <1>3, <1>5 DEF At
<1>8. Positions(EnsureRefs(S)) = Positions(S)
  BY <1>3 DEF Positions
<1> QED BY <1>1, <1>2, <1>6, <1>7, <1>8

\* A save may begin if what it puts back when it fails is stored, and what it
\* saves has no reference that is not put back or new.
LEMMA SavesKeepResolve ==
  ASSUME StoreInv, saving = None,
         NEW G \in SUBSET Refs, Loadable(G, file), \A r \in G \cap RefsOf(file) : creds[r] # None,
         NEW S \in Settings, NEW old \in Settings,
         NEW P \in SUBSET (Nat \X Kinds), NEW R \in SUBSET Refs,
         Saves(S, old, P, R), UNCHANGED disk,
         Duplicates(S) = {}, Duplicates(old) = {}, Resolve(G, old),
         \A i \in DOMAIN S, k \in Kinds :
           /\ S[i].cred[k].ref \in Owned \cup RefsIn(old) \cup {None}
           /\ S[i].cred[k].secret = None => S[i].cred[k].ref \in RefsIn(old) \cup {None}
  PROVE  ResolveInv(G)'
<1>1. Loadable(G, file') /\ \A r \in G \cap RefsOf(file') : creds'[r] # None
  BY DEF disk
<1>2. Resolve(G, old)'
  BY DEF Resolve, disk
<1>3. CASE saveBlocked
  <2>1. targets' = old /\ saving' = None
    BY <1>3, SavesFacts
  <2> QED BY <1>1, <1>2, <2>1, ZenonT(60) DEF ResolveInv, Resolve, RefsIn, Positions, At
<1>4. CASE ~saveBlocked
  <2>1. /\ targets' = S /\ saving' # None /\ saving'.step = "backup" /\ saving'.old = old /\ saving'.done = <<>>
        /\ saving'.todo = WithSecret(S)
    BY <1>4, SavesFacts
  <2>2. ASSUME NEW p \in Positions(S)
        PROVE  /\ At(S, p).ref \in Owned \cup RefsIn(old) \cup {None}
               /\ At(S, p).secret = None /\ At(S, p).ref \in G => At(S, p).ref \in RefsIn(old)
    <3>1. PICK i \in DOMAIN S, k \in Kinds : At(S, p) = S[i].cred[k]
      BY AtFacts
    <3>2. None \notin G
      BY StoreAssumption
    <3> QED BY <3>1, <3>2
  <2>3. DOMAIN saving'.done = {}
    BY <2>1
  <2>4. Duplicates(targets') = {} /\ Duplicates(saving'.old) = {}
    BY <2>1
  <2>5. \A p \in Positions(targets') :
          /\ At(targets', p).ref \in Owned \cup RefsIn(saving'.old) \cup {None}
          /\ At(targets', p).secret = None /\ At(targets', p).ref \in G => At(targets', p).ref \in RefsIn(saving'.old)
    BY <2>1, <2>2
  <2>6. \A r \in G \cap RefsIn(saving'.old) : creds'[r] # None
    BY <1>2, <2>1 DEF Resolve
  <2>7. \A p \in Positions(targets') : At(targets', p).secret # None => p \in saving'.todo
    BY <2>1 DEF WithSecret
  <2> QED BY <1>1, <2>1, <2>3, <2>4, <2>5, <2>6, <2>7 DEF ResolveInv, Resolve
<1> QED BY <1>3, <1>4

\* If nothing is being saved before and after, and the file and the store stay,
\* the targets may become anything that names no more than they or the file did.
LEMMA QuietStep ==
  ASSUME StoreInv, NEW G \in SUBSET Refs, ResolveInv(G), saving' = None, UNCHANGED disk,
         NEW T, targets' = T, Duplicates(T) = {}, Resolve(G, T)
  PROVE  ResolveInv(G)'
BY DEF ResolveInv, Resolve, disk

LEMMA ResolveInvNext ==
  ASSUME NEW G \in SUBSET Refs, StoreInv, ResolveInv(G), [Next]_vars
  PROVE  ResolveInv(G)'
<1>t. TypeOK /\ Protected /\ creds \in [Refs -> Secrets \cup {None}] /\ targets \in Settings
  BY DEF StoreInv, TypeOK
<1>1. CASE AddTarget \/ MutateTargetForUi \/ RemoveTarget \/ Save
  <2>1. saving = None /\ UNCHANGED disk
    BY <1>1, <1>t, EditsSave DEF Idle
  <2>2. PICK S \in Settings, P \in SUBSET (Nat \X Kinds), R \in SUBSET Refs :
          /\ Saves(S, targets, P, R) /\ RefsIn(S) \subseteq RefsIn(targets)
          /\ Duplicates(targets) = {} => Duplicates(S) = {}
    BY <1>1, <1>t, EditsSave
  <2>3. /\ Loadable(G, file) /\ \A r \in G \cap RefsOf(file) : creds[r] # None
        /\ Duplicates(targets) = {} /\ Resolve(G, targets)
    BY <2>1 DEF ResolveInv
  <2>4. \A i \in DOMAIN S, k \in Kinds :
          /\ S[i].cred[k].ref \in Owned \cup RefsIn(targets) \cup {None}
          /\ S[i].cred[k].secret = None => S[i].cred[k].ref \in RefsIn(targets) \cup {None}
    BY <2>2, RefsInFacts
  <2> QED BY <1>t, <2>1, <2>2, <2>3, <2>4, SavesKeepResolve
<1>2. CASE LoadSettings
  <2>1. /\ saving = None /\ UNCHANGED disk /\ file \in Settings
        /\ Loadable(G, file) /\ \A r \in G \cap RefsIn(file) : creds[r] # None
    BY <1>2, <1>t, LoadSaves, RefsOfFacts DEF Starts, Protected, ResolveInv
  <2>2. CASE Duplicates(file) = {} /\ targets' = file /\ UNCHANGED saving
    <3>1. PICK T : T = file
      OBVIOUS
    <3>2. Resolve(G, T) /\ Duplicates(T) = {} /\ targets' = T /\ saving' = None
      BY <2>1, <2>2, <3>1 DEF Resolve
    <3> QED BY <2>1, <3>2, QuietStep
  <2>3. CASE ~(Duplicates(file) = {} /\ targets' = file /\ UNCHANGED saving)
    <3>1. PICK new, T : \E staged \in Settings, S \in Settings, old \in Settings,
                           P \in SUBSET (Nat \X Kinds), R \in SUBSET Refs :
            /\ Renames(file, new) /\ staged = Reassigned(file, new, T)
            /\ S = WithoutManaged(staged) /\ old = Unmigrated(file, staged)
            /\ Saves(S, old, P, R)
      BY <1>2, <1>t, <2>3, LoadSaves
    <3>2. PICK staged \in Settings, S \in Settings, old \in Settings, P \in SUBSET (Nat \X Kinds), R \in SUBSET Refs :
            /\ Renames(file, new) /\ staged = Reassigned(file, new, T)
            /\ S = WithoutManaged(staged) /\ old = Unmigrated(file, staged)
            /\ Saves(S, old, P, R)
      BY <3>1
    <3>3. Duplicates(S) = {} /\ Duplicates(old) = {}
      BY <1>t, <2>1, <3>2, LoadedIds
    <3>4. /\ G \cap RefsIn(old) \subseteq RefsIn(file)
          /\ \A i \in DOMAIN S, k \in Kinds :
               /\ S[i].cred[k].ref \in Owned \cup RefsIn(old) \cup {None}
               /\ S[i].cred[k].secret = None => S[i].cred[k].ref \in RefsIn(old) \cup {None}
      BY <1>t, <2>1, <3>2, LoadedRefs
    <3>5. Resolve(G, old)
      BY <2>1, <3>4 DEF Resolve
    <3>6. \A r \in G \cap RefsOf(file) : creds[r] # None
      BY DEF ResolveInv
    <3> QED BY <2>1, <3>2, <3>3, <3>4, <3>5, <3>6, SavesKeepResolve
  <2> QED BY <2>2, <2>3
<1>3. CASE NoFile \/ LoadsNothing \/ Stops
  <2>1. targets' = <<>> /\ saving' = None /\ UNCHANGED disk
    BY <1>3, <1>t DEF NoFile, LoadsNothing, Stops, Starts, Protected
  <2>2. Resolve(G, <<>>)
    BY NoTargets DEF Resolve
  <2> QED BY <2>1, <2>2, NoTargets, QuietStep
<1>4. CASE QuarantineInvalidSettings
  <2>1. targets' = <<>> /\ saving' = None /\ UNCHANGED creds /\ (file' = file \/ file' = None)
    BY <1>4, <1>t DEF QuarantineInvalidSettings, Starts, Protected
  <2>2. Loadable(G, file')
    BY <2>1, StoreAssumption DEF ResolveInv, Loadable, LoginsOfDuplicates
  <2>3. \A r \in G \cap RefsOf(file') : creds'[r] # None
    BY <2>1, RefsOfFacts DEF ResolveInv
  <2> QED BY <2>1, <2>2, <2>3, NoTargets DEF ResolveInv, Resolve
<1>5. CASE HydrateTargetSecrets
  <2>1. Idle /\ UNCHANGED <<disk, saving>>
    BY <1>5 DEF HydrateTargetSecrets
  <2>2. PICK i \in DOMAIN targets, K \in {{"key"}, Kinds} :
          targets' = [targets EXCEPT ![i].cred =
                        [k \in Kinds |-> IF k \in K THEN Hydrated(targets[i].cred[k]) ELSE targets[i].cred[k]]]
    BY <1>5 DEF HydrateTargetSecrets
  <2>3. PICK c : c = [k \in Kinds |-> IF k \in K THEN Hydrated(targets[i].cred[k]) ELSE targets[i].cred[k]]
    OBVIOUS
  <2>4. c \in [Kinds -> Credential] /\ \A k \in Kinds : c[k].ref = targets[i].cred[k].ref
    <3> SUFFICES ASSUME NEW k \in Kinds
                 PROVE  c[k] \in Credential /\ c[k].ref = targets[i].cred[k].ref
      BY <2>3
    <3>1. PICK d \in Credential : d = targets[i].cred[k]
      BY <1>t, SettingsFacts
    <3>2. Hydrated(d) \in Credential /\ Hydrated(d).ref = d.ref
      BY <1>t DEF Hydrated, Credential, Refs
    <3> QED BY <2>3, <3>1, <3>2
  <2>5. PICK T : T = targets'
    OBVIOUS
  <2>6. /\ DOMAIN T = DOMAIN targets /\ \A j \in DOMAIN targets : j # i => T[j] = targets[j]
        /\ T[i].id = targets[i].id /\ T[i].cred = c
    BY <1>t, <2>2, <2>3, <2>4, <2>5, ExceptCredFacts
  <2>7. RefsIn(T) = RefsIn(targets)
    BY <2>4, <2>6, SameRefs
  <2>8. Duplicates(T) = {}
    BY <1>t, <2>6, SameIds DEF ResolveInv
  <2>9. Resolve(G, T)
    BY <2>1, <2>7 DEF ResolveInv, Resolve, Idle
  <2> QED BY <2>1, <2>5, <2>8, <2>9, QuietStep DEF Idle
<1>6. CASE BackUp
  <2>1. /\ saving # None /\ saving \in SaveRecord /\ saving.step = "backup"
        /\ UNCHANGED <<file, creds>>
        /\ \/ targets' = saving.old /\ saving' = None
           \/ saving' = [saving EXCEPT !.step = "write"] /\ UNCHANGED targets
    BY <1>6, <1>t, SavingFacts DEF BackUp, Doing, Fails, Proceeds
  <2>2. CASE targets' = saving.old /\ saving' = None
    BY <2>1, <2>2 DEF ResolveInv, Resolve
  <2>3. CASE saving' = [saving EXCEPT !.step = "write"] /\ UNCHANGED targets
    <3>1. saving'.step = "write" /\ saving'.old = saving.old /\ saving'.done = saving.done
          /\ saving'.todo = saving.todo /\ saving' # None
      BY <2>1, <2>3, StoreAssumption DEF SaveRecord
    <3> QED BY <2>1, <2>3, <3>1 DEF ResolveInv, Resolve
  <2> QED BY <2>1, <2>2, <2>3
<1>7. CASE WriteCredential
  <2>1. saving # None /\ saving \in SaveRecord /\ saving.step = "write" /\ UNCHANGED <<file, targets>>
        /\ saving.old \in Settings /\ saving.todo \subseteq WithSecret(targets)
    BY <1>7, <1>t, SavingFacts DEF WriteCredential, Doing
  <2>2. PICK p \in saving.todo, c \in Credential :
          /\ c = At(EnsureRefs(targets), p)
          /\ c.ref \in Refs /\ c.secret \in Secrets
          /\ \/ saving' = [saving EXCEPT !.todo = @ \ {p}] /\ UNCHANGED creds /\ creds[c.ref] = c.secret
             \/ /\ creds' = [creds EXCEPT ![c.ref] = c.secret]
                /\ saving' = [saving EXCEPT !.todo = @ \ {p},
                                            !.done = Append(@, [ref |-> c.ref, was |-> creds[c.ref]])]
             \/ Proceeds("rollback") /\ UNCHANGED creds
    BY <1>7, <1>t, WriteCredentialFacts
  <2>3. CASE saving' = [saving EXCEPT !.todo = @ \ {p}] /\ UNCHANGED creds /\ creds[c.ref] = c.secret
    <3>1. /\ saving' # None /\ saving'.step = "write" /\ saving'.old = saving.old /\ saving'.done = saving.done
          /\ saving'.todo = saving.todo \ {p}
      BY <2>1, <2>3, StoreAssumption DEF SaveRecord
    <3>2. creds[At(EnsureRefs(targets), p).ref] # None
      BY <2>2, <2>3, StoreAssumption
    <3> QED BY <2>1, <2>3, <3>1, <3>2 DEF ResolveInv, Resolve
  <2>4. CASE /\ creds' = [creds EXCEPT ![c.ref] = c.secret]
             /\ saving' = [saving EXCEPT !.todo = @ \ {p},
                                         !.done = Append(@, [ref |-> c.ref, was |-> creds[c.ref]])]
    <3>1. PICK d, e : d = saving.done /\ e = [ref |-> c.ref, was |-> creds[c.ref]]
      OBVIOUS
    <3>2. /\ saving'.step = "write" /\ saving'.old = saving.old /\ saving'.done = Append(d, e)
          /\ saving'.todo = saving.todo \ {p}
      BY <2>1, <2>4, <3>1 DEF SaveRecord
    <3>3. saving' # None
      BY <1>7, <1>t, WriteCredentialFacts
    <3>4. \A r \in Refs : creds[r] # None => creds'[r] # None
      BY <1>t, <2>2, <2>4, StoreAssumption
    <3>5. creds'[At(EnsureRefs(targets), p).ref] # None
      BY <1>t, <2>2, <2>4, StoreAssumption
    <3>6. \A n \in DOMAIN Append(d, e) : Append(d, e)[n] = e \/ (n \in DOMAIN d /\ Append(d, e)[n] = d[n])
      <4>1. PICK Entry : Entry = [ref : Refs, was : Secrets \cup {None}]
        OBVIOUS
      <4>2. d \in Seq(Entry) /\ e \in Entry
        BY <1>t, <2>1, <2>2, <3>1, <4>1, SavingFacts
      <4>3. /\ Append(d, e) \in Seq(Entry) /\ Len(Append(d, e)) = Len(d) + 1 /\ Append(d, e)[Len(d) + 1] = e
            /\ \A n \in 1 .. Len(d) : Append(d, e)[n] = d[n]
            /\ Len(d) \in Nat /\ DOMAIN d = 1 .. Len(d)
        BY <4>2, AppendProperties, LenProperties
      <4>4. DOMAIN Append(d, e) = 1 .. Len(d) + 1
        BY <4>3, LenProperties
      <4> QED BY <4>3, <4>4
    <3>7. e.ref \in Owned \cup RefsIn(saving.old)
      <4>1. p \in Positions(targets)
        BY <2>1 DEF WithSecret
      <4>2. c.ref \in Owned \cup {At(targets, p).ref}
        BY <1>t, <2>2, <4>1, EnsuredFacts
      <4>3. At(targets, p).ref \in Owned \cup RefsIn(saving.old) \cup {None}
        BY <2>1, <4>1 DEF ResolveInv
      <4>4. c.ref # None
        BY <2>2, StoreAssumption
      <4> QED BY <3>1, <4>2, <4>3, <4>4
    <3>8. e.ref \in G \cap (RefsIn(saving.old) \cup RefsOf(file)) => e.was # None
      BY <2>1, <3>1 DEF ResolveInv, Resolve
    <3>9. /\ RefsIn(saving.old) \subseteq Refs /\ RefsOf(file) \subseteq Refs
          /\ \A q \in Positions(targets) : At(EnsureRefs(targets), q).ref \in Refs \/ At(targets, q).secret = None
      BY <1>t, <2>1, RefsInTypes, RefsOfFacts, ToWriteFacts DEF TypeOK, WithSecret
    <3>10. \A q \in Positions(targets) :
             /\ At(targets, q).ref \in Owned \cup RefsIn(saving.old) \cup {None}
             /\ At(targets, q).secret = None /\ At(targets, q).ref \in G => At(targets, q).ref \in RefsIn(saving.old)
             /\ At(targets, q).secret # None /\ q \notin saving.todo \ {p}
                  => creds'[At(EnsureRefs(targets), q).ref] # None
      BY <2>1, <3>4, <3>5, <3>9 DEF ResolveInv
    <3>11. \A n \in DOMAIN Append(d, e) :
             /\ Append(d, e)[n].ref \in Owned \cup RefsIn(saving.old)
             /\ Append(d, e)[n].ref \in G \cap (RefsIn(saving.old) \cup RefsOf(file)) => Append(d, e)[n].was # None
      BY <2>1, <3>1, <3>6, <3>7, <3>8 DEF ResolveInv
    <3>12. \A r \in G \cap (RefsIn(saving.old) \cup RefsOf(file)) : creds'[r] # None
      BY <2>1, <3>4, <3>9 DEF ResolveInv, Resolve
    <3> QED BY <2>1, <3>2, <3>3, <3>10, <3>11, <3>12 DEF ResolveInv, Resolve
  <2>5. CASE Proceeds("rollback") /\ UNCHANGED creds
    <3>1. saving' # None /\ saving'.step = "rollback" /\ saving'.old = saving.old /\ saving'.done = saving.done
      BY <2>1, <2>5, StoreAssumption DEF SaveRecord, Proceeds
    <3> QED BY <2>1, <2>5, <3>1 DEF ResolveInv, Resolve
  <2> QED BY <2>2, <2>3, <2>4, <2>5
<1>8. CASE Commit
  <2>1. saving # None /\ saving \in SaveRecord /\ saving.step = "write" /\ saving.todo = {} /\ UNCHANGED creds
        /\ saving.old \in Settings
    BY <1>8, <1>t, SavingFacts DEF Commit, Doing
  <2>2. CASE Proceeds("rollback") /\ UNCHANGED <<file, targets, known>>
    <3>1. saving' # None /\ saving'.step = "rollback" /\ saving'.old = saving.old /\ saving'.done = saving.done
      BY <2>1, <2>2, StoreAssumption DEF SaveRecord, Proceeds
    <3> QED BY <2>1, <2>2, <3>1 DEF ResolveInv, Resolve
  <2>3. CASE /\ file' = Content(targets) /\ targets' = Forget(EnsureRefs(targets), saving.forget)
             /\ saving' = [saving EXCEPT !.step = "cleanup", !.obsolete = Unneeded(targets')]
    <3>1. PICK E \in Settings : E = EnsureRefs(targets) /\ Duplicates(E) = {} /\ Positions(E) = Positions(targets)
      <4>1. Duplicates(EnsureRefs(targets)) = Duplicates(targets)
        BY <1>t, EnsureRefsFacts, SameIds
      <4>2. EnsureRefs(targets) \in Settings /\ DOMAIN EnsureRefs(targets) = DOMAIN targets
        BY <1>t, EnsureRefsFacts
      <4> QED BY <4>1, <4>2 DEF ResolveInv, Positions
    <3>2. /\ file' \in Settings /\ Duplicates(file') = {} /\ RefsOf(file') = RefsIn(E)
      <4>1. PICK F : F = Forget(E, Positions(targets))
        OBVIOUS
      <4>2. F \in Settings /\ RefsIn(F) = RefsIn(E) /\ Duplicates(F) = Duplicates(E)
        BY <3>1, <4>1, ForgetFacts, ForgetKeepsRefs, SameIds
      <4>3. file' = F
        BY <2>3, <3>1, <4>1 DEF Content
      <4> QED BY <3>1, <4>2, <4>3, RefsOfFacts
    <3>3. /\ RefsIn(targets') = RefsIn(E) /\ Duplicates(targets') = {}
      <4>1. PICK P : P = saving.forget
        OBVIOUS
      <4>2. PICK F : F = Forget(E, P)
        OBVIOUS
      <4>3. RefsIn(F) = RefsIn(E) /\ Duplicates(F) = Duplicates(E)
        BY <3>1, <4>2, ForgetFacts, ForgetKeepsRefs, SameIds
      <4> QED BY <2>3, <3>1, <4>1, <4>2, <4>3
    <3>4. saving' # None /\ saving'.step = "cleanup" /\ saving'.obsolete \subseteq Owned \ RefsIn(targets')
      <4>1. saving' \in SaveRecord /\ saving'.step = "cleanup" /\ saving'.obsolete = Unneeded(targets')
        BY <2>1, <2>3 DEF Unneeded, SaveRecord
      <4> QED BY <4>1, StoreAssumption DEF Unneeded
    <3>5. ASSUME NEW r \in G, r \in RefsIn(E)
          PROVE  creds[r] # None
      <4>1. PICK p \in Positions(targets) : r = At(E, p).ref
        BY <3>1, <3>5 DEF RefsIn
      <4>2. CASE At(targets, p).secret # None
        BY <2>1, <3>1, <4>1, <4>2 DEF ResolveInv
      <4>3. CASE At(targets, p).secret = None
        <5>1. r = At(targets, p).ref
          BY <1>t, <3>1, <4>1, <4>3, EnsuredFacts
        <5> QED BY <2>1, <4>1, <4>3, <5>1 DEF ResolveInv, Resolve
      <4> QED BY <4>2, <4>3
    <3>6. Loadable(G, file')
      BY <3>2 DEF Loadable, LoginsOfDuplicates
    <3> QED BY <2>1, <3>2, <3>3, <3>4, <3>5, <3>6 DEF ResolveInv, Resolve
  <2> QED BY <1>8, <2>2, <2>3 DEF Commit
<1>9. CASE RollBack
  <2>1. saving # None /\ saving \in SaveRecord /\ saving.step = "rollback" /\ saving.old \in Settings /\ UNCHANGED file
    BY <1>9, <1>t, SavingFacts DEF RollBack, Doing
  <2>2. CASE Fails /\ UNCHANGED creds
    BY <2>1, <2>2 DEF ResolveInv, Resolve, Fails
  <2>3. CASE ~(Fails /\ UNCHANGED creds)
    <3>1. PICK d : d = saving.done
      OBVIOUS
    <3>2. /\ d # <<>>
          /\ \/ creds' = [creds EXCEPT ![d[Len(d)].ref] = d[Len(d)].was]
             \/ UNCHANGED creds
          /\ saving' = [saving EXCEPT !.done = SubSeq(d, 1, Len(d) - 1)]
          /\ UNCHANGED targets
      BY <1>9, <2>3, <3>1 DEF RollBack
    <3>3. PICK f : f = SubSeq(d, 1, Len(d) - 1)
      OBVIOUS
    <3>4. /\ Len(d) \in DOMAIN d /\ d[Len(d)].ref \in Refs
          /\ DOMAIN f \subseteq DOMAIN d /\ \A n \in DOMAIN f : f[n] = d[n]
      <4>1. Len(d) \in Nat \ {0} /\ DOMAIN d = 1 .. Len(d)
        BY <1>t, <2>1, <3>1, <3>2, DoneFacts, DoneRefs
      <4>2. f \in Seq([ref : Refs, was : Secrets \cup {None}]) /\ Len(f) = Len(d) - 1
            /\ \A n \in 1 .. Len(d) - 1 : f[n] = d[n]
        BY <1>t, <2>1, <3>1, <3>2, <3>3, DoneFacts
      <4>3. DOMAIN f = 1 .. Len(d) - 1
        BY <4>2, LenProperties
      <4> QED BY <1>t, <2>1, <3>1, <4>1, <4>2, <4>3, DoneRefs
    <3>5. /\ saving' # None /\ saving'.step = "rollback" /\ saving'.old = saving.old /\ saving'.done = f
      <4>1. f \in Seq([ref : Refs, was : Secrets \cup {None}])
        BY <1>t, <2>1, <3>1, <3>2, <3>3, DoneFacts
      <4>2. saving' \in SaveRecord
        BY <2>1, <3>2, <3>3, <4>1 DEF SaveRecord
      <4> QED BY <2>1, <3>2, <3>3, <4>2, StoreAssumption DEF SaveRecord
    <3>6. \A r \in G \cap (RefsIn(saving.old) \cup RefsOf(file)) : creds'[r] # None
      <4>1. RefsIn(saving.old) \subseteq Refs /\ RefsOf(file) \subseteq Refs
        BY <1>t, <2>1, RefsInTypes, RefsOfFacts DEF TypeOK
      <4>2. \A r \in G \cap (RefsIn(saving.old) \cup RefsOf(file)) : creds[r] # None
        BY <2>1 DEF ResolveInv, Resolve
      <4>3. d[Len(d)].ref \in G \cap (RefsIn(saving.old) \cup RefsOf(file)) => d[Len(d)].was # None
        BY <2>1, <3>1, <3>4 DEF ResolveInv
      <4> QED BY <1>t, <3>2, <4>1, <4>2, <4>3
    <3>7. \A n \in DOMAIN f :
            /\ f[n].ref \in Owned \cup RefsIn(saving.old)
            /\ f[n].ref \in G \cap (RefsIn(saving.old) \cup RefsOf(file)) => f[n].was # None
      BY <2>1, <3>1, <3>4 DEF ResolveInv
    <3> QED BY <2>1, <3>2, <3>5, <3>6, <3>7 DEF ResolveInv, Resolve
  <2> QED BY <2>2, <2>3
<1>10. CASE CleanUp
  <2>1. saving # None /\ saving \in SaveRecord /\ saving.step = "cleanup" /\ UNCHANGED <<file, targets>>
    BY <1>10, <1>t, SavingFacts DEF CleanUp, Doing
  <2>2. CASE saving' = None /\ UNCHANGED creds
    BY <2>1, <2>2 DEF ResolveInv, Resolve
  <2>3. CASE ~(saving' = None /\ UNCHANGED creds)
    <3>1. PICK r \in saving.obsolete :
            /\ saving' = [saving EXCEPT !.obsolete = @ \ {r}]
            /\ creds' = [creds EXCEPT ![r] = None] \/ UNCHANGED creds
      BY <1>10, <2>3 DEF CleanUp
    <3>2. saving' # None /\ saving'.step = "cleanup" /\ saving'.obsolete = saving.obsolete \ {r}
      BY <2>1, <3>1, StoreAssumption DEF SaveRecord
    <3>3. r \notin RefsIn(targets) /\ RefsIn(targets) \subseteq Refs
      BY <1>t, <2>1, RefsInTypes DEF ResolveInv
    <3>4. \A q \in G \cap RefsIn(targets) : creds'[q] # None
      BY <1>t, <2>1, <3>1, <3>3 DEF ResolveInv, Resolve
    <3> QED BY <2>1, <3>2, <3>4 DEF ResolveInv, Resolve
  <2> QED BY <2>2, <2>3
<1>11. CASE UNCHANGED vars
  BY <1>11 DEF vars, ResolveInv, Resolve
<1> QED BY <1>1, <1>2, <1>3, <1>4, <1>5, <1>6, <1>7, <1>8, <1>9, <1>10, <1>11 DEF Next

LEMMA ResolveInvInit ==
  ASSUME Init, NEW G \in SUBSET Refs, Loadable(G, file)
  PROVE  ResolveInv(G)
<1>1. targets = <<>> /\ saving = None /\ file \in Files /\ \A r \in Refs : creds[r] # None <=> r \in RefsOf(file)
  BY StoreAssumption DEF Init
<1>2. \A r \in G \cap RefsOf(file) : creds[r] # None
  BY <1>1, RefsOfFacts
<1> QED BY <1>1, <1>2, NoTargets DEF ResolveInv, Resolve

\* Theorem: at every moment OBS may crash, each reference in the settings file
\* names a credential that is stored: SettingsStore::save writes credentials
\* before the file that names them and puts back what it replaced if it fails,
\* and deleteUnreferencedTargetSecrets deletes one only when no target has it.
\* The assumption excludes a file in which a target has the id of an earlier
\* one, is managed by the publisher, and still has credentials of a login: when
\* the save that migrates it fails, loadSettingsFromCurrentProfile restores the
\* targets with a reference under which nothing was stored.
THEOREM ReferencesAlwaysResolve ==
  ASSUME \A f \in InitialFiles : LoginsOfDuplicates(f)
  PROVE  Spec => []ReferencesResolve
<1> DEFINE I == StoreInv /\ ResolveInv(Refs)
<1>1. Init => I
  BY StoreInvInit, ResolveInvInit DEF Init, Loadable
<1>2. I /\ [Next]_vars => I'
  BY StoreInvNext, ResolveInvNext
<1>3. I => ReferencesResolve
  <2> SUFFICES ASSUME I, NEW r \in RefsOf(file)
               PROVE  creds[r] # None
    BY DEF ReferencesResolve
  <2>1. r \in Refs
    BY RefsOfFacts DEF StoreInv, TypeOK
  <2> QED BY <2>1 DEF ResolveInv
<1> QED BY <1>1, <1>2, <1>3, PTL DEF Spec

\* Theorem: a credential outside the plug-in's namespace is never removed,
\* although a file may name it and a save may replace its secret: clean-up takes
\* what is the plug-in's own (isOwnedCredentialRef), and a failed save never
\* puts back the absence of it, as it was there when the save began.
THEOREM ForeignCredentialsSurvive == Spec => ForeignSurvives
<1> DEFINE I == StoreInv /\ ResolveInv({Foreign})
<1>0. {Foreign} \in SUBSET Refs /\ Foreign \in Refs /\ {Foreign} \cap Owned = {}
  BY StoreAssumption DEF Refs
<1>1. Init => I
  BY <1>0, StoreInvInit, ResolveInvInit DEF Init, Loadable
<1>2. I /\ [Next]_vars => I'
  BY <1>0, StoreInvNext, ResolveInvNext
<1>3. I /\ [Next]_vars => [creds[Foreign] # None => creds'[Foreign] # None]_vars
  <2> SUFFICES ASSUME StoreInv, ResolveInv({Foreign}), Next, creds[Foreign] # None
               PROVE  creds'[Foreign] # None
    OBVIOUS
  <2>t. TypeOK /\ creds \in [Refs -> Secrets \cup {None}]
    BY DEF StoreInv, TypeOK
  <2>1. CASE WriteCredential
    <3>1. PICK c \in Credential : c.secret \in Secrets /\ (UNCHANGED creds \/ creds' = [creds EXCEPT ![c.ref] = c.secret])
      BY <2>1, <2>t, WriteCredentialFacts
    <3> QED BY <1>0, <2>t, <3>1, StoreAssumption
  <2>2. CASE RollBack
    <3>1. saving # None /\ saving.step = "rollback"
      BY <2>2 DEF RollBack, Doing
    <3>2. CASE saving.done = <<>>
      BY <2>2, <3>2 DEF RollBack
    <3>3. CASE saving.done # <<>>
      <4>1. PICK l : l = saving.done[Len(saving.done)]
        OBVIOUS
      <4>2. UNCHANGED creds \/ creds' = [creds EXCEPT ![l.ref] = l.was]
        BY <2>2, <3>3, <4>1 DEF RollBack
      <4>3. Len(saving.done) \in DOMAIN saving.done
        BY <2>t, <3>1, <3>3, DoneFacts, DoneRefs
      <4>4. l.ref = Foreign => l.was # None
        BY <1>0, <3>1, <4>1, <4>3 DEF ResolveInv
      <4> QED BY <1>0, <2>t, <4>2, <4>4
    <3> QED BY <3>2, <3>3
  <2>3. CASE CleanUp
    <3>1. saving # None /\ saving.step = "cleanup"
      BY <2>3 DEF CleanUp, Doing
    <3>2. UNCHANGED creds \/ \E r \in saving.obsolete : creds' = [creds EXCEPT ![r] = None]
      BY <2>3 DEF CleanUp
    <3>3. Foreign \notin saving.obsolete
      BY <1>0, <3>1 DEF ResolveInv
    <3> QED BY <1>0, <2>t, <3>2, <3>3
  <2>4. CASE AddTarget \/ MutateTargetForUi \/ RemoveTarget \/ Save \/ LoadSettings
    BY <2>t, <2>4, EditsSave, LoadSaves DEF disk
  <2>5. CASE NoFile \/ LoadsNothing \/ QuarantineInvalidSettings \/ HydrateTargetSecrets \/ Stops \/ BackUp \/ Commit
    BY <2>5 DEF NoFile, LoadsNothing, QuarantineInvalidSettings, HydrateTargetSecrets, Stops, BackUp, Commit, disk
  <2> QED BY <2>1, <2>2, <2>3, <2>4, <2>5 DEF Next
<1> QED BY <1>1, <1>2, <1>3, PTL DEF Spec, ForeignSurvives

-----------------------------------------------------------------------------
(* The store has what the targets show. *)

\* A save that has not yet made its copy has written no credential.
BeginsAfresh == Doing("backup") => saving.done = <<>>

LEMMA BeginsAfreshNext ==
  ASSUME StoreInv, BeginsAfresh, [Next]_vars
  PROVE  BeginsAfresh'
<1>t. TypeOK /\ Protected
  BY DEF StoreInv
<1>0. ASSUME saving = None, \E S \in Settings, old \in Settings, P \in SUBSET (Nat \X Kinds), R \in SUBSET Refs : Saves(S, old, P, R)
      PROVE  BeginsAfresh'
  BY <1>0, SavesFacts DEF BeginsAfresh, Doing
<1>1. CASE AddTarget \/ MutateTargetForUi \/ RemoveTarget \/ Save
  BY <1>0, <1>1, <1>t, EditsSave DEF Idle, TypeOK
<1>2. CASE LoadSettings
  <2>1. saving = None
    BY <1>2, <1>t, LoadSaves DEF Starts, Protected
  <2>2. \/ UNCHANGED saving
        \/ \E S \in Settings, old \in Settings, P \in SUBSET (Nat \X Kinds), R \in SUBSET Refs : Saves(S, old, P, R)
    BY <1>2, <1>t, LoadSaves
  <2> QED BY <1>0, <2>1, <2>2 DEF BeginsAfresh, Doing
<1>3. CASE BackUp \/ WriteCredential \/ Commit \/ RollBack \/ CleanUp
  <2>1. saving # None /\ saving \in SaveRecord
    BY <1>3, <1>t, SavingFacts DEF BackUp, WriteCredential, Commit, RollBack, CleanUp, Doing
  <2>2. saving' = None \/ saving'.step # "backup"
    BY <1>3, <2>1 DEF BackUp, WriteCredential, Commit, RollBack, CleanUp, Doing, Fails, Proceeds, SaveRecord
  <2> QED BY <2>2 DEF BeginsAfresh, Doing
<1>4. CASE NoFile \/ LoadsNothing \/ QuarantineInvalidSettings \/ HydrateTargetSecrets \/ Stops \/ UNCHANGED vars
  <2>1. saving' = None \/ UNCHANGED saving
    BY <1>4, <1>t DEF NoFile, LoadsNothing, QuarantineInvalidSettings, HydrateTargetSecrets, Stops, vars
  <2> QED BY <2>1 DEF BeginsAfresh, Doing
<1> QED BY <1>1, <1>2, <1>3, <1>4 DEF Next

\* When nothing is recorded, the store is as the save found it.
LEMMA NothingDone ==
  ASSUME Restorable, saving # None, saving.step # "cleanup", saving.done = <<>>
  PROVE  \A r \in Refs \ failed : creds[r] = saving.origin[r]
<1>1. DOMAIN saving.done = {}
  OBVIOUS
<1> QED BY <1>1 DEF Restorable

\* No other credential of S has the reference of the one at p.
Alone(S, p) == \A q \in Positions(S) : At(S, q).ref = At(S, p).ref => q = p

\* Each secret in S has a reference and is stored under it in C, unless another
\* target has the reference or it is one of F.
InStore(S, C, F) ==
  \A p \in WithSecret(S) :
    /\ At(S, p).ref # None
    /\ Alone(S, p) /\ At(S, p).ref \notin F => C[At(S, p).ref] = At(S, p).secret

\* f has the targets of S, and no secrets.
Describes(f, S) ==
  /\ f \in Settings /\ DOMAIN f = DOMAIN S
  /\ \A i \in DOMAIN S : f[i].id = S[i].id /\ \A k \in Kinds : f[i].cred[k].secret = None

\* What has been written stays in the store until the save is over, because
\* nothing else is written under a reference that only one target has; if the
\* save fails, the targets and the store that were put back agreed before.
StoredInv ==
  /\ saving = None => (Describes(file, targets) => InStore(targets, creds, failed))
  /\ Doing("cleanup") => InStore(targets, creds, failed) /\ saving.obsolete \cap RefsIn(targets) = {}
  /\ saving # None /\ saving.step # "cleanup" =>
       (Describes(file, saving.old) => InStore(saving.old, saving.origin, failed))
  /\ saving # None /\ saving.step \in {"backup", "write"} =>
       \A p \in WithSecret(targets) \ saving.todo :
         LET c == At(EnsureRefs(targets), p)
         IN  Alone(EnsureRefs(targets), p) /\ c.ref \notin failed => creds[c.ref] = c.secret

LEMMA InStoreStays ==
  ASSUME NEW S, NEW C, NEW F, InStore(S, C, F), NEW D, NEW G, F \subseteq G,
         \A r \in RefsIn(S) \ G : D[r] = C[r]
  PROVE  InStore(S, D, G)
<1> SUFFICES ASSUME NEW p \in WithSecret(S)
             PROVE  /\ At(S, p).ref # None
                    /\ Alone(S, p) /\ At(S, p).ref \notin G => D[At(S, p).ref] = At(S, p).secret
  BY DEF InStore
<1>1. p \in Positions(S) /\ At(S, p).ref # None
  BY DEF InStore, WithSecret
<1>2. At(S, p).ref \in RefsIn(S)
  BY <1>1, AtRefs
<1> QED BY <1>1, <1>2 DEF InStore

\* A list without secrets is in any store.
LEMMA NoSecrets ==
  ASSUME NEW S, \A i \in DOMAIN S, k \in Kinds : S[i].cred[k].secret = None, NEW C, NEW F
  PROVE  InStore(S, C, F)
<1>1. WithSecret(S) = {}
  BY WithSecretFacts
<1> QED BY <1>1 DEF InStore

\* A file that describes what is put back when its migration fails had nothing
\* to migrate but a login.
LEMMA UnmigratedInStore ==
  ASSUME NEW S \in Settings, NEW new, NEW R, Renames(S, new),
         creds \in [Refs -> Secrets \cup {None}],
         NEW old, old = Unmigrated(S, Reassigned(S, new, R)), Describes(S, old), NEW C, NEW F
  PROVE  InStore(old, C, F)
<1>1. PICK staged : staged = Reassigned(S, new, R)
  OBVIOUS
<1>2. /\ staged \in Settings /\ DOMAIN staged = DOMAIN S
      /\ \A i \in DOMAIN S \ Duplicates(S) : staged[i] = S[i]
      /\ \A i \in Duplicates(S) : staged[i].id = new[i]
  BY <1>1, ReassignedFacts
<1>3. /\ DOMAIN old = DOMAIN S
      /\ \A i \in DOMAIN S :
           /\ old[i].id = staged[i].id
           /\ \A k \in Kinds :
                old[i].cred[k] = IF k = "oauth" /\ i \in PublisherManaged(staged) THEN staged[i].cred[k] ELSE S[i].cred[k]
  BY <1>1, <1>2, UnmigratedFacts
<1>4. ASSUME NEW i \in Duplicates(S)
      PROVE  FALSE
  <2>1. i \in DOMAIN S /\ S[i].id = new[i]
    BY <1>2, <1>3 DEF Describes, Duplicates
  <2>2. new[i] # S[i].id
    BY <2>1 DEF Renames
  <2> QED BY <2>1, <2>2
<1>5. \A i \in DOMAIN old, k \in Kinds : old[i].cred[k].secret = None
  BY <1>2, <1>3, <1>4 DEF Describes
<1> QED BY <1>5, NoSecrets

\* A save begins with what is in memory, or with what loading puts back.
LEMMA SavesKeepStored ==
  ASSUME StoreInv, saving = None,
         NEW S \in Settings, NEW old \in Settings,
         NEW P \in SUBSET (Nat \X Kinds), NEW R \in SUBSET Refs,
         Saves(S, old, P, R), UNCHANGED <<file, creds, failed>>,
         Describes(file, old) => InStore(old, creds, failed)
  PROVE  StoredInv'
<1>1. CASE targets' = old /\ saving' = None
  BY <1>1 DEF StoredInv, Doing
<1>2. CASE /\ targets' = S /\ saving' \in SaveRecord /\ saving' # None
           /\ saving'.step = "backup" /\ saving'.old = old /\ saving'.todo = WithSecret(S) /\ saving'.origin = creds
  <2>1. WithSecret(targets') \ saving'.todo = {}
    BY <1>2
  <2>2. Describes(file', saving'.old) => InStore(saving'.old, saving'.origin, failed')
    BY <1>2
  <2>3. saving'.step # "cleanup" /\ ~Doing("cleanup")'
    BY <1>2 DEF Doing
  <2> QED BY <1>2, <2>1, <2>2, <2>3 DEF StoredInv
<1> QED BY <1>1, <1>2, SavesFacts

\* Bringing a secret into memory takes the one that is stored.
LEMMA HydrateFacts ==
  ASSUME TypeOK, HydrateTargetSecrets
  PROVE  \E T \in Settings :
           /\ targets' = T /\ DOMAIN T = DOMAIN targets
           /\ \A i \in DOMAIN T : T[i].id = targets[i].id
           /\ \A p \in Positions(T) : At(T, p).ref = At(targets, p).ref
           /\ \A p \in WithSecret(T) :
                \/ p \in WithSecret(targets) /\ At(T, p) = At(targets, p)
                \/ At(T, p).ref # None /\ creds[At(T, p).ref] = At(T, p).secret
<1>t. targets \in Settings /\ creds \in [Refs -> Secrets \cup {None}]
  BY DEF TypeOK
<1>1. PICK i \in DOMAIN targets, K \in {{"key"}, Kinds} :
        targets' = [targets EXCEPT ![i].cred =
                      [k \in Kinds |-> IF k \in K THEN Hydrated(targets[i].cred[k]) ELSE targets[i].cred[k]]]
  BY DEF HydrateTargetSecrets
<1>2. PICK c : c = [k \in Kinds |-> IF k \in K THEN Hydrated(targets[i].cred[k]) ELSE targets[i].cred[k]]
  OBVIOUS
<1>3. ASSUME NEW k \in Kinds
      PROVE  /\ c[k] \in Credential /\ c[k].ref = targets[i].cred[k].ref
             /\ \/ c[k] = targets[i].cred[k]
                \/ c[k].ref # None /\ creds[c[k].ref] = c[k].secret
  <2>1. PICK d \in Credential : d = targets[i].cred[k]
    BY <1>t, SettingsFacts
  <2>2. Hydrated(d) \in Credential /\ Hydrated(d).ref = d.ref
        /\ (Hydrated(d) = d \/ (d.ref \in Owned /\ creds[d.ref] = Hydrated(d).secret))
    BY <1>t DEF Hydrated, Credential, Refs
  <2>3. None \notin Owned
    BY StoreAssumption DEF Refs
  <2> QED BY <1>2, <2>1, <2>2, <2>3
<1>4. PICK T : T = targets'
  OBVIOUS
<1>5. c \in [Kinds -> Credential]
  BY <1>2, <1>3
<1>6. /\ T \in Settings /\ DOMAIN T = DOMAIN targets
      /\ \A j \in DOMAIN targets : j # i => T[j] = targets[j]
      /\ T[i].id = targets[i].id /\ T[i].cred = c
  BY <1>t, <1>1, <1>2, <1>4, <1>5, ExceptCredFacts, ZenonT(60)
<1>7. \A p \in Positions(T) : At(T, p).ref = At(targets, p).ref
  BY <1>3, <1>6 DEF Positions, At
<1>8. ASSUME NEW p \in WithSecret(T)
      PROVE  \/ p \in WithSecret(targets) /\ At(T, p) = At(targets, p)
             \/ At(T, p).ref # None /\ creds[At(T, p).ref] = At(T, p).secret
  <2>1. PICK j \in DOMAIN T, k \in Kinds : p = <<j, k>> /\ T[j].cred[k].secret # None
    BY WithSecretFacts
  <2>2. At(T, p) = T[j].cred[k] /\ At(targets, p) = targets[j].cred[k]
    BY <2>1 DEF At
  <2>3. CASE j # i
    BY <1>6, <2>1, <2>2, <2>3, WithSecretFacts
  <2>4. CASE j = i
    BY <1>3, <1>6, <2>1, <2>2, <2>4, WithSecretFacts
  <2> QED BY <2>3, <2>4
<1> QED BY <1>4, <1>6, <1>7, <1>8

\* What a save that succeeded leaves in memory is in the store.
LEMMA CommittedInStore ==
  ASSUME NEW S \in Settings, NEW P, NEW C, NEW F,
         \A p \in WithSecret(S) :
           LET c == At(EnsureRefs(S), p)
           IN  Alone(EnsureRefs(S), p) /\ c.ref \notin F => C[c.ref] = c.secret
  PROVE  InStore(Forget(EnsureRefs(S), P), C, F)
<1>1. PICK E : E = EnsureRefs(S)
  OBVIOUS
<1>2. E \in Settings /\ DOMAIN E = DOMAIN S
      /\ \A i \in DOMAIN S, k \in Kinds : E[i].cred[k] = Ensured(S[i].cred[k], Own(k, S[i].id))
  BY <1>1, EnsureRefsFacts
<1>3. PICK T : T = Forget(E, P)
  OBVIOUS
<1>4. /\ DOMAIN T = DOMAIN S
      /\ \A i \in DOMAIN S, k \in Kinds :
           T[i].cred[k] = IF <<i, k>> \in P THEN [E[i].cred[k] EXCEPT !.secret = None] ELSE E[i].cred[k]
  BY <1>2, <1>3, ForgetFacts
<1>5. ASSUME NEW i \in DOMAIN S, NEW k \in Kinds
      PROVE  /\ T[i].cred[k].ref = E[i].cred[k].ref
             /\ T[i].cred[k].secret # None =>
                  T[i].cred[k] = E[i].cred[k] /\ S[i].cred[k].secret # None /\ E[i].cred[k].ref # None
  <2>1. PICK c \in Credential : c = S[i].cred[k]
    BY SettingsFacts
  <2>2. PICK e \in Credential : e = E[i].cred[k]
    BY <1>2, SettingsFacts
  <2>3. PICK d : d = T[i].cred[k]
    OBVIOUS
  <2>4. d = IF <<i, k>> \in P THEN [e EXCEPT !.secret = None] ELSE e
    BY <1>4, <2>2, <2>3
  <2>5. d.ref = e.ref /\ (d.secret # None => d = e)
    BY <2>4 DEF Credential
  <2>6. e = Ensured(c, Own(k, S[i].id)) /\ Own(k, S[i].id) # None
    BY <1>2, <2>1, <2>2, SettingsFacts, StoreAssumption DEF Own, Owned, Refs
  <2>7. e.secret # None => c.secret # None /\ e.ref # None
    BY <2>6 DEF Ensured, Credential
  <2> QED BY <2>1, <2>2, <2>3, <2>5, <2>7
<1>6. ASSUME NEW p \in WithSecret(T)
      PROVE  /\ At(T, p).ref # None
             /\ Alone(T, p) /\ At(T, p).ref \notin F => C[At(T, p).ref] = At(T, p).secret
  <2>1. PICK i \in DOMAIN S, k \in Kinds : p = <<i, k>> /\ T[i].cred[k].secret # None
    BY <1>4, WithSecretFacts
  <2>2. At(T, p) = E[i].cred[k] /\ At(E, p) = E[i].cred[k] /\ At(T, p).ref # None
    BY <1>5, <2>1 DEF At
  <2>3. p \in WithSecret(S)
    BY <1>5, <2>1, WithSecretFacts
  <2>4. Positions(E) = Positions(T) /\ \A q \in Positions(T) : At(T, q).ref = At(E, q).ref
    BY <1>2, <1>4, <1>5 DEF Positions, At
  <2>5. Alone(T, p) => Alone(E, p)
    BY <2>2, <2>4 DEF Alone
  <2> QED BY <1>1, <2>2, <2>3, <2>5
<1> QED BY <1>1, <1>3, <1>6 DEF InStore

LEMMA StoredInvNext ==
  ASSUME RestoreInv, BeginsAfresh, StoredInv, [Next]_vars
  PROVE  StoredInv'
<1>t. StoreInv /\ TypeOK /\ Protected /\ Restorable /\ creds \in [Refs -> Secrets \cup {None}] /\ targets \in Settings
  BY DEF RestoreInv, StoreInv, TypeOK
\* A save that failed and has put back what it recorded.
<1>0. ASSUME saving # None, saving.step # "cleanup", saving.done = <<>>, Fails, UNCHANGED <<file, creds, failed>>
      PROVE  StoredInv'
  <2>1. targets' = saving.old /\ saving' = None /\ saving.old \in Settings
    BY <1>0, <1>t, SavingFacts DEF Fails
  <2>2. \A r \in Refs \ failed : creds[r] = saving.origin[r]
    BY <1>0, <1>t, NothingDone
  <2>3. PICK o : o = saving.old
    OBVIOUS
  <2>4. Describes(file, o) => InStore(o, saving.origin, failed)
    BY <1>0, <2>3 DEF StoredInv
  <2>5. RefsIn(o) \subseteq Refs
    BY <2>1, <2>3, RefsInTypes
  <2>6. Describes(file, o) => InStore(o, creds, failed)
    BY <2>2, <2>4, <2>5, InStoreStays
  <2>7. targets' = o /\ file' = file /\ creds' = creds /\ failed' = failed /\ saving' = None
    BY <1>0, <2>1, <2>3
  <2> QED BY <2>6, <2>7 DEF StoredInv, Doing
<1>1. CASE AddTarget \/ MutateTargetForUi \/ RemoveTarget \/ Save
  <2>1. /\ saving = None /\ UNCHANGED <<file, creds, failed>>
        /\ \E S \in Settings, P \in SUBSET (Nat \X Kinds), R \in SUBSET Refs : Saves(S, targets, P, R)
    BY <1>1, <1>t, EditsSave DEF Idle, disk
  <2>2. Describes(file, targets) => InStore(targets, creds, failed)
    BY <2>1 DEF StoredInv
  <2> QED BY <1>t, <2>1, <2>2, SavesKeepStored
<1>2. CASE LoadSettings
  <2>1. saving = None /\ UNCHANGED <<file, creds, failed>> /\ file \in Settings
    BY <1>2, <1>t, LoadSaves DEF Starts, Protected, disk
  <2>2. CASE Duplicates(file) = {} /\ targets' = file /\ UNCHANGED saving
    <3>1. Describes(file, file) => InStore(file, creds, failed)
      BY NoSecrets DEF Describes
    <3> QED BY <2>1, <2>2, <3>1 DEF StoredInv, Doing
  <2>3. CASE ~(Duplicates(file) = {} /\ targets' = file /\ UNCHANGED saving)
    <3>1. PICK new, T : \E staged \in Settings, S \in Settings, old \in Settings,
                           P \in SUBSET (Nat \X Kinds), R \in SUBSET Refs :
            /\ Renames(file, new) /\ staged = Reassigned(file, new, T)
            /\ S = WithoutManaged(staged) /\ old = Unmigrated(file, staged)
            /\ Saves(S, old, P, R)
      BY <1>2, <1>t, <2>3, LoadSaves
    <3>2. PICK staged \in Settings, S \in Settings, old \in Settings, P \in SUBSET (Nat \X Kinds), R \in SUBSET Refs :
            /\ Renames(file, new) /\ staged = Reassigned(file, new, T)
            /\ S = WithoutManaged(staged) /\ old = Unmigrated(file, staged)
            /\ Saves(S, old, P, R)
      BY <3>1
    <3>3. Describes(file, old) => InStore(old, creds, failed)
      BY <1>t, <2>1, <3>2, UnmigratedInStore
    <3> QED BY <1>t, <2>1, <3>2, <3>3, SavesKeepStored
  <2> QED BY <2>2, <2>3
<1>3. CASE NoFile \/ LoadsNothing \/ QuarantineInvalidSettings \/ Stops
  <2>1. targets' = <<>> /\ saving' = None
    BY <1>3, <1>t DEF NoFile, LoadsNothing, QuarantineInvalidSettings, Stops, Starts, Protected
  <2>2. DOMAIN targets' = {}
    BY <2>1
  <2>3. InStore(targets', creds', failed')
    BY <2>2, NoSecrets
  <2> QED BY <2>1, <2>3 DEF StoredInv, Doing
<1>4. CASE HydrateTargetSecrets
  <2>1. saving = None /\ UNCHANGED <<file, creds, failed, saving>>
    BY <1>4 DEF HydrateTargetSecrets, Idle, disk
  <2>2. PICK T \in Settings :
          /\ targets' = T /\ DOMAIN T = DOMAIN targets
          /\ \A i \in DOMAIN T : T[i].id = targets[i].id
          /\ \A p \in Positions(T) : At(T, p).ref = At(targets, p).ref
          /\ \A p \in WithSecret(T) :
               \/ p \in WithSecret(targets) /\ At(T, p) = At(targets, p)
               \/ At(T, p).ref # None /\ creds[At(T, p).ref] = At(T, p).secret
    BY <1>4, <1>t, HydrateFacts
  <2>3. Describes(file, T) => InStore(targets, creds, failed)
    BY <2>1, <2>2 DEF StoredInv, Describes
  <2>4. Positions(T) = Positions(targets)
    BY <2>2 DEF Positions
  <2>5. ASSUME InStore(targets, creds, failed)
        PROVE  InStore(T, creds, failed)
    <3> SUFFICES ASSUME NEW p \in WithSecret(T)
                 PROVE  /\ At(T, p).ref # None
                        /\ Alone(T, p) /\ At(T, p).ref \notin failed => creds[At(T, p).ref] = At(T, p).secret
      BY DEF InStore
    <3>1. p \in Positions(T)
      BY DEF WithSecret
    <3>2. Alone(T, p) => Alone(targets, p)
      BY <2>2, <2>4, <3>1 DEF Alone
    <3> QED BY <2>2, <2>5, <3>2 DEF InStore
  <2> QED BY <2>1, <2>2, <2>3, <2>5 DEF StoredInv, Doing
<1>5. CASE BackUp
  <2>1. saving # None /\ saving \in SaveRecord /\ saving.step = "backup" /\ UNCHANGED <<file, creds, failed>>
    BY <1>5, <1>t, SavingFacts DEF BackUp, Doing
  <2>2. CASE Fails
    BY <1>0, <2>1, <2>2 DEF BeginsAfresh, Doing
  <2>3. CASE Proceeds("write") /\ UNCHANGED targets
    <3>1. /\ saving' # None /\ saving'.step = "write" /\ saving'.old = saving.old
          /\ saving'.origin = saving.origin /\ saving'.todo = saving.todo
      BY <2>1, <2>3, StoreAssumption DEF Proceeds, SaveRecord
    <3> QED BY <2>1, <2>3, <3>1 DEF StoredInv, Doing
  <2> QED BY <1>5, <2>2, <2>3 DEF BackUp
<1>6. CASE WriteCredential
  <2>1. saving # None /\ saving \in SaveRecord /\ saving.step = "write" /\ UNCHANGED <<file, targets, failed>>
        /\ saving.todo \subseteq WithSecret(targets)
    BY <1>6, <1>t, SavingFacts DEF WriteCredential, Doing
  <2>2. PICK p \in saving.todo, c \in Credential :
          /\ c = At(EnsureRefs(targets), p)
          /\ c.ref \in Refs /\ c.secret \in Secrets
          /\ \/ saving' = [saving EXCEPT !.todo = @ \ {p}] /\ UNCHANGED creds /\ creds[c.ref] = c.secret
             \/ /\ creds' = [creds EXCEPT ![c.ref] = c.secret]
                /\ saving' = [saving EXCEPT !.todo = @ \ {p},
                                            !.done = Append(@, [ref |-> c.ref, was |-> creds[c.ref]])]
             \/ Proceeds("rollback") /\ UNCHANGED creds
          /\ saving' # None
    BY <1>6, <1>t, WriteCredentialFacts
  <2>3. CASE Proceeds("rollback") /\ UNCHANGED creds
    <3>1. saving' # None /\ saving'.step = "rollback" /\ saving'.old = saving.old /\ saving'.origin = saving.origin
      BY <2>1, <2>3, StoreAssumption DEF Proceeds, SaveRecord
    <3> QED BY <2>1, <3>1 DEF StoredInv, Doing
  <2>4. CASE ~(Proceeds("rollback") /\ UNCHANGED creds)
    <3>1. /\ saving'.step = "write" /\ saving'.old = saving.old /\ saving'.origin = saving.origin
          /\ saving'.todo = saving.todo \ {p}
      BY <2>1, <2>2, <2>4 DEF SaveRecord
    <3>2. creds'[c.ref] = c.secret /\ \A r \in Refs : r # c.ref => creds'[r] = creds[r]
      BY <1>t, <2>2, <2>4
    <3>3. PICK E : E = EnsureRefs(targets)
      OBVIOUS
    <3>4. Positions(E) = Positions(targets) /\ WithSecret(targets) \subseteq Positions(targets)
          /\ \A q \in WithSecret(targets) : At(E, q).ref \in Refs
      BY <1>t, <3>3, EnsureRefsFacts, ToWriteFacts DEF Positions, WithSecret
    <3>5. ASSUME NEW q \in WithSecret(targets) \ saving'.todo, Alone(E, q), At(E, q).ref \notin failed
          PROVE  creds'[At(E, q).ref] = At(E, q).secret
      <4>1. CASE q = p
        BY <2>2, <3>2, <3>3, <4>1
      <4>2. CASE q # p
        <5>1. p \in Positions(E)
          BY <2>1, <3>4
        <5>2. At(E, q).ref # c.ref
          BY <2>2, <3>3, <3>5, <4>2, <5>1 DEF Alone
        <5>3. creds[At(E, q).ref] = At(E, q).secret
          BY <2>1, <3>1, <3>3, <3>5, <4>2 DEF StoredInv
        <5> QED BY <3>2, <3>4, <5>2, <5>3
      <4> QED BY <4>1, <4>2
    <3> QED BY <2>1, <2>2, <3>1, <3>3, <3>5 DEF StoredInv, Doing
  <2> QED BY <2>3, <2>4
<1>7. CASE Commit
  <2>1. saving # None /\ saving \in SaveRecord /\ saving.step = "write" /\ saving.todo = {} /\ UNCHANGED <<creds, failed>>
    BY <1>7, <1>t, SavingFacts DEF Commit, Doing
  <2>2. CASE Proceeds("rollback") /\ UNCHANGED <<file, targets, known>>
    <3>1. saving' # None /\ saving'.step = "rollback" /\ saving'.old = saving.old /\ saving'.origin = saving.origin
      BY <2>1, <2>2, StoreAssumption DEF Proceeds, SaveRecord
    <3> QED BY <2>1, <2>2, <3>1 DEF StoredInv, Doing
  <2>3. CASE /\ targets' = Forget(EnsureRefs(targets), saving.forget)
             /\ saving' = [saving EXCEPT !.step = "cleanup", !.obsolete = Unneeded(targets')]
    <3>1. \A p \in WithSecret(targets) :
            LET c == At(EnsureRefs(targets), p)
            IN  Alone(EnsureRefs(targets), p) /\ c.ref \notin failed => creds[c.ref] = c.secret
      BY <2>1 DEF StoredInv
    <3>2. PICK P, T : P = saving.forget /\ T = Forget(EnsureRefs(targets), P)
      OBVIOUS
    <3>3. InStore(T, creds, failed)
      BY <1>t, <3>1, <3>2, CommittedInStore
    <3>4. saving' # None /\ saving'.step = "cleanup" /\ saving'.obsolete = Unneeded(targets')
      <4>1. Unneeded(targets') \in SUBSET Refs
        BY <2>1 DEF Unneeded, SaveRecord
      <4>2. saving' \in SaveRecord /\ saving'.step = "cleanup" /\ saving'.obsolete = Unneeded(targets')
        BY <2>1, <2>3, <4>1 DEF SaveRecord
      <4> QED BY <4>2, StoreAssumption
    <3>5. saving'.obsolete \cap RefsIn(targets') = {}
      BY <3>4 DEF Unneeded
    <3> QED BY <2>1, <2>3, <3>2, <3>3, <3>4, <3>5 DEF StoredInv, Doing
  <2> QED BY <1>7, <2>2, <2>3 DEF Commit
<1>8. CASE RollBack
  <2>1. saving # None /\ saving \in SaveRecord /\ saving.step = "rollback" /\ UNCHANGED file
    BY <1>8, <1>t, SavingFacts DEF RollBack, Doing
  <2>2. CASE saving.done = <<>> /\ Fails /\ UNCHANGED <<creds, failed>>
    BY <1>0, <2>1, <2>2
  <2>3. CASE ~(saving.done = <<>> /\ Fails /\ UNCHANGED <<creds, failed>>)
    <3>1. PICK f : f = SubSeq(saving.done, 1, Len(saving.done) - 1)
      OBVIOUS
    <3>2. saving' = [saving EXCEPT !.done = f] /\ failed \subseteq failed'
      BY <1>8, <2>3, <3>1 DEF RollBack
    <3>3. saving' # None /\ saving'.step = "rollback" /\ saving'.old = saving.old /\ saving'.origin = saving.origin
      <4>1. saving.done # <<>>
        BY <1>8, <2>3 DEF RollBack
      <4>2. f \in Seq([ref : Refs, was : Secrets \cup {None}])
        BY <1>t, <2>1, <3>1, <4>1, DoneFacts
      <4>3. saving' \in SaveRecord
        BY <2>1, <3>2, <4>2 DEF SaveRecord
      <4> QED BY <2>1, <3>2, <4>3, StoreAssumption DEF SaveRecord
    <3>4. PICK o, C : o = saving.old /\ C = saving.origin
      OBVIOUS
    <3>5. Describes(file, o) => InStore(o, C, failed')
      BY <2>1, <3>2, <3>4, InStoreStays DEF StoredInv
    <3> QED BY <2>1, <3>3, <3>4, <3>5 DEF StoredInv, Doing
  <2> QED BY <2>2, <2>3
<1>9. CASE CleanUp
  <2>1. saving # None /\ saving \in SaveRecord /\ saving.step = "cleanup" /\ UNCHANGED <<file, targets>>
    BY <1>9, <1>t, SavingFacts DEF CleanUp, Doing
  <2>2. InStore(targets, creds, failed) /\ saving.obsolete \cap RefsIn(targets) = {}
    BY <2>1 DEF StoredInv, Doing
  <2>3. CASE saving' = None /\ UNCHANGED <<creds, failed>>
    BY <2>1, <2>2, <2>3 DEF StoredInv, Doing
  <2>4. CASE ~(saving' = None /\ UNCHANGED <<creds, failed>>)
    <3>1. PICK r \in saving.obsolete :
            /\ saving' = [saving EXCEPT !.obsolete = @ \ {r}]
            /\ \/ creds' = [creds EXCEPT ![r] = None] /\ UNCHANGED failed
               \/ failed' = failed \cup {r} /\ UNCHANGED creds
      BY <1>9, <2>4 DEF CleanUp
    <3>2. saving' # None /\ saving'.step = "cleanup" /\ saving'.obsolete = saving.obsolete \ {r}
      BY <2>1, <3>1, StoreAssumption DEF SaveRecord
    <3>3. r \notin RefsIn(targets) /\ RefsIn(targets) \subseteq Refs
      BY <1>t, <2>2, RefsInTypes
    <3>4. \A q \in RefsIn(targets) \ failed' : creds'[q] = creds[q]
      BY <1>t, <3>1, <3>3
    <3>5. failed \subseteq failed'
      BY <3>1
    <3>6. PICK T, D, G : T = targets /\ D = creds' /\ G = failed'
      OBVIOUS
    <3>7. InStore(T, D, G)
      BY <2>2, <3>4, <3>5, <3>6, InStoreStays
    <3>8. saving'.obsolete \cap RefsIn(T) = {}
      BY <2>2, <3>2, <3>6
    <3> QED BY <2>1, <3>2, <3>6, <3>7, <3>8 DEF StoredInv, Doing
  <2> QED BY <2>3, <2>4
<1>10. CASE UNCHANGED vars
  <2>1. UNCHANGED <<file, creds, targets, saving, failed>>
    BY <1>10 DEF vars
  <2> QED BY <2>1 DEF StoredInv, Doing
<1> QED BY <1>1, <1>2, <1>3, <1>4, <1>5, <1>6, <1>7, <1>8, <1>9, <1>10 DEF Next

\* Theorem: between saves a secret in memory is the one stored for its target
\* if the file has the targets, so that the next session of OBS streams with the
\* key this one shows; except for a reference that two targets have, or on which the
\* store failed (SettingsStore::save, OutputManager::save, hydrateTargetSecrets).
THEOREM SecretsStayStored == Spec => []SecretsAreStored
<1> DEFINE I == RestoreInv /\ BeginsAfresh /\ StoredInv
<1>1. Init => I
  <2> SUFFICES ASSUME Init
               PROVE  I
    OBVIOUS
  <2>1. targets = <<>> /\ saving = None
    BY DEF Init
  <2>2. DOMAIN targets = {}
    BY <2>1
  <2>3. InStore(targets, creds, failed)
    BY <2>2, NoSecrets
  <2> QED BY <2>1, <2>3, StoreInvInit DEF RestoreInv, Restorable, BeginsAfresh, StoredInv, Doing
<1>2. I /\ [Next]_vars => I'
  BY RestoreInvNext, BeginsAfreshNext, StoredInvNext DEF RestoreInv
<1>3. I => SecretsAreStored
  <2> SUFFICES ASSUME I, Idle, file = Content(targets), NEW p \in Positions(targets),
                      At(targets, p).secret # None, ~Shared(At(targets, p).ref), At(targets, p).ref \notin failed
               PROVE  creds[At(targets, p).ref] = At(targets, p).secret
    BY DEF SecretsAreStored
  <2>1. targets \in Settings
    BY DEF RestoreInv, StoreInv, TypeOK
  <2>2. PICK E \in Settings : E = EnsureRefs(targets) /\ DOMAIN E = DOMAIN targets
                              /\ \A i \in DOMAIN E : E[i].id = targets[i].id
    BY <2>1, EnsureRefsFacts
  <2>3. PICK P, F : P = Positions(targets) /\ F = Forget(E, P)
    OBVIOUS
  <2>4. /\ F \in Settings /\ DOMAIN F = DOMAIN E
        /\ \A i \in DOMAIN E : F[i].id = E[i].id /\ \A k \in Kinds : <<i, k>> \in P => F[i].cred[k] = [E[i].cred[k] EXCEPT !.secret = None]
    BY <2>2, <2>3, ForgetFacts
  <2>5. ASSUME NEW i \in DOMAIN E, NEW k \in Kinds
        PROVE  F[i].cred[k].secret = None
    <3>1. <<i, k>> \in P
      BY <2>2, <2>3 DEF Positions
    <3>2. PICK e \in Credential : e = E[i].cred[k]
      BY <2>2, SettingsFacts
    <3>3. F[i].cred[k] = [e EXCEPT !.secret = None]
      BY <2>4, <3>1, <3>2
    <3> QED BY <3>3 DEF Credential
  <2>6. Describes(file, targets)
    BY <2>2, <2>3, <2>4, <2>5 DEF Describes, Content
  <2>7. InStore(targets, creds, failed)
    BY <2>6 DEF StoredInv, Idle
  <2>8. Alone(targets, p)
    BY DEF Alone, Shared
  <2>9. p \in WithSecret(targets)
    BY DEF WithSecret
  <2> QED BY <2>7, <2>8, <2>9 DEF InStore
<1> QED BY <1>1, <1>2, <1>3, PTL DEF Spec

-----------------------------------------------------------------------------
(* The store has nothing that no target names. *)

\* What a target with the id of an earlier one names, a target that keeps its
\* id names too: it is a copy.
CopiesOfDuplicates(f) ==
  f \in Settings => \A i \in Duplicates(f), k \in Kinds :
    f[i].cred[k].ref \in Owned =>
      \E j \in DOMAIN f \ Duplicates(f), l \in Kinds : f[j].cred[l].ref = f[i].cred[k].ref

\* Each credential of the plug-in's in C is named by R or one of F.
Named(C, R, F) == \A r \in Owned \ F : C[r] # None => r \in R

\* What the file names is given up only with a duty to delete it, and what is
\* written is named by the file when the save is over, or put back.
OrphanInv ==
  /\ CopiesOfDuplicates(file)
  /\ saving = None =>
       /\ Named(creds, RefsOf(file), failed)
       /\ running /\ ~saveBlocked => Owned \cap RefsOf(file) \subseteq RefsIn(targets)
  /\ Doing("cleanup") =>
       /\ Named(creds, RefsOf(file) \cup saving.obsolete, failed)
       /\ Owned \cap RefsOf(file) \subseteq RefsIn(targets)
  /\ saving # None /\ saving.step # "cleanup" =>
       /\ Named(saving.origin, RefsOf(file), failed)
       /\ Owned \cap RefsOf(file) \subseteq RefsIn(saving.old)
  /\ saving # None /\ saving.step \in {"backup", "write"} =>
       /\ Owned \cap RefsOf(file) \subseteq RefsIn(EnsureRefs(targets)) \cup saving.obsolete
       /\ \A n \in DOMAIN saving.done : saving.done[n].ref \in RefsIn(EnsureRefs(targets))

LEMMA EnsureKeepsRefs ==
  ASSUME NEW S \in Settings
  PROVE  RefsIn(S) \subseteq RefsIn(EnsureRefs(S))
<1> SUFFICES ASSUME NEW r \in RefsIn(S)
             PROVE  r \in RefsIn(EnsureRefs(S))
  OBVIOUS
<1>1. PICK i \in DOMAIN S, k \in Kinds : r # None /\ S[i].cred[k].ref = r
  BY RefsInFacts
<1>2. EnsureRefs(S)[i].cred[k] = S[i].cred[k] /\ i \in DOMAIN EnsureRefs(S)
  BY <1>1, EnsureRefsFacts DEF Ensured
<1> QED BY <1>1, <1>2, RefsInFacts

\* Loading gives up nothing but the logins that the publisher manages.
LEMMA LoadedKeepsRefs ==
  ASSUME NEW S \in Settings, NEW new, NEW T, Renames(S, new),
         creds \in [Refs -> Secrets \cup {None}], CopiesOfDuplicates(S),
         NEW staged, staged = Reassigned(S, new, T), NEW r \in Owned \cap RefsIn(S)
  PROVE  /\ r \in RefsIn(Unmigrated(S, staged))
         /\ \/ r \in RefsIn(WithoutManaged(staged))
            \/ r \in UNION {RefsIn(<<staged[i]>>) : i \in PublisherManaged(staged)}
<1>1. r # None
  BY StoreAssumption DEF Refs
<1>2. PICK i \in DOMAIN S \ Duplicates(S), k \in Kinds : S[i].cred[k].ref = r
  <2>1. PICK i \in DOMAIN S, k \in Kinds : S[i].cred[k].ref = r
    BY RefsInFacts
  <2> QED BY <2>1 DEF CopiesOfDuplicates
<1>3. staged \in Settings /\ DOMAIN staged = DOMAIN S /\ staged[i] = S[i]
  BY ReassignedFacts
<1>4. r \in RefsIn(Unmigrated(S, staged))
  <2>1. /\ DOMAIN Unmigrated(S, staged) = DOMAIN S
        /\ Unmigrated(S, staged)[i].cred[k] = IF k = "oauth" /\ i \in PublisherManaged(staged) THEN staged[i].cred[k] ELSE S[i].cred[k]
    BY <1>3, UnmigratedFacts
  <2>2. Unmigrated(S, staged)[i].cred[k].ref = r
    BY <1>2, <1>3, <2>1
  <2> QED BY <1>1, <2>1, <2>2, RefsInFacts
<1>5. /\ DOMAIN WithoutManaged(staged) = DOMAIN S
      /\ WithoutManaged(staged)[i].cred[k] = IF staged[i].managed /\ k = "oauth" THEN NoCredential ELSE staged[i].cred[k]
  BY <1>3, WithoutManagedFacts
<1>6. CASE staged[i].managed /\ k = "oauth"
  <2>1. staged[i].cred["oauth"] # NoCredential
    BY <1>1, <1>2, <1>3, <1>6 DEF NoCredential
  <2>2. i \in PublisherManaged(staged)
    BY <1>3, <1>6, <2>1 DEF PublisherManaged
  <2>3. r \in RefsIn(<<staged[i]>>)
    BY <1>1, <1>2, <1>3, OneTargetRefs
  <2> QED BY <1>4, <2>2, <2>3
<1>7. CASE ~(staged[i].managed /\ k = "oauth")
  <2>1. r \in RefsIn(WithoutManaged(staged))
    BY <1>1, <1>2, <1>3, <1>5, <1>7, RefsInFacts
  <2> QED BY <1>4, <2>1
<1> QED BY <1>6, <1>7

LEMMA SavesKeepOrphan ==
  ASSUME StoreInv, OrphanInv, saving = None, ~saveBlocked,
         NEW S \in Settings, NEW old \in Settings,
         NEW P \in SUBSET (Nat \X Kinds), NEW R \in SUBSET Refs,
         Saves(S, old, P, R), UNCHANGED <<file, creds, failed>>,
         Owned \cap RefsOf(file) \subseteq RefsIn(old),
         Owned \cap RefsOf(file) \subseteq RefsIn(S) \cup R
  PROVE  OrphanInv'
<1>1. /\ targets' = S /\ saving' # None /\ saving'.step = "backup" /\ saving'.old = old
      /\ saving'.obsolete = R /\ saving'.done = <<>> /\ saving'.origin = creds
  BY SavesFacts
<1>2. RefsIn(S) \subseteq RefsIn(EnsureRefs(S))
  BY EnsureKeepsRefs
<1>3. DOMAIN saving'.done = {}
  BY <1>1
<1>4. Named(saving'.origin, RefsOf(file'), failed') /\ CopiesOfDuplicates(file')
  BY <1>1 DEF OrphanInv
<1>5. /\ Owned \cap RefsOf(file') \subseteq RefsIn(saving'.old)
      /\ Owned \cap RefsOf(file') \subseteq RefsIn(EnsureRefs(targets')) \cup saving'.obsolete
  BY <1>1, <1>2
<1> QED BY <1>1, <1>3, <1>4, <1>5 DEF OrphanInv, Doing

LEMMA OrphanInvNext ==
  ASSUME RestoreInv, BeginsAfresh, ResolveInv({}), OrphanInv, [Next]_vars
  PROVE  OrphanInv'
<1>t. /\ StoreInv /\ TypeOK /\ Protected /\ Restorable /\ targets \in Settings /\ file \in Files
      /\ creds \in [Refs -> Secrets \cup {None}] /\ Owned \subseteq Refs
  BY DEF RestoreInv, StoreInv, TypeOK, Refs
\* A save that failed and has put back what it recorded.
<1>0. ASSUME saving # None, saving.step # "cleanup", saving.done = <<>>, Fails, UNCHANGED <<file, creds, failed>>
      PROVE  OrphanInv'
  <2>1. targets' = saving.old /\ saving' = None
    BY <1>0 DEF Fails
  <2>2. \A r \in Refs \ failed : creds[r] = saving.origin[r]
    BY <1>0, <1>t, NothingDone
  <2>3. Named(creds', RefsOf(file'), failed')
    BY <1>0, <1>t, <2>2 DEF OrphanInv, Named
  <2> QED BY <1>0, <2>1, <2>3 DEF OrphanInv, Doing
<1>1. CASE AddTarget \/ MutateTargetForUi \/ RemoveTarget \/ Save
  <2>1. saving = None /\ running /\ UNCHANGED <<file, creds, failed, running, saveBlocked>>
    BY <1>1, <1>t, EditsSave DEF Idle, disk
  <2>2. PICK S \in Settings, P \in SUBSET (Nat \X Kinds), R \in SUBSET Refs :
          Saves(S, targets, P, R) /\ RefsIn(targets) \subseteq RefsIn(S) \cup R
    BY <1>1, <1>t, EditsSave
  <2>3. CASE saveBlocked
    <3>1. targets' = targets /\ saving' = None
      BY <1>t, <2>1, <2>2, <2>3, SavesFacts
    <3> QED BY <2>1, <2>3, <3>1 DEF OrphanInv, Doing
  <2>4. CASE ~saveBlocked
    <3>1. Owned \cap RefsOf(file) \subseteq RefsIn(targets)
      BY <2>1, <2>4 DEF OrphanInv
    <3> QED BY <1>t, <2>1, <2>2, <2>4, <3>1, SavesKeepOrphan
  <2> QED BY <2>3, <2>4
<1>2. CASE LoadSettings
  <2>1. /\ saving = None /\ ~saveBlocked /\ UNCHANGED <<file, creds, failed, saveBlocked>> /\ file \in Settings
        /\ RefsOf(file) = RefsIn(file)
    BY <1>2, <1>t, LoadSaves, RefsOfFacts DEF Starts, Protected, disk
  <2>2. CASE Duplicates(file) = {} /\ targets' = file /\ UNCHANGED saving
    BY <2>1, <2>2 DEF OrphanInv, Doing
  <2>3. CASE ~(Duplicates(file) = {} /\ targets' = file /\ UNCHANGED saving)
    <3>1. PICK new, T : \E staged \in Settings, S \in Settings, old \in Settings,
                           P \in SUBSET (Nat \X Kinds), R \in SUBSET Refs :
            /\ Renames(file, new) /\ staged = Reassigned(file, new, T)
            /\ S = WithoutManaged(staged) /\ old = Unmigrated(file, staged)
            /\ R = UNION {RefsIn(<<staged[i]>>) : i \in PublisherManaged(staged)}
            /\ Saves(S, old, P, R)
      BY <1>2, <1>t, <2>3, LoadSaves
    <3>2. PICK staged \in Settings, S \in Settings, old \in Settings, P \in SUBSET (Nat \X Kinds), R \in SUBSET Refs :
            /\ Renames(file, new) /\ staged = Reassigned(file, new, T)
            /\ S = WithoutManaged(staged) /\ old = Unmigrated(file, staged)
            /\ R = UNION {RefsIn(<<staged[i]>>) : i \in PublisherManaged(staged)}
            /\ Saves(S, old, P, R)
      BY <3>1
    <3>4. \A r \in Owned \cap RefsIn(file) : r \in RefsIn(old) /\ (r \in RefsIn(S) \/ r \in R)
      BY <1>t, <2>1, <3>2, LoadedKeepsRefs DEF OrphanInv
    <3>5. Owned \cap RefsOf(file) \subseteq RefsIn(old) /\ Owned \cap RefsOf(file) \subseteq RefsIn(S) \cup R
      BY <2>1, <3>4
    <3> QED BY <1>t, <2>1, <3>2, <3>5, SavesKeepOrphan
  <2> QED BY <2>2, <2>3
<1>3. CASE NoFile \/ LoadsNothing
  <2>1. saving = None /\ saving' = None /\ UNCHANGED <<file, creds, failed>>
    BY <1>3, <1>t DEF NoFile, LoadsNothing, Starts, Protected, disk
  <2>2. running' /\ ~saveBlocked' => RefsOf(file') = {}
    BY <1>3, <2>1, RefsOfFacts DEF NoFile, LoadsNothing
  <2> QED BY <2>1, <2>2 DEF OrphanInv, Doing
<1>4. CASE QuarantineInvalidSettings
  <2>1. saving = None /\ saving' = None /\ UNCHANGED <<creds, failed>> /\ file = Corrupt
    BY <1>4, <1>t DEF QuarantineInvalidSettings, Starts, Protected
  <2>2. file' \in {Corrupt, None} /\ RefsOf(Corrupt) = {} /\ RefsOf(None) = {}
    BY <1>4, <2>1 DEF QuarantineInvalidSettings, RefsOf, Unreadable
  <2>3. CopiesOfDuplicates(file')
    BY <2>2, StoreAssumption DEF CopiesOfDuplicates, Unreadable
  <2> QED BY <2>1, <2>2, <2>3 DEF OrphanInv, Doing
<1>5. CASE HydrateTargetSecrets
  <2>1. saving = None /\ UNCHANGED <<file, creds, failed, saving, running, saveBlocked>>
    BY <1>5 DEF HydrateTargetSecrets, Idle, disk
  <2>2. PICK T \in Settings :
          /\ targets' = T /\ DOMAIN T = DOMAIN targets
          /\ \A p \in Positions(T) : At(T, p).ref = At(targets, p).ref
    BY <1>5, <1>t, HydrateFacts
  <2>3. \A i \in DOMAIN T, k \in Kinds : T[i].cred[k].ref = targets[i].cred[k].ref
    <3> SUFFICES ASSUME NEW i \in DOMAIN T, NEW k \in Kinds
                 PROVE  T[i].cred[k].ref = targets[i].cred[k].ref
      OBVIOUS
    <3>1. <<i, k>> \in Positions(T) /\ At(T, <<i, k>>) = T[i].cred[k] /\ At(targets, <<i, k>>) = targets[i].cred[k]
      BY DEF Positions, At
    <3> QED BY <2>2, <3>1
  <2>4. RefsIn(T) = RefsIn(targets)
    BY <2>2, <2>3, SameRefs
  <2> QED BY <2>1, <2>2, <2>4 DEF OrphanInv, Doing
<1>6. CASE BackUp
  <2>1. saving # None /\ saving \in SaveRecord /\ saving.step = "backup" /\ UNCHANGED <<file, creds, failed>>
    BY <1>6, <1>t, SavingFacts DEF BackUp, Doing
  <2>2. CASE Fails
    BY <1>0, <2>1, <2>2 DEF BeginsAfresh, Doing
  <2>3. CASE Proceeds("write") /\ UNCHANGED targets
    <3>1. /\ saving' # None /\ saving'.step = "write" /\ saving'.old = saving.old
          /\ saving'.origin = saving.origin /\ saving'.done = saving.done /\ saving'.obsolete = saving.obsolete
      BY <2>1, <2>3, StoreAssumption DEF Proceeds, SaveRecord
    <3> QED BY <2>1, <2>3, <3>1 DEF OrphanInv, Doing
  <2> QED BY <1>6, <2>2, <2>3 DEF BackUp
<1>7. CASE WriteCredential
  <2>1. saving # None /\ saving \in SaveRecord /\ saving.step = "write" /\ UNCHANGED <<file, targets, failed>>
        /\ saving.todo \subseteq WithSecret(targets)
    BY <1>7, <1>t, SavingFacts DEF WriteCredential, Doing
  <2>2. PICK p \in saving.todo, c \in Credential :
          /\ c = At(EnsureRefs(targets), p)
          /\ c.ref \in Refs /\ c.secret \in Secrets
          /\ \/ saving' = [saving EXCEPT !.todo = @ \ {p}] /\ UNCHANGED creds /\ creds[c.ref] = c.secret
             \/ /\ creds' = [creds EXCEPT ![c.ref] = c.secret]
                /\ saving' = [saving EXCEPT !.todo = @ \ {p},
                                            !.done = Append(@, [ref |-> c.ref, was |-> creds[c.ref]])]
             \/ Proceeds("rollback") /\ UNCHANGED creds
          /\ saving' # None
    BY <1>7, <1>t, WriteCredentialFacts
  <2>3. CASE Proceeds("rollback") /\ UNCHANGED creds
    <3>1. saving' # None /\ saving'.step = "rollback" /\ saving'.old = saving.old /\ saving'.origin = saving.origin
      BY <2>1, <2>3, StoreAssumption DEF Proceeds, SaveRecord
    <3> QED BY <2>1, <3>1 DEF OrphanInv, Doing
  <2>4. CASE saving' = [saving EXCEPT !.todo = @ \ {p}]
    <3>1. /\ saving'.step = "write" /\ saving'.old = saving.old /\ saving'.origin = saving.origin
          /\ saving'.done = saving.done /\ saving'.obsolete = saving.obsolete
      BY <2>1, <2>4 DEF SaveRecord
    <3> QED BY <2>1, <2>2, <3>1 DEF OrphanInv, Doing
  <2>5. CASE saving' = [saving EXCEPT !.todo = @ \ {p}, !.done = Append(@, [ref |-> c.ref, was |-> creds[c.ref]])]
    <3>1. PICK d, e : d = saving.done /\ e = [ref |-> c.ref, was |-> creds[c.ref]]
      OBVIOUS
    <3>2. /\ saving'.step = "write" /\ saving'.old = saving.old /\ saving'.origin = saving.origin
          /\ saving'.done = Append(d, e) /\ saving'.obsolete = saving.obsolete
      BY <2>1, <2>5, <3>1 DEF SaveRecord
    <3>3. \A n \in DOMAIN Append(d, e) : Append(d, e)[n] = e \/ (n \in DOMAIN d /\ Append(d, e)[n] = d[n])
      <4>1. PICK Entry : Entry = [ref : Refs, was : Secrets \cup {None}]
        OBVIOUS
      <4>2. d \in Seq(Entry) /\ e \in Entry
        BY <1>t, <2>1, <2>2, <3>1, <4>1, SavingFacts
      <4>3. /\ Append(d, e) \in Seq(Entry) /\ Len(Append(d, e)) = Len(d) + 1 /\ Append(d, e)[Len(d) + 1] = e
            /\ \A n \in 1 .. Len(d) : Append(d, e)[n] = d[n]
            /\ Len(d) \in Nat /\ DOMAIN d = 1 .. Len(d)
        BY <4>2, AppendProperties, LenProperties
      <4>4. DOMAIN Append(d, e) = 1 .. Len(d) + 1
        BY <4>3, LenProperties
      <4> QED BY <4>3, <4>4
    <3>4. e.ref \in RefsIn(EnsureRefs(targets))
      <4>1. p \in Positions(EnsureRefs(targets))
        BY <1>t, <2>1, EnsureRefsFacts DEF WithSecret, Positions
      <4> QED BY <2>2, <3>1, <4>1, AtRefs, StoreAssumption
    <3>5. \A n \in DOMAIN Append(d, e) : Append(d, e)[n].ref \in RefsIn(EnsureRefs(targets))
      BY <2>1, <3>1, <3>3, <3>4 DEF OrphanInv
    <3> QED BY <2>1, <2>2, <3>2, <3>5 DEF OrphanInv, Doing
  <2> QED BY <2>2, <2>3, <2>4, <2>5
<1>8. CASE Commit
  <2>1. saving # None /\ saving \in SaveRecord /\ saving.step = "write" /\ UNCHANGED <<creds, failed>>
        /\ saving.obsolete \subseteq Refs
    BY <1>8, <1>t, SavingFacts DEF Commit, Doing
  <2>2. CASE Proceeds("rollback") /\ UNCHANGED <<file, targets, known>>
    <3>1. saving' # None /\ saving'.step = "rollback" /\ saving'.old = saving.old /\ saving'.origin = saving.origin
      BY <2>1, <2>2, StoreAssumption DEF Proceeds, SaveRecord
    <3> QED BY <2>1, <2>2, <3>1 DEF OrphanInv, Doing
  <2>3. CASE /\ file' = Content(targets) /\ targets' = Forget(EnsureRefs(targets), saving.forget)
             /\ saving' = [saving EXCEPT !.step = "cleanup", !.obsolete = Unneeded(targets')]
    <3>1. PICK E \in Settings : E = EnsureRefs(targets)
      BY <1>t, EnsureRefsFacts
    <3>2. /\ file' \in Settings /\ RefsOf(file') = RefsIn(E) /\ Duplicates(file') = {}
      <4>1. Content(targets) \in Settings /\ RefsIn(Content(targets)) = RefsIn(E)
        BY <1>t, <3>1, ContentFacts
      <4>2. Duplicates(E) = {}
        BY <1>t, <3>1, EnsureRefsFacts, SameIds DEF ResolveInv
      <4>3. PICK P : P = Positions(targets)
        OBVIOUS
      <4>4. Duplicates(Forget(E, P)) = Duplicates(E)
        BY <3>1, ForgetFacts, SameIds
      <4> QED BY <2>3, <3>1, <4>1, <4>2, <4>3, <4>4, RefsOfFacts DEF Content
    <3>3. RefsIn(targets') = RefsIn(E)
      <4>1. PICK P : P = saving.forget
        OBVIOUS
      <4>2. RefsIn(Forget(E, P)) = RefsIn(E)
        BY <3>1, ForgetKeepsRefs
      <4> QED BY <2>3, <3>1, <4>1, <4>2
    <3>4. saving' # None /\ saving'.step = "cleanup" /\ saving'.obsolete = (saving.obsolete \cap Owned) \ RefsIn(E)
      <4>1. Unneeded(targets') \in SUBSET Refs
        BY <2>1 DEF Unneeded
      <4>2. saving' \in SaveRecord /\ saving'.step = "cleanup" /\ saving'.obsolete = Unneeded(targets')
        BY <2>1, <2>3, <4>1 DEF SaveRecord
      <4> QED BY <3>3, <4>2, StoreAssumption DEF Unneeded
    <3>5. CopiesOfDuplicates(file')
      BY <3>2 DEF CopiesOfDuplicates
    <3>6. ASSUME NEW r \in Owned \ failed, creds[r] # None, r \notin RefsIn(E)
          PROVE  r \in saving.obsolete
      <4>1. \A n \in DOMAIN saving.done : saving.done[n].ref # r
        BY <2>1, <3>1, <3>6 DEF OrphanInv
      <4>2. creds[r] = saving.origin[r]
        BY <1>t, <2>1, <4>1 DEF Restorable
      <4>3. r \in RefsOf(file)
        BY <2>1, <3>6, <4>2 DEF OrphanInv, Named
      <4> QED BY <2>1, <3>1, <3>6, <4>3 DEF OrphanInv
    <3>7. Named(creds', RefsOf(file') \cup saving'.obsolete, failed')
      BY <2>1, <3>2, <3>4, <3>6 DEF Named
    <3> QED BY <3>2, <3>3, <3>4, <3>5, <3>7 DEF OrphanInv, Doing
  <2> QED BY <1>8, <2>2, <2>3 DEF Commit
<1>9. CASE RollBack
  <2>1. saving # None /\ saving \in SaveRecord /\ saving.step = "rollback" /\ UNCHANGED file
    BY <1>9, <1>t, SavingFacts DEF RollBack, Doing
  <2>2. CASE saving.done = <<>> /\ Fails /\ UNCHANGED <<creds, failed>>
    BY <1>0, <2>1, <2>2
  <2>3. CASE ~(saving.done = <<>> /\ Fails /\ UNCHANGED <<creds, failed>>)
    <3>1. PICK f : f = SubSeq(saving.done, 1, Len(saving.done) - 1)
      OBVIOUS
    <3>2. saving' = [saving EXCEPT !.done = f] /\ failed \subseteq failed'
      BY <1>9, <2>3, <3>1 DEF RollBack
    <3>3. saving' # None /\ saving'.step = "rollback" /\ saving'.old = saving.old /\ saving'.origin = saving.origin
      <4>1. saving.done # <<>>
        BY <1>9, <2>3 DEF RollBack
      <4>2. f \in Seq([ref : Refs, was : Secrets \cup {None}])
        BY <1>t, <2>1, <3>1, <4>1, DoneFacts
      <4>3. saving' \in SaveRecord
        BY <2>1, <3>2, <4>2 DEF SaveRecord
      <4> QED BY <2>1, <3>2, <4>3, StoreAssumption DEF SaveRecord
    <3>4. Named(saving'.origin, RefsOf(file'), failed')
      BY <2>1, <3>2, <3>3 DEF OrphanInv, Named
    <3> QED BY <2>1, <3>3, <3>4 DEF OrphanInv, Doing
  <2> QED BY <2>2, <2>3
<1>10. CASE CleanUp
  <2>1. saving # None /\ saving \in SaveRecord /\ saving.step = "cleanup" /\ UNCHANGED <<file, targets, running, saveBlocked>>
    BY <1>10, <1>t, SavingFacts DEF CleanUp, Doing
  <2>2. CASE saving.obsolete = {} /\ saving' = None /\ UNCHANGED <<creds, failed>>
    BY <2>1, <2>2 DEF OrphanInv, Doing
  <2>3. CASE ~(saving.obsolete = {} /\ saving' = None /\ UNCHANGED <<creds, failed>>)
    <3>1. PICK r \in saving.obsolete :
            /\ saving' = [saving EXCEPT !.obsolete = @ \ {r}]
            /\ \/ creds' = [creds EXCEPT ![r] = None] /\ UNCHANGED failed
               \/ failed' = failed \cup {r} /\ UNCHANGED creds
      BY <1>10, <2>3 DEF CleanUp
    <3>2. saving' # None /\ saving'.step = "cleanup" /\ saving'.obsolete = saving.obsolete \ {r}
      BY <2>1, <3>1, StoreAssumption DEF SaveRecord
    <3>3. Named(creds, RefsOf(file) \cup saving.obsolete, failed) /\ Owned \cap RefsOf(file) \subseteq RefsIn(targets)
      BY <2>1 DEF OrphanInv, Doing
    <3>4. Named(creds', RefsOf(file') \cup saving'.obsolete, failed')
      BY <1>t, <2>1, <3>1, <3>2, <3>3 DEF Named
    <3> QED BY <2>1, <3>2, <3>3, <3>4 DEF OrphanInv, Doing
  <2> QED BY <2>2, <2>3
<1>11. CASE Stops
  <2>1. saving' = None /\ ~running' /\ UNCHANGED <<file, creds>>
    BY <1>11 DEF Stops, disk
  <2>2. Named(creds', RefsOf(file'), failed')
    <3>1. CASE saving = None
      BY <1>11, <2>1, <3>1 DEF OrphanInv, Named, Stops
    <3>2. CASE saving # None /\ saving.step = "cleanup"
      BY <1>11, <2>1, <3>2 DEF OrphanInv, Named, Stops, Doing
    <3>3. CASE saving # None /\ saving.step # "cleanup"
      <4>1. failed' = failed \cup {saving.done[n].ref : n \in DOMAIN saving.done}
        BY <1>11, <3>3 DEF Stops
      <4>2. \A r \in Owned \ failed' : creds[r] = saving.origin[r]
        BY <1>t, <3>3, <4>1 DEF Restorable
      <4> QED BY <2>1, <3>3, <4>1, <4>2 DEF OrphanInv, Named
    <3> QED BY <3>1, <3>2, <3>3
  <2> QED BY <2>1, <2>2 DEF OrphanInv, Doing
<1>12. CASE UNCHANGED vars
  <2>1. UNCHANGED <<file, creds, targets, saving, failed, running, saveBlocked>>
    BY <1>12 DEF vars
  <2> QED BY <2>1 DEF OrphanInv, Doing
<1> QED BY <1>1, <1>2, <1>3, <1>4, <1>5, <1>6, <1>7, <1>8, <1>9, <1>10, <1>11, <1>12 DEF Next

\* Theorem: between saves the plug-in's credentials are those the file names:
\* failed saves, edits, removals and migrations leave none behind, unless the store
\* failed or OBS crashed in the middle of one (rollbackSecretWrites,
\* deleteUnreferencedTargetSecrets).  The assumption excludes a file, edited by
\* hand, in which a target has the id of an earlier one and credentials of
\* its own: they are copied for its new id, and nothing deletes the originals.
THEOREM NothingIsLeftBehind ==
  ASSUME \A f \in InitialFiles : CopiesOfDuplicates(f)
  PROVE  Spec => []NoOrphans
<1> DEFINE I == RestoreInv /\ BeginsAfresh /\ ResolveInv({}) /\ OrphanInv
<1>1. Init => I
  <2> SUFFICES ASSUME Init
               PROVE  I
    OBVIOUS
  <2>1. /\ targets = <<>> /\ saving = None /\ ~running /\ file \in InitialFiles /\ Owned \subseteq Refs
        /\ \A r \in Refs : creds[r] # None <=> r \in RefsOf(file)
    BY DEF Init, Refs
  <2>2. OrphanInv
    BY <2>1 DEF OrphanInv, Named, Doing
  <2>3. {} \in SUBSET Refs /\ Loadable({}, file)
    BY DEF Loadable
  <2> QED BY <2>1, <2>2, <2>3, StoreInvInit, ResolveInvInit DEF RestoreInv, Restorable, BeginsAfresh, Doing
<1>2. I /\ [Next]_vars => I'
  <2>1. {} \in SUBSET Refs
    OBVIOUS
  <2> QED BY <2>1, RestoreInvNext, BeginsAfreshNext, ResolveInvNext, OrphanInvNext DEF RestoreInv
<1>3. I => NoOrphans
  BY DEF NoOrphans, Idle, OrphanInv, Named
<1> QED BY <1>1, <1>2, <1>3, PTL DEF Spec
=============================================================================
