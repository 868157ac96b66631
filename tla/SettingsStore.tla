--------------------------- MODULE SettingsStore ---------------------------
(***************************************************************************)
(* The settings of a profile: a file that names credentials, the copy of   *)
(* its last version, and the credential store of the operating system,     *)
(* which no transaction spans.  A save copies the file, writes the         *)
(* credentials one by one, replaces the file (QSaveFile) and then deletes  *)
(* credentials that are not needed any more; any of it may fail, and OBS   *)
(* may crash between any two effects, which are therefore actions of their *)
(* own here.  Nothing else can come between: saves run on the GUI thread.  *)
(*                                                                         *)
(* A target is reduced to its id, whether the publisher manages its login  *)
(* (Twitch, Kick), and its credentials: the stream key and what OAuth      *)
(* needs.  A credential is a reference and, while known, the secret.       *)
(* Bounds: MaxTargets and MaxEdits.                                        *)
(***************************************************************************)
EXTENDS Naturals, Sequences

CONSTANTS
  Ids,
  Secrets,
  Foreign,       \* a reference outside the plug-in's namespace
  InitialFiles,  \* what may be found when OBS starts for the first time
  Corrupt,       \* a file that cannot be read as schema 1
  Newer,         \* a file of a newer schema
  None,
  MaxTargets,
  MaxEdits

Kinds == {"key", "oauth"}

\* streamKeyCredentialRef, oauth...CredentialRef; isOwnedCredentialRef
Own(k, id) == <<k, id>>
Owned      == Kinds \X Ids
Refs       == Owned \cup {Foreign}

Credential == [ref : Refs \cup {None}, secret : Secrets \cup {None}]
Target     == [id : Ids, managed : BOOLEAN, cred : [Kinds -> Credential]]
Settings   == {S \in Seq(Target) : Len(S) <= MaxTargets}
Unreadable == {Corrupt, Newer}
Files      == Settings \cup Unreadable \cup {None}

NoCredential == [ref |-> None, secret |-> None]

\* A save: how far it is, what it puts back if it fails, what it has to do
\* and has done, and the credentials that it found.
SaveRecord ==
  [step : {"backup", "write", "rollback", "cleanup"}, old : Settings,
   forget : SUBSET (Nat \X Kinds), obsolete : SUBSET Refs, todo : SUBSET (Nat \X Kinds),
   done : Seq([ref : Refs, was : Secrets \cup {None}]), origin : [Refs -> Secrets \cup {None}]]

ASSUME StoreAssumption ==
  /\ MaxTargets \in Nat /\ MaxEdits \in Nat
  /\ InitialFiles \subseteq Files
  /\ None \notin Secrets \cup Refs \cup Unreadable /\ Foreign \notin Owned /\ Corrupt # Newer
  /\ \A x \in Unreadable \cup {None} : x \notin Settings
  /\ None \notin SaveRecord

VARIABLES
  \* what lasts
  file,         \* dsk-multistream.json; None: there is none
  backup,       \* dsk-multistream.json.bak
  kept,         \* the files that were moved away (quarantineInvalidSettings)
  creds,        \* the secret stored under each reference
  \* what OBS has in memory
  running,
  targets,      \* targets_
  saveBlocked,  \* saveBlocked_
  saving,       \* the save under way: what it has done and has to do
  \* for the properties, and the bound
  known,        \* the file is as it was loaded or written since OBS started
  failed,       \* references on which the store failed or a crash cut in
  edits

vars == <<file, backup, kept, creds, running, targets, saveBlocked, saving, known, failed, edits>>

disk   == <<file, backup, kept, creds>>

-----------------------------------------------------------------------------
(* Operators on targets *)

Positions(S) == (DOMAIN S) \X Kinds

At(S, p) == S[p[1]].cred[p[2]]

RefsIn(S) == {At(S, p).ref : p \in Positions(S)} \ {None}

RefsOf(f) == IF f \in Unreadable \cup {None} THEN {} ELSE RefsIn(f)

\* ensureCredentialRefs, and the same again in SettingsStore::save
Ensured(c, ref) == IF c.secret # None /\ c.ref = None THEN [c EXCEPT !.ref = ref] ELSE c

EnsureRefs(S) ==
  [i \in DOMAIN S |-> [S[i] EXCEPT !.cred = [k \in Kinds |-> Ensured(@[k], Own(k, S[i].id))]]]

Forget(S, P) ==
  [i \in DOMAIN S |->
     [S[i] EXCEPT !.cred = [k \in Kinds |-> IF <<i, k>> \in P THEN [@[k] EXCEPT !.secret = None] ELSE @[k]]]]

\* What is written: references, and never a secret.
Content(S) == Forget(EnsureRefs(S), Positions(S))

WithSecret(S) == {p \in Positions(S) : At(S, p).secret # None}

\* The order in which the credentials of targets are written.
Before(p, q) == p[1] < q[1] \/ (p[1] = q[1] /\ p[2] = "key" /\ q[2] = "oauth")

Without(S, i) == [j \in 1 .. Len(S) - 1 |-> IF j < i THEN S[j] ELSE S[j + 1]]

-----------------------------------------------------------------------------
(* Saving: OutputManager::save with targets S.  If it fails its caller puts *)
(* back old; if not, the secrets at P are forgotten, and the references in  *)
(* R that no target has any more are deleted from the store.                *)

Saves(S, old, P, R) ==
  IF saveBlocked
  THEN targets' = old /\ UNCHANGED saving
  ELSE /\ targets' = S
       /\ saving' = [step |-> "backup", old |-> old, forget |-> P, obsolete |-> R,
                     todo |-> WithSecret(S), done |-> <<>>, origin |-> creds]

Doing(step) == saving # None /\ saving.step = step

Proceeds(step) == saving' = [saving EXCEPT !.step = step]

Fails == targets' = saving.old /\ saving' = None

\* The copy of the last version; it may fail, as may opening the new file.
BackUp ==
  /\ Doing("backup")
  /\ \/ /\ backup' = IF file = None THEN backup ELSE file
        /\ Proceeds("write")
        /\ UNCHANGED targets
     \/ Fails /\ UNCHANGED backup
  /\ UNCHANGED <<file, kept, creds, running, saveBlocked, known, failed, edits>>

\* Faulty variant: a credential that is stored already is not written.
WriteMissingCredential ==
  /\ Doing("write")
  /\ \E p \in saving.todo :
       LET c == At(EnsureRefs(targets), p)
       IN /\ \A q \in saving.todo : p = q \/ Before(p, q)
          /\ creds' = IF creds[c.ref] = None THEN [creds EXCEPT ![c.ref] = c.secret] ELSE creds
          /\ saving' = [saving EXCEPT !.todo = @ \ {p}]
  /\ UNCHANGED <<file, backup, kept, running, targets, saveBlocked, known, failed, edits>>

\* applySecretWrites: one credential is compared and, if need be, written;
\* either may fail.
WriteCredential ==
  /\ Doing("write")
  /\ \E p \in saving.todo :
       LET c == At(EnsureRefs(targets), p)
       IN /\ \A q \in saving.todo : p = q \/ Before(p, q)
          /\ \/ /\ creds[c.ref] = c.secret
                /\ saving' = [saving EXCEPT !.todo = @ \ {p}]
                /\ UNCHANGED creds
             \/ /\ creds[c.ref] # c.secret
                /\ creds' = [creds EXCEPT ![c.ref] = c.secret]
                /\ saving' = [saving EXCEPT !.todo = @ \ {p},
                                            !.done = Append(@, [ref |-> c.ref, was |-> creds[c.ref]])]
             \/ Proceeds("rollback") /\ UNCHANGED creds
  /\ UNCHANGED <<file, backup, kept, running, targets, saveBlocked, known, failed, edits>>

\* Faulty variant: credentials are deleted that other targets have.
UnneededByItself(S) == saving.obsolete \cap Owned

\* Faulty variant: and credentials that are not the plug-in's.
UnneededOrForeign(S) == saving.obsolete \ RefsIn(S)

Unneeded(S) == (saving.obsolete \cap Owned) \ RefsIn(S)

\* QSaveFile::commit
Commit ==
  /\ Doing("write") /\ saving.todo = {}
  /\ \/ /\ file' = Content(targets)
        /\ targets' = Forget(EnsureRefs(targets), saving.forget)
        /\ known' = TRUE
        /\ saving' = [saving EXCEPT !.step = "cleanup", !.obsolete = Unneeded(targets')]
     \/ Proceeds("rollback") /\ UNCHANGED <<file, targets, known>>
  /\ UNCHANGED <<backup, kept, creds, running, saveBlocked, failed, edits>>

\* Faulty variant: the first credential written is put back first.
RollBackInOrder ==
  /\ Doing("rollback")
  /\ \/ saving.done = <<>> /\ Fails /\ UNCHANGED <<creds, failed>>
     \/ /\ saving.done # <<>>
        /\ LET first == saving.done[1]
           IN creds' = [creds EXCEPT ![first.ref] = first.was] /\ UNCHANGED failed
        /\ saving' = [saving EXCEPT !.done = Tail(@)]
        /\ UNCHANGED targets
  /\ UNCHANGED <<file, backup, kept, running, saveBlocked, known, edits>>

\* Faulty variant: a credential that is new is not deleted again.
RollBackChanged ==
  /\ Doing("rollback")
  /\ \/ saving.done = <<>> /\ Fails /\ UNCHANGED creds
     \/ /\ saving.done # <<>>
        /\ LET last == saving.done[Len(saving.done)]
           IN creds' = IF last.was = None THEN creds ELSE [creds EXCEPT ![last.ref] = last.was]
        /\ saving' = [saving EXCEPT !.done = SubSeq(@, 1, Len(@) - 1)]
        /\ UNCHANGED targets
  /\ UNCHANGED <<file, backup, kept, running, saveBlocked, known, failed, edits>>

\* rollbackSecretWrites: the credential written last is put back as it was, or
\* deleted if there was none; either may fail.
RollBack ==
  /\ Doing("rollback")
  /\ \/ saving.done = <<>> /\ Fails /\ UNCHANGED <<creds, failed>>
     \/ /\ saving.done # <<>>
        /\ LET last == saving.done[Len(saving.done)]
           IN \/ creds' = [creds EXCEPT ![last.ref] = last.was] /\ UNCHANGED failed
              \/ failed' = failed \cup {last.ref} /\ UNCHANGED creds
        /\ saving' = [saving EXCEPT !.done = SubSeq(@, 1, Len(@) - 1)]
        /\ UNCHANGED targets
  /\ UNCHANGED <<file, backup, kept, running, saveBlocked, known, edits>>

\* deleteUnreferencedTargetSecrets
CleanUp ==
  /\ Doing("cleanup")
  /\ \/ saving.obsolete = {} /\ saving' = None /\ UNCHANGED <<creds, failed>>
     \/ \E r \in saving.obsolete :
          /\ saving' = [saving EXCEPT !.obsolete = @ \ {r}]
          /\ \/ creds' = [creds EXCEPT ![r] = None] /\ UNCHANGED failed
             \/ failed' = failed \cup {r} /\ UNCHANGED creds
  /\ UNCHANGED <<file, backup, kept, running, targets, saveBlocked, known, edits>>

-----------------------------------------------------------------------------
(* Loading *)

Starts == ~running /\ running' = TRUE

NoFile ==
  /\ Starts /\ file = None
  /\ targets' = <<>> /\ known' = TRUE
  /\ UNCHANGED <<disk, saveBlocked, saving, failed, edits>>

\* The file cannot be opened, or has a newer schema.
LoadsNothing ==
  /\ Starts /\ file # None
  /\ targets' = <<>> /\ saveBlocked' = TRUE
  /\ UNCHANGED <<disk, saving, known, failed, edits>>

\* Faulty variant: a file that could not be moved away may be written.
QuarantineIfPossible ==
  /\ Starts /\ file = Corrupt
  /\ targets' = <<>>
  /\ \/ kept' = kept \cup {file} /\ file' = None /\ known' = TRUE
     \/ UNCHANGED <<file, kept, known>>
  /\ UNCHANGED <<backup, creds, saveBlocked, saving, failed, edits>>

\* quarantineInvalidSettings; a file that cannot be moved away is protected.
QuarantineInvalidSettings ==
  /\ Starts /\ file = Corrupt
  /\ targets' = <<>>
  /\ \/ kept' = kept \cup {file} /\ file' = None /\ known' = TRUE /\ UNCHANGED saveBlocked
     \/ saveBlocked' = TRUE /\ UNCHANGED <<file, kept, known>>
  /\ UNCHANGED <<backup, creds, saving, failed, edits>>

Duplicates(S) == {i \in DOMAIN S : \E j \in 1 .. i - 1 : S[j].id = S[i].id}

\* stageCredentialForReassignedTarget
Staged(c, ref, readable) ==
  IF c.secret # None THEN [c EXCEPT !.ref = ref]
  ELSE IF readable /\ c.ref \in Owned /\ creds[c.ref] # None
  THEN [ref |-> ref, secret |-> creds[c.ref]]
  ELSE c

\* Targets of an id that was seen before get a new one, and their own copy of
\* each credential in R, which can be read.
Reassigned(S, new, R) ==
  [i \in DOMAIN S |->
     IF i \notin Duplicates(S) THEN S[i]
     ELSE [S[i] EXCEPT !.id = new[i],
                       !.cred = [k \in Kinds |-> Staged(@[k], Own(k, new[i]), <<i, k>> \in R)]]]

\* migratePublisherManagedOAuthCredentials
PublisherManaged(S) == {i \in DOMAIN S : S[i].managed /\ S[i].cred["oauth"] # NoCredential}

WithoutManaged(S) ==
  [i \in DOMAIN S |-> IF S[i].managed THEN [S[i] EXCEPT !.cred["oauth"] = NoCredential] ELSE S[i]]

\* What is put back when the migrated settings cannot be saved: new ids stay,
\* and so do managed credentials as they were staged.
Unmigrated(S, R) ==
  [i \in DOMAIN S |->
     [R[i] EXCEPT !.cred = [k \in Kinds |-> IF k = "oauth" /\ i \in PublisherManaged(R) THEN @[k] ELSE S[i].cred[k]]]]

\* loadSettingsFromCurrentProfile, for a file of schema 1
LoadSettings ==
  /\ Starts /\ file \notin Unreadable \cup {None}
  /\ known' = TRUE
  /\ \E new \in [Duplicates(file) -> Ids \ {file[i].id : i \in DOMAIN file}], R \in SUBSET (Duplicates(file) \X Kinds) :
       LET staged == Reassigned(file, new, R)
           forget == {p \in Duplicates(file) \X Kinds : At(file, p).secret = None}
           left   == UNION {RefsIn(<<staged[i]>>) : i \in PublisherManaged(staged)}
       IN /\ \A i, j \in Duplicates(file) : new[i] = new[j] => i = j
          /\ IF Duplicates(file) = {} /\ PublisherManaged(file) = {} /\ WithSecret(file) = {}
             THEN targets' = file /\ UNCHANGED saving
             ELSE Saves(WithoutManaged(staged), Unmigrated(file, staged), forget, left)
  /\ UNCHANGED <<disk, saveBlocked, failed, edits>>

-----------------------------------------------------------------------------
(* Operations *)

Idle == running /\ saving = None

Edits == Idle /\ edits < MaxEdits /\ edits' = edits + 1

\* What the dialog may make of a credential: kept, typed anew, or dropped
\* with or without its reference.
Retyped(c) == {c, [c EXCEPT !.secret = None], NoCredential} \cup [ref : {c.ref, None}, secret : Secrets]

NewCredentials == [ref : {None}, secret : Secrets \cup {None}]

AddTarget ==
  /\ Edits /\ Len(targets) < MaxTargets
  /\ \E id \in Ids \ {targets[i].id : i \in DOMAIN targets}, managed \in BOOLEAN, key, oauth \in NewCredentials :
       /\ managed => oauth = NoCredential
       /\ Saves(Append(targets, [id |-> id, managed |-> managed,
                                 cred |-> [k \in Kinds |-> IF k = "key" THEN key ELSE oauth]]),
                targets, {}, {})
  /\ UNCHANGED <<disk, running, saveBlocked, known, failed>>

Retargeted(i, managed, key, oauth) ==
  [targets EXCEPT ![i].managed = managed,
                  ![i].cred = [k \in Kinds |-> IF k = "key" THEN key ELSE oauth]]

\* mutateTargetForUi
MutateTargetForUi ==
  /\ Edits
  /\ \E i \in DOMAIN targets : \E managed \in BOOLEAN, key \in Retyped(targets[i].cred["key"]),
        oauth \in Retyped(targets[i].cred["oauth"]) :
       /\ managed => oauth = NoCredential
       /\ Saves(Retargeted(i, managed, key, oauth), targets, {}, RefsIn(<<targets[i]>>))
  /\ UNCHANGED <<disk, running, saveBlocked, known, failed>>

\* finalizeTargetRemoval
RemoveTarget ==
  /\ Edits
  /\ \E i \in DOMAIN targets : Saves(Without(targets, i), targets, {}, RefsIn(<<targets[i]>>))
  /\ UNCHANGED <<disk, running, saveBlocked, known, failed>>

\* setTargetEnabled, setTargetSceneMode, saveVerticalLayout, ...
Save ==
  /\ Edits
  /\ Saves(targets, targets, {}, {})
  /\ UNCHANGED <<disk, running, saveBlocked, known, failed>>

Hydrated(c) ==
  IF c.secret = None /\ c.ref \in Owned /\ creds[c.ref] # None THEN [c EXCEPT !.secret = creds[c.ref]] ELSE c

\* hydrateTargetSecrets, when a target starts: what cannot be read ends it.
HydrateTargetSecrets ==
  /\ Idle
  /\ \E i \in DOMAIN targets, G \in {{"key"}, Kinds} :
       LET key == Hydrated(targets[i].cred["key"])
       IN /\ "oauth" \in G => ~targets[i].managed /\ (key.secret # None \/ key.ref = None)
          /\ targets' = [targets EXCEPT ![i].cred = [k \in Kinds |-> IF k \in G THEN Hydrated(@[k]) ELSE @[k]]]
  /\ UNCHANGED <<disk, running, saveBlocked, saving, known, failed, edits>>

\* OBS is closed, leaves the profile, or crashes.
Stops ==
  /\ running
  /\ running' = FALSE /\ targets' = <<>> /\ saveBlocked' = FALSE /\ saving' = None /\ known' = FALSE
  /\ failed' = failed \cup (IF saving = None THEN {}
                            ELSE IF saving.step = "cleanup" THEN saving.obsolete
                            ELSE {saving.done[n].ref : n \in DOMAIN saving.done})
  /\ UNCHANGED <<disk, edits>>

Init ==
  /\ file \in InitialFiles
  /\ backup = None /\ kept = {}
  /\ creds \in [Refs -> Secrets \cup {None}]
  /\ \A r \in Refs : creds[r] # None <=> r \in RefsOf(file)
  /\ running = FALSE /\ targets = <<>> /\ saveBlocked = FALSE /\ saving = None
  /\ known = FALSE /\ failed = {} /\ edits = 0

Next ==
  \/ NoFile \/ LoadsNothing \/ QuarantineInvalidSettings \/ LoadSettings
  \/ AddTarget \/ MutateTargetForUi \/ RemoveTarget \/ Save \/ HydrateTargetSecrets
  \/ BackUp \/ WriteCredential \/ Commit \/ RollBack \/ CleanUp
  \/ Stops

Spec == Init /\ [][Next]_vars

-----------------------------------------------------------------------------
(* Properties *)

\* Types of the variables.
TypeOK ==
  /\ file \in Files /\ backup \in Files /\ kept \subseteq {Corrupt}
  /\ creds \in [Refs -> Secrets \cup {None}]
  /\ targets \in Settings
  /\ saving \in SaveRecord \cup {None}
  /\ saving # None => saving.todo \subseteq WithSecret(targets)
  /\ {running, saveBlocked, known} \subseteq BOOLEAN
  /\ failed \subseteq Refs /\ edits \in 0 .. MaxEdits

\* Every reference in the file names a credential that is stored, at every
\* moment OBS may crash: credentials are written before the file that names
\* them, and deleted after the file that does not, and only if no target is
\* left that shares them (SettingsStore::save, deleteUnreferencedTargetSecrets).
ReferencesResolve == \A r \in RefsOf(file) : creds[r] # None

\* A save that failed has left the credentials as it found them, also where
\* two targets have the same reference, except those the store refused to put
\* back (rollbackSecretWrites, in reverse).
FailedSaveRestores ==
  Doing("rollback") /\ saving.done = <<>> =>
    \A r \in Refs \ failed : creds[r] = saving.origin[r]

\* Each version of the file that is replaced is in the copy, or was moved
\* away: one failed step does not lose it (the backup at the head of save).  A
\* file that OBS could not read or open is never the one that is replaced: it
\* is moved away, or nothing is saved (saveBlocked_).
ReplacedIsKept ==
  [][file' # file /\ file # None =>
       \/ file \in kept'
       \/ known /\ backup = file]_vars

Shared(r) == \E p, q \in Positions(targets) : p # q /\ At(targets, p).ref = r /\ At(targets, q).ref = r

\* Between saves, a secret in memory is the one stored for its target, so the
\* next session of OBS streams with the key that this one shows; provided that
\* no other target has the reference and the store did not fail on it.
SecretsAreStored ==
  Idle /\ file = Content(targets) =>
    \A p \in Positions(targets) :
      LET c == At(targets, p)
      IN c.secret # None /\ ~Shared(c.ref) /\ c.ref \notin failed => creds[c.ref] = c.secret

\* Between saves, the plug-in's credentials are those the file names: failed
\* saves, edits and removals leave none behind, unless the store failed.
NoOrphans == Idle /\ ~saveBlocked => \A r \in Owned \ failed : creds[r] # None => r \in RefsOf(file)

\* A credential outside the plug-in's namespace is never removed, although a
\* file may name it (isOwnedCredentialRef).
ForeignSurvives == [][creds[Foreign] # None => creds'[Foreign] # None]_vars
=============================================================================
