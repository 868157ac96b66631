-------------------------- MODULE MCSettingsStore --------------------------
(* Instances of SettingsStore for TLC. *)
EXTENDS SettingsStore, TLC

CONSTANTS t1, t2, s1, s2

TwoIds     == {t1, t2}
TwoSecrets == {s1, s2}
Symmetry   == Permutations(TwoSecrets)

Ref(r)      == [ref |-> r, secret |-> None]
Plain(s)    == [ref |-> None, secret |-> s]
Stored(id, managed, key, oauth) ==
  [id |-> id, managed |-> managed, cred |-> [k \in Kinds |-> IF k = "key" THEN key ELSE oauth]]

OwnKey   == Ref(Own("key", t1))
OwnOauth == Ref(Own("oauth", t1))

\* Settings as this version writes them; an id twice, as older versions and
\* edits by hand left it, the first login managed by the publisher since; a
\* key in the file; a reference that is not the plug-in's.
Usual     == <<Stored(t1, FALSE, OwnKey, OwnOauth)>>
TwiceKey  == <<Stored(t1, TRUE, OwnKey, NoCredential), Stored(t1, FALSE, OwnKey, NoCredential)>>
TwiceOauth == <<Stored(t1, TRUE, OwnKey, OwnOauth), Stored(t1, FALSE, NoCredential, OwnOauth)>>
PlainOnes == {<<Stored(t1, TRUE, Plain(s), NoCredential)>> : s \in TwoSecrets}
Strange   == <<Stored(t1, FALSE, Ref(Foreign), NoCredential)>>

FoundFiles == {None, Corrupt, Newer, Usual, TwiceKey, TwiceOauth, Strange} \cup PlainOnes
=============================================================================
