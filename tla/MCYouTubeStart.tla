--------------------------- MODULE MCYouTubeStart ---------------------------
(* Instances of YouTubeStart for TLC. *)
EXTENDS YouTubeStart, TLC

CONSTANTS b1, b2, ours, theirs

OneBroadcast  == {b1}
NoBroadcasts  == {}
TwoBroadcasts == {b1, b2}
OurKey        == {ours}

AllOurs == [b \in Broadcasts |-> ours]
OneOurs == [b \in Broadcasts |-> IF b = b1 THEN ours ELSE theirs]
Unbound == [b \in Broadcasts |-> NoStream]

OnlyOurs       == {AllOurs}
OursOrUnbound  == {AllOurs, Unbound}
OursOrOneOurs  == {AllOurs, OneOurs}

=============================================================================
