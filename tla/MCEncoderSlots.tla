---------------------------- MODULE MCEncoderSlots ----------------------------
(***************************************************************************)
(* Small instances of EncoderSlots, Watching and Notices.  They share no   *)
(* state here: each behaviour is one of one of them, told by part; and a   *)
(* share link is of a video or of a playlist.                              *)
(***************************************************************************)
EXTENDS EncoderSlots, Watching, Notices

\* What an operator may set: nothing sensible, one, two.
MCLimits == {-1, 0, 1, 2}

VARIABLE part

pages == <<watchingVars, noticeVars>>

PagesInit ==
  /\ Init /\ WatchingInit /\ NoticesInit
  /\ part \in {"slots", "videos", "playlists", "notices"}

\* A link that is left alone.
Untouched(t) == share'[t] = share[t] /\ \A a \in Viewers : cookie'[a][t] = cookie[a][t]

PagesNext ==
  \/ part = "slots" /\ Next /\ UNCHANGED <<pages, part>>
  \/ /\ WatchingNext
     /\ \/ part = "videos" /\ \A t \in PlaylistLinks : Untouched(t)
        \/ part = "playlists" /\ \A t \in VideoLinks : Untouched(t)
     /\ UNCHANGED <<vars, noticeVars, part>>
  \/ part = "notices" /\ NoticesNext /\ UNCHANGED <<vars, watchingVars, part>>
  \* The page of a deleted video is the end of it; that the encoders never stop is checked.
  \/ part = "videos" /\ UNCHANGED <<vars, pages, part>>

\* The fairness of EncoderSlots allows the other parts: none of its actions is enabled
\* before a job asks for a slot.
PagesSpec == PagesInit /\ [][PagesNext]_<<vars, pages, part>> /\ Fairness

\* The state of every module has its type.
TypesOK == TypeOK /\ WatchingTypeOK /\ NoticesTypeOK
=============================================================================
