------------------------------ MODULE Notices ------------------------------
(***************************************************************************)
(* What a video's owner is told of its views and comments: view.go,        *)
(* comment.go, notification.go and digest_worker.go.                       *)
(*                                                                         *)
(* A view or comment is stored, and a goroutine decides from settings it   *)
(* reads then, or that were read with the page, whether to mail the owner  *)
(* at once; once a day the digest decides again, from the settings of that *)
(* moment.  Slack and webhooks are sent everything and are left out.  What *)
(* falls into the digest's window, the 24 hours before its query, is left  *)
(* open: any of the rows.                                                  *)
(***************************************************************************)
EXTENDS Naturals, FiniteSets

CONSTANTS Events,   \* views and comments of one video
          NoEvent

VARIABLES accountMode,    \* notification_preferences.view_notification
          videoMode,      \* videos.view_notification
          commentMode,    \* videos.comment_mode
          videoDeleted,   \* videos.status
          event           \* rows of video_views and video_comments, and their goroutines

noticeVars == <<accountMode, videoMode, commentMode, videoDeleted, event>>

AccountModes == {"off", "views_only", "comments_only", "views_and_comments", "digest"}
VideoModes == {"null", "off", "every", "digest"}
CommentModes == {"disabled", "anonymous", "name_required", "name_email_required"}
Authors == {"nobody", "named", "with_email", "reaction"}
Kinds == {"view", "comment"}

\* own: by the owner; silent: private, or a quick reaction; read: the setting the page was
\* answered from; now and later: history, that it was mailed at once and in a digest;
\* settled: history, that no setting has changed since.
Event == [kind : Kinds, pc : {"insert", "decide", "mail", "done"}, read : VideoModes,
          own : BOOLEAN, private : BOOLEAN, reaction : BOOLEAN, stored : BOOLEAN,
          now : BOOLEAN, later : BOOLEAN, settled : BOOLEAN]

NoticesInit ==
  /\ accountMode = "off" /\ videoMode = "null" /\ commentMode = "disabled"
  /\ videoDeleted = FALSE
  /\ event = [i \in Events |-> NoEvent]

Came(i) == event[i] # NoEvent
SendsImmediateViews(mode) == mode \in {"views_only", "views_and_comments"}
SendsImmediateComments(mode) == mode \in {"comments_only", "views_and_comments"}

(***************************************************************************)
(* PutNotificationPreferences, SetVideoNotification, SetCommentMode.       *)
(***************************************************************************)
Unsettled == [i \in Events |-> IF Came(i) THEN [event[i] EXCEPT !.settled = FALSE] ELSE NoEvent]

PutNotificationPreferences(mode) ==
  /\ mode # accountMode /\ accountMode' = mode /\ event' = Unsettled
  /\ UNCHANGED <<videoMode, commentMode, videoDeleted>>

SetVideoNotification(mode) ==
  /\ ~videoDeleted /\ mode # videoMode
  /\ videoMode' = mode /\ event' = Unsettled
  /\ UNCHANGED <<accountMode, commentMode, videoDeleted>>

SetCommentMode(mode) ==
  /\ mode # commentMode /\ commentMode' = mode
  /\ UNCHANGED <<accountMode, videoMode, videoDeleted, event>>

DeleteVideo ==
  /\ ~videoDeleted /\ videoDeleted' = TRUE
  /\ UNCHANGED <<accountMode, videoMode, commentMode, event>>

(***************************************************************************)
(* A page is answered, and recordViewAsync starts a goroutine with what    *)
(* the page's query read.                                                  *)
(***************************************************************************)
Put(i, e) ==
  /\ event' = [event EXCEPT ![i] = e]
  /\ UNCHANGED <<accountMode, videoMode, commentMode, videoDeleted>>

View(i, own) ==
  /\ ~Came(i) /\ ~videoDeleted
  /\ Put(i, [kind |-> "view", pc |-> "insert", read |-> videoMode, own |-> own,
             private |-> FALSE, reaction |-> FALSE, stored |-> FALSE,
             now |-> FALSE, later |-> FALSE, settled |-> TRUE])

\* A row that cannot be inserted is logged, and the owner told all the same.
RecordView(i) ==
  /\ Came(i) /\ event[i].kind = "view" /\ event[i].pc = "insert"
  /\ \E stored \in BOOLEAN :
       Put(i, [event[i] EXCEPT !.stored = stored, !.pc = IF event[i].own THEN "done" ELSE "decide"])

\* The video's own setting wins over the account's, which is asked for only now.
ViewIsMailed(i) ==
  IF event[i].read # "null" THEN event[i].read = "every" ELSE SendsImmediateViews(accountMode)

ResolveAndNotify(i) ==
  /\ Came(i) /\ event[i].kind = "view" /\ event[i].pc = "decide"
  /\ Put(i, [event[i] EXCEPT !.pc = IF ViewIsMailed(i) THEN "mail" ELSE "done"])

(***************************************************************************)
(* PostWatchComment: the row, then the account's setting, then a goroutine.*)
(* A quick reaction needs neither name nor address.                        *)
(***************************************************************************)
CommentAllowed(author) ==
  /\ commentMode # "disabled"
  /\ commentMode = "name_required" => author \in {"named", "with_email", "reaction"}
  /\ commentMode = "name_email_required" => author \in {"with_email", "reaction"}

PostWatchComment(i, author, own, private) ==
  /\ ~Came(i) /\ ~videoDeleted /\ CommentAllowed(author)
  /\ Put(i, [kind |-> "comment", pc |-> "insert", read |-> "null", own |-> own,
             private |-> private, reaction |-> author = "reaction", stored |-> FALSE,
             now |-> FALSE, later |-> FALSE, settled |-> TRUE])

InsertComment(i) ==
  /\ Came(i) /\ event[i].kind = "comment" /\ event[i].pc = "insert"
  /\ \/ Put(i, [event[i] EXCEPT !.stored = TRUE, !.pc = "decide"])
     \/ Put(i, NoEvent)

CommentIsMailed(i) ==
  /\ ~event[i].private /\ ~event[i].reaction /\ ~event[i].own
  /\ SendsImmediateComments(accountMode)

DecideComment(i) ==
  /\ Came(i) /\ event[i].kind = "comment" /\ event[i].pc = "decide"
  /\ Put(i, [event[i] EXCEPT !.pc = IF CommentIsMailed(i) THEN "mail" ELSE "done"])

\* The goroutine sends the mail, or fails.
SendMail(i) ==
  /\ Came(i) /\ event[i].pc = "mail"
  /\ \E sent \in BOOLEAN : Put(i, [event[i] EXCEPT !.now = sent, !.pc = "done"])

\* The process dies: what its goroutines had not done, they never do.
DieWith(i) ==
  /\ Came(i) /\ event[i].pc # "done"
  /\ Put(i, IF event[i].stored THEN [event[i] EXCEPT !.pc = "done"] ELSE NoEvent)

DeleteComment(i) ==
  /\ Came(i) /\ event[i].kind = "comment" /\ event[i].stored
  /\ Put(i, [event[i] EXCEPT !.stored = FALSE])

(***************************************************************************)
(* processDigest: one query, one mail.                                     *)
(***************************************************************************)
\* A plausible mistake, to test the properties: the video's setting is not looked at.
AnyRow(i) == Came(i) /\ event[i].stored /\ (event[i].kind = "comment" => ~event[i].private)

InDigest(i) ==
  /\ Came(i) /\ event[i].stored
  /\ event[i].kind = "view" => videoMode \in {"null", "digest"}
  /\ event[i].kind = "comment" => ~event[i].private

ProcessDigest(recent) ==
  /\ accountMode = "digest" /\ ~videoDeleted
  /\ LET counted == {i \in recent : InDigest(i)}
     IN /\ counted # {}
        /\ event' = [i \in Events |->
             IF i \in counted THEN [event[i] EXCEPT !.later = TRUE] ELSE event[i]]
  /\ UNCHANGED <<accountMode, videoMode, commentMode, videoDeleted>>

-----------------------------------------------------------------------------
NoticesNext ==
  \/ \E mode \in AccountModes : PutNotificationPreferences(mode)
  \/ \E mode \in VideoModes : SetVideoNotification(mode)
  \/ \E mode \in CommentModes : SetCommentMode(mode)
  \/ DeleteVideo
  \/ \E i \in Events :
       \/ \E own \in BOOLEAN : View(i, own)
       \/ \E author \in Authors, own, private \in BOOLEAN : PostWatchComment(i, author, own, private)
       \/ RecordView(i) \/ ResolveAndNotify(i) \/ InsertComment(i) \/ DecideComment(i)
       \/ SendMail(i) \/ DieWith(i) \/ DeleteComment(i)
  \/ \E recent \in SUBSET Events : ProcessDigest(recent)

NoticesSpec == NoticesInit /\ [][NoticesNext]_noticeVars

-----------------------------------------------------------------------------
NoticesTypeOK ==
  /\ accountMode \in AccountModes /\ videoMode \in VideoModes
  /\ commentMode \in CommentModes /\ videoDeleted \in BOOLEAN
  /\ event \in [Events -> Event \cup {NoEvent}]

\* The owner is not mailed of a view or comment at once and in a digest as well, though
\* the goroutine and the digest decide at different times and from different readings:
\* not unless a setting was changed in between.
ToldOnce ==
  \A i \in Events : (Came(i) /\ event[i].now /\ event[i].later) => ~event[i].settled
=============================================================================
