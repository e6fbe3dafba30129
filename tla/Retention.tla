----------------------------- MODULE Retention -----------------------------
(***************************************************************************)
(* Automatic deletion of old videos: retention_worker.go, the pin, and the *)
(* settings of the account and of the workspace.  Seven days before a      *)
(* video's time is up its creator is mailed; a video whose warning is      *)
(* older than that is deleted.  Rows change between the worker's           *)
(* statements, the mail may fail, and the process may die anywhere.        *)
(***************************************************************************)
EXTENDS Naturals, FiniteSets

CONSTANTS Recordings, Creators, Spaces,
          NoSpace,     \* a video outside workspaces
          Never,       \* retention_warned_at IS NULL
          CreatorOf,   \* videos.user_id
          Choices,     \* validate.RetentionDays, 0 is "off"
          Grace,       \* seven days
          Batch,       \* LIMIT 100
          MailWorks,   \* email.Client.HasBackend
          LastDay      \* bounds the model

ASSUME RetentionAssumption ==
  /\ CreatorOf \in [Recordings -> Creators]
  /\ Choices \subseteq Nat /\ 0 \in Choices
  /\ Grace \in Nat \ {0} /\ Batch \in Nat \ {0} /\ LastDay \in Nat
  /\ MailWorks \in BOOLEAN /\ Never \notin 0..LastDay

VARIABLES recording,  \* videos
          retention,  \* users.retention_days, organizations.retention_days
          today,
          round,      \* what the worker does
          mailed      \* history: the day of the last mail that named a video

retentionVars == <<recording, retention, today, round, mailed>>

Days == 0..LastDay
Recording == [space : Spaces \cup {NoSpace}, status : {"processing", "ready", "deleted"},
              pinned : BOOLEAN, born : Days, warned : Days \cup {Never}]
ASSUME NoRecording == Never \notin Recording

Round == [pc : {"off", "deletions"}]
  \cup [pc : {"warnings"}, left : SUBSET Recordings]
  \cup [pc : {"mark"}, left : SUBSET Recordings, told : SUBSET Recordings]
  \cup [pc : {"delete"}, chosen : SUBSET Recordings]

Off == [pc |-> "off"]

RetentionInit ==
  /\ recording = [v \in Recordings |-> Never]
  /\ retention = [a \in Creators \cup Spaces |-> 0]
  /\ today = 0 /\ round = Off
  /\ mailed = [v \in Recordings |-> Never]

Stored(v) == recording[v] # Never
Present(v) == Stored(v) /\ recording[v].status # "deleted"
RetentionDays(v) ==
  retention[IF recording[v].space = NoSpace THEN CreatorOf[v] ELSE recording[v].space]

(***************************************************************************)
(* What users do, and time.                                                *)
(***************************************************************************)
Record(v, s) ==
  /\ ~Stored(v)
  /\ recording' = [recording EXCEPT ![v] =
       [space |-> s, status |-> "ready", pinned |-> FALSE, born |-> today, warned |-> Never]]
  /\ UNCHANGED <<retention, today, round, mailed>>

\* An edit begins, or ends.
EditRecording(v) ==
  /\ Present(v)
  /\ recording' = [recording EXCEPT ![v].status = IF @ = "ready" THEN "processing" ELSE "ready"]
  /\ UNCHANGED <<retention, today, round, mailed>>

TogglePin(v) ==
  /\ Present(v)
  /\ recording' = [recording EXCEPT ![v].pinned = ~@]
  /\ UNCHANGED <<retention, today, round, mailed>>

MoveRecording(v, s) ==
  /\ Present(v) /\ recording[v].status = "ready" /\ recording[v].space # s
  /\ recording' = [recording EXCEPT ![v].space = s]
  /\ UNCHANGED <<retention, today, round, mailed>>

SetRetentionDays(a, days) ==
  /\ retention[a] # days
  /\ retention' = [retention EXCEPT ![a] = days]
  /\ UNCHANGED <<recording, today, round, mailed>>

NextDay ==
  /\ today < LastDay /\ today' = today + 1
  /\ UNCHANGED <<recording, retention, round, mailed>>

(***************************************************************************)
(* processRetentionWarnings: at the start of the process and once a day.   *)
(***************************************************************************)
Outdated(v) ==
  /\ Stored(v) /\ recording[v].status = "ready"
  /\ ~recording[v].pinned /\ recording[v].warned = Never
  /\ RetentionDays(v) > 0 /\ recording[v].born + RetentionDays(v) < today + Grace

\* LIMIT 100, with no order: any of them, but as many as there are.
UpToLimit(found) ==
  {ids \in SUBSET found : Cardinality(ids) = Batch \/ (ids = found /\ Cardinality(ids) < Batch)}

StartRound ==
  /\ round.pc = "off"
  /\ \E ids \in UpToLimit({v \in Recordings : Outdated(v)}) :
       round' = [pc |-> "warnings", left |-> ids]
  /\ UNCHANGED <<recording, retention, today, mailed>>

\* A plausible mistake, to test the properties: a mail that failed counts.
SendOrSkip(u) ==
  /\ round.pc = "warnings"
  /\ LET ids == {v \in round.left : CreatorOf[v] = u}
     IN /\ ids # {}
        /\ round' = [pc |-> "mark", left |-> round.left \ ids, told |-> ids]
        /\ \E sent \in BOOLEAN :
             mailed' = [v \in Recordings |-> IF sent /\ v \in ids THEN today ELSE mailed[v]]
  /\ UNCHANGED <<recording, retention, today>>

\* One mail for each creator.  The videos of a mail that fails are left for the next
\* round; so a mail that was delivered and reported as failed is sent again.  Without a
\* backend the mail is dropped and reported as sent.
SendWarning(u) ==
  /\ round.pc = "warnings"
  /\ LET ids == {v \in round.left : CreatorOf[v] = u}
         others == round.left \ ids
     IN /\ ids # {}
        /\ \E sent, told \in BOOLEAN :
             /\ sent => MailWorks
             /\ told => (sent \/ ~MailWorks)
             /\ mailed' = [v \in Recordings |-> IF sent /\ v \in ids THEN today ELSE mailed[v]]
             /\ round' = IF told THEN [pc |-> "mark", left |-> others, told |-> ids]
                         ELSE [pc |-> "warnings", left |-> others]
  /\ UNCHANGED <<recording, retention, today>>

\* The update looks at nothing but the ids; its failure is only logged.
MarkWarned ==
  /\ round.pc = "mark"
  /\ \/ recording' = [v \in Recordings |->
          IF v \in round.told THEN [recording[v] EXCEPT !.warned = today] ELSE recording[v]]
     \/ UNCHANGED recording
  /\ round' = [pc |-> "warnings", left |-> round.left]
  /\ UNCHANGED <<retention, today, mailed>>

WarningsDone ==
  /\ round.pc = "warnings" /\ round.left = {}
  /\ round' = [pc |-> "deletions"]
  /\ UNCHANGED <<recording, retention, today, mailed>>

(***************************************************************************)
(* processRetentionDeletions.  The setting is not asked for again.         *)
(***************************************************************************)
Expired(v) ==
  /\ Stored(v) /\ recording[v].status = "ready" /\ ~recording[v].pinned
  /\ recording[v].warned # Never /\ recording[v].warned + Grace < today

ChooseExpired ==
  /\ round.pc = "deletions"
  /\ \E ids \in UpToLimit({v \in Recordings : Expired(v)}) :
       round' = IF ids = {} THEN Off ELSE [pc |-> "delete", chosen |-> ids]
  /\ UNCHANGED <<recording, retention, today, mailed>>

\* A plausible mistake, to test the properties: only the update asks for the setting.
DeleteWhereOn ==
  /\ round.pc = "delete"
  /\ recording' = [v \in Recordings |->
       IF v \in round.chosen /\ RetentionDays(v) > 0
       THEN [recording[v] EXCEPT !.status = "deleted"] ELSE recording[v]]
  /\ round' = Off
  /\ UNCHANGED <<retention, today, mailed>>

\* The videos leave their playlists (not modelled here) and are deleted: this update,
\* too, looks at nothing but the ids.
DeleteChosen ==
  /\ round.pc = "delete"
  /\ recording' = [v \in Recordings |->
       IF v \in round.chosen THEN [recording[v] EXCEPT !.status = "deleted"] ELSE recording[v]]
  /\ round' = Off
  /\ UNCHANGED <<retention, today, mailed>>

\* The process dies, or a query or the update fails: the next round starts over.
BreakRound ==
  /\ round.pc # "off" /\ round' = Off
  /\ UNCHANGED <<recording, retention, today, mailed>>

-----------------------------------------------------------------------------
SendWarnings == \E u \in Creators : SendWarning(u)

RetentionNext ==
  \/ \E v \in Recordings :
       \/ \E s \in Spaces \cup {NoSpace} : Record(v, s) \/ MoveRecording(v, s)
       \/ EditRecording(v) \/ TogglePin(v)
  \/ \E a \in Creators \cup Spaces, days \in Choices : SetRetentionDays(a, days)
  \/ NextDay
  \/ StartRound \/ SendWarnings \/ MarkWarned \/ WarningsDone
  \/ ChooseExpired \/ DeleteChosen \/ BreakRound

\* A round is started every day, goes on while the process lives, and neither the
\* process nor its queries fail in every round.
RetentionFairness ==
  /\ WF_retentionVars(StartRound)
  /\ SF_retentionVars(SendWarnings) /\ SF_retentionVars(MarkWarned)
  /\ SF_retentionVars(WarningsDone) /\ SF_retentionVars(ChooseExpired)
  /\ SF_retentionVars(DeleteChosen)

RetentionSpec == RetentionInit /\ [][RetentionNext]_retentionVars /\ RetentionFairness

-----------------------------------------------------------------------------
RetentionTypeOK ==
  /\ recording \in [Recordings -> Recording \cup {Never}]
  /\ retention \in [Creators \cup Spaces -> Choices]
  /\ today \in Days
  /\ round \in Round
  /\ mailed \in [Recordings -> Days \cup {Never}]

\* Where mail is delivered, every video the worker is about to delete was named in a mail
\* to its creator, the last of them more than seven days ago: whatever failed, was sent
\* twice or was moved, pinned and unpinned since.
WarnedBeforeDeleted ==
  (MailWorks /\ round.pc = "delete") =>
    \A v \in round.chosen : mailed[v] # Never /\ mailed[v] + Grace < today

\* A video whose warning is more than seven days old is deleted in the end, though the
\* worker was down on the day or other videos filled its batches, unless it stops being
\* one: it is pinned, say, or edited.
ExpiredIsDeleted == \A v \in Recordings : Expired(v) ~> ~Expired(v)

\* "Auto-delete videos after this many days (0 = disabled)": a video is chosen for
\* deletion only where the setting is on.
DeletesOnlyWhereEnabled ==
  [][\A v \in Recordings :
       (ChooseExpired /\ round'.pc = "delete" /\ v \in round'.chosen) => RetentionDays(v) > 0]_retentionVars
=============================================================================
