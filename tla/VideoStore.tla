------------------------------ MODULE VideoStore ------------------------------
(***************************************************************************)
(* The state the video subsystem of internal/video shares: the rows of the *)
(* videos table, the objects of the bucket, and the goroutines that work   *)
(* on them.  EditJobs, EncodeJobs and Deletion add the actions of one kind *)
(* of goroutine each; VideoLifecycle composes them.                        *)
(*                                                                         *)
(* A recording's content is abstracted to the number of edits (trim,       *)
(* remove-segments) it carries, and a row's duration to the number of      *)
(* edits that duration accounts for: the two agree exactly when the        *)
(* duration shown describes the object stored.                             *)
(***************************************************************************)
EXTENDS Integers, FiniteSets

CONSTANTS Videos,                \* rows of the videos table
          NoVideo,               \* the video of a goroutine that does not run
          Tasks,                 \* slots for goroutines, in any number of replicas
          JobTimeout,            \* ticks after which an edit's context expires
          StuckAfter,            \* ticks after which the sweep presumes it dead
          MaxTranscodeAttempts,  \* attempts before an encode is given up
          MaxEdits               \* edits requested per video (bounds the model)

ASSUME VideoAssumption == NoVideo \notin Videos
ASSUME TasksAssumption == IsFiniteSet(Tasks)
ASSUME TimeoutAssumption ==
  /\ JobTimeout \in Nat /\ StuckAfter \in Nat
  /\ JobTimeout < StuckAfter
ASSUME BoundAssumption ==
  /\ MaxTranscodeAttempts \in Nat \ {0}
  /\ MaxEdits \in Nat

VARIABLES row,      \* the videos table
          object,   \* the bucket: what is stored under each key of a video
          task,     \* the goroutines
          retired,  \* history: the videos a user or the cleanup ever deleted
          edits     \* number of edits requested so far, per video

vars == <<row, object, task, retired, edits>>

Nil == -1   \* NULL in a column, no object under a key, a duration of zero

Formats  == {"webm", "mp4"}              \* file_key and content_type together
Extras   == {"thumb", "cam"}             \* thumbnail_key and webcam_key
Statuses == {"none", "uploading", "processing", "ready", "deleted"}

EditPcs == {"download", "upload", "dropCam", "publish", "fallback"}
Pcs == EditPcs \cup
  {"idle", "claim", "thumb", "thumbRow", "enqueue", "probe", "probeRow",
   "check", "fetch", "put", "repoint", "dropOld", "clear",
   "record", "recordPermanent", "purgeFile", "purgeExtras", "purgeMark"}
Kinds == {"idle", "composite", "edit", "thumb", "probe",
          "transcode", "normalize", "purge", "batch", "clean"}

Row == [status     : Statuses,
        key        : Formats,
        webcam     : BOOLEAN,    \* webcam_key IS NOT NULL
        started    : Int,        \* ticks since processing_started_at, or Nil
        cut        : Int,        \* edits the duration accounts for, or Nil
        thumb      : BOOLEAN,    \* thumbnail_key IS NOT NULL
        transcript : {"none", "pending"},
        attempts   : Nat,        \* transcode_attempts
        normalized : BOOLEAN,    \* ios_normalized
        purged     : BOOLEAN]    \* file_purged_at IS NOT NULL

Task == [kind   : Kinds,
         video  : Videos \cup {NoVideo},
         pc     : Pcs,
         key    : Formats,        \* the file key the goroutine was started with
         cut    : Int,            \* content of its temporary file
         length : Int,            \* the duration it will publish
         age    : Int,            \* ticks since its context was created
         extras : SUBSET Extras]  \* the other keys a purge was started with

IdleTask == [kind |-> "idle", video |-> NoVideo, pc |-> "idle", key |-> "webm",
             cut |-> Nil, length |-> Nil, age |-> 0, extras |-> {}]

NewTask(kind, v, pc) ==
  [IdleTask EXCEPT !.kind = kind, !.video = v, !.pc = pc, !.key = row[v].key]

NoRow == [status |-> "none", key |-> "webm", webcam |-> FALSE, started |-> Nil,
          cut |-> Nil, thumb |-> FALSE, transcript |-> "none", attempts |-> 0,
          normalized |-> FALSE, purged |-> FALSE]

(***************************************************************************)
(* The column lists of the UPDATEs that claim a row for an edit, give it   *)
(* back, and point it to its MP4.                                          *)
(***************************************************************************)
Claimed(r)       == [r EXCEPT !.status = "processing", !.started = 0]
Freed(r, webcam) == [r EXCEPT !.status = "ready", !.started = Nil, !.webcam = webcam]
Repointed(r)     == [r EXCEPT !.key = "mp4", !.normalized = TRUE]

(***************************************************************************)
(* EnqueueJob and the go statements of the handlers: a goroutine starts    *)
(* in a free slot.                                                         *)
(***************************************************************************)
Start(t, kind, v, pc) ==
  /\ task[t].pc = "idle"
  /\ task' = [task EXCEPT ![t] = NewTask(kind, v, pc)]

Moved(r, pc, cut) == [r EXCEPT !.pc = pc, !.cut = cut]

\* Content that was read is only kept for the step that follows the reading.
Take(t, pc, cut) == task' = [task EXCEPT ![t] = Moved(@, pc, cut)]
Goto(t, pc)      == Take(t, pc, Nil)
End(t)           == task' = [task EXCEPT ![t] = IdleTask]

At(t, pcs) == task[t].pc \in pcs

(***************************************************************************)
(* ObjectStorage as internal/video uses it: UploadFile replaces an object, *)
(* DeleteObject succeeds when there is none, DownloadToFile and HeadObject *)
(* need one.                                                               *)
(***************************************************************************)
Stored(v, k)     == object[v][k] # Nil
Put(v, k, cut)   == object' = [object EXCEPT ![v][k] = cut]
Remove(v, ks)    ==
  object' = [object EXCEPT ![v] = [k \in DOMAIN @ |-> IF k \in ks THEN Nil ELSE @[k]]]

(***************************************************************************)
(* A live editor of v: a composite, trim or remove-segments goroutine that *)
(* claimed the row and has not yet given it back.                          *)
(***************************************************************************)
Editing(t, v) == task[t].video = v /\ task[t].pc \in EditPcs

TypeOK ==
  /\ row \in [Videos -> Row]
  /\ object \in [Videos -> [Formats \cup Extras -> Int]]
  /\ task \in [Tasks -> Task]
  /\ retired \in [Videos -> BOOLEAN]
  /\ edits \in [Videos -> Nat]

StoreInit ==
  /\ row = [v \in Videos |-> NoRow]
  /\ object = [v \in Videos |-> [k \in Formats \cup Extras |-> Nil]]
  /\ task = [t \in Tasks |-> IdleTask]
  /\ retired = [v \in Videos |-> FALSE]
  /\ edits = [v \in Videos |-> 0]
=============================================================================
