---------------------------- MODULE VideoLifecycle ----------------------------
(***************************************************************************)
(* A recording from its creation to the removal of its objects: the upload *)
(* and its finalization, composed with the editing jobs, the encoding jobs *)
(* and deletion.                                                           *)
(***************************************************************************)
EXTENDS EditJobs, EncodeJobs, Deletion

(***************************************************************************)
(* Create (a browser recording, perhaps with a webcam track) and Upload (a *)
(* file, whose duration is not known yet) insert the row; the client then  *)
(* PUTs to the URLs it was given.                                          *)
(***************************************************************************)
Insert(v, key, webcam, cut) ==
  /\ row[v].status = "none"
  /\ row' = [row EXCEPT ![v] =
       [NoRow EXCEPT !.status = "uploading", !.key = key,
                     !.webcam = webcam, !.cut = cut]]
  /\ UNCHANGED <<object, task, retired, edits>>

Create(v) == \E key \in Formats, webcam \in BOOLEAN : Insert(v, key, webcam, 0)
Upload(v) == \E key \in Formats : Insert(v, key, FALSE, Nil)

ClientPut(v, k) ==
  /\ row[v].status = "uploading"
  /\ k = row[v].key \/ (k = "cam" /\ row[v].webcam)
  /\ ~Stored(v, k)
  /\ Put(v, k, 0)
  /\ UNCHANGED <<row, task, retired, edits>>

(***************************************************************************)
(* Update with status "ready".  The row of an upload is not written by     *)
(* anyone else until its status changes, and the UPDATE is conditional on  *)
(* the status, so the SELECT, the HEAD of the object and the UPDATE are    *)
(* one step.  A goroutine that finds no free slot is one whose process     *)
(* died before its first step.                                             *)
(***************************************************************************)
JobsOf(v) ==
  IF row[v].webcam THEN {"composite"}
  ELSE {"thumb", IF row[v].key = "webm" THEN "transcode" ELSE "normalize"}
         \cup (IF row[v].cut = Nil THEN {"probe"} ELSE {})

\* A plausible mistake, to test the properties.
FirstPcByName(kind) == kind

FirstPc(kind) ==
  CASE kind = "composite" -> "download"
    [] kind = "thumb"     -> "thumb"
    [] kind = "probe"     -> "probe"
    [] OTHER              -> "check"

Finalized(r) == IF r.webcam THEN Claimed(r) ELSE Freed(r, FALSE)

Finalize(v) ==
  /\ row[v].status = "uploading"
  /\ Stored(v, row[v].key)
  /\ \E started \in SUBSET {t \in Tasks : task[t].pc = "idle"} :
       \E kind \in [started -> JobsOf(v)] :
         /\ \A t, u \in started : kind[t] = kind[u] => t = u
         /\ task' = [t \in Tasks |->
              IF t \in started THEN NewTask(kind[t], v, FirstPc(kind[t])) ELSE task[t]]
  /\ \E queued \in IF row[v].webcam THEN {"none"} ELSE {"none", "pending"} :
       row' = [row EXCEPT ![v] = [Finalized(row[v]) EXCEPT !.transcript = queued]]
  /\ UNCHANGED <<object, retired, edits>>

(***************************************************************************)
(* A goroutine dies with its process.  The tasks of one process die one    *)
(* after the other, which no other task can tell from their dying at once. *)
(***************************************************************************)
Crash(t) ==
  /\ task[t].pc # "idle"
  /\ End(t)
  /\ UNCHANGED <<row, object, retired, edits>>

Init == StoreInit

TaskStep(t) == EditStep(t) \/ EncodeStep(t) \/ PurgeStep(t)

Request(v) ==
  \/ Create(v) \/ Upload(v) \/ Finalize(v)
  \/ \E k \in Formats \cup {"cam"} : ClientPut(v, k)
  \/ \E t \in Tasks : \/ RequestEdit(t, v)
                      \/ ResetThumbnail(t, v)
                      \/ Delete(t, v)
                      \/ BatchDelete(t, v)

Worker(v) ==
  \/ AbandonStaleUpload(v)
  \/ \E t \in Tasks : \/ PurgeOrphan(t, v)
                      \/ \E kind \in EncodeKinds : EncodeScan(t, v, kind)

Next ==
  \/ \E v \in Videos : Request(v) \/ Worker(v)
  \/ \E t \in Tasks : TaskStep(t) \/ Crash(t)
  \/ ResetStuckProcessing
  \/ Tick

Spec == Init /\ [][Next]_vars

(***************************************************************************)
(* Fairness.  A goroutine is not suspended for ever: it takes its next     *)
(* step or dies.  Time passes; the sweep and the cleanup loop run on       *)
(* tickers for as long as some replica does.  Storage, database and the    *)
(* process may fail a purge any number of times, but not for ever.         *)
(***************************************************************************)
Fairness ==
  /\ \A t \in Tasks : WF_vars(TaskStep(t) \/ Crash(t))
  /\ WF_vars(Tick)
  /\ WF_vars(ResetStuckProcessing)
  /\ \A v \in Videos : /\ WF_vars(AbandonStaleUpload(v))
                       /\ SF_vars(\E t \in Tasks : PurgeOrphan(t, v))
  /\ \A t \in Tasks : SF_vars(PurgeFile(t)) /\ SF_vars(PurgeExtras(t))
                       /\ SF_vars(PurgeMark(t))

FairSpec == Spec /\ Fairness

-----------------------------------------------------------------------------
(***************************************************************************)
(* Safety.                                                                 *)
(***************************************************************************)

\* A row in 'processing' serializes the jobs that rewrite its file: composite,
\* trim and remove-segments never work on one video together, whatever fails,
\* crashes, is swept or is deleted meanwhile.
OneEditor ==
  \A v \in Videos : \A t, u \in Tasks : Editing(t, v) /\ Editing(u, v) => t = u

\* A ready video has no webcam_key: every way out of 'processing' clears the key
\* of an overlay that is done or abandoned, so that the watch page never waits
\* for one.
ReadyHasNoWebcam ==
  \A v \in Videos : row[v].status = "ready" => ~row[v].webcam

\* The file a ready video points to is there, through edits, transcodes that
\* move it to another key, crashes and sweeps, as long as nobody deleted it.
PlayableUntilDeleted ==
  \A v \in Videos :
    row[v].status = "ready" /\ ~retired[v] => Stored(v, row[v].key)

\* maxTranscodeAttempts is checked before an attempt and counted after it, so
\* attempts that run together may overshoot it, each by one.
AttemptsBounded ==
  \A v \in Videos :
    row[v].attempts <= MaxTranscodeAttempts + Cardinality(Tasks) - 1

\* The status column and the live editors implement the lease.
Lease == INSTANCE EditLease WITH
  Holders <- Tasks,
  shown   <- [v \in Videos |-> row[v].status],
  holders <- [v \in Videos |-> {t \in Tasks : Editing(t, v)}]

\* The jobs, the clock and the sweep together give the exclusive lease that
\* EditLease states: in particular the sweep takes no row from a live job.
ImplementsLease == Lease!Spec

(***************************************************************************)
(* Why they hold: the inductive invariants of VideoLifecycleProofs.        *)
(***************************************************************************)
TasksHaveVideos == \A t \in Tasks : task[t].pc # "idle" => task[t].video \in Videos

\* A live editor's row is processing, since as long as the editor's context
\* exists, or was deleted meanwhile; only a composite runs with a webcam key.
EditorOwnsRow ==
  \A t \in Tasks : task[t].pc \in EditPcs =>
    LET r == row[task[t].video] IN
      /\ r.status \in {"processing", "deleted"}
      /\ r.status = "processing" => r.started = task[t].age
      /\ task[t].age \in 0 .. JobTimeout
      /\ r.webcam => task[t].kind = "composite"

ClaimsAreEdits ==
  \A t \in Tasks : task[t].pc = "claim" => task[t].kind = "edit" /\ task[t].age = 0

EditInv ==
  /\ TypeOK /\ TasksHaveVideos /\ EditorOwnsRow /\ ClaimsAreEdits
  /\ OneEditor /\ ReadyHasNoWebcam

\* Until its video is deleted, every file a row points to or is about to point
\* to is stored, and what is about to be dropped is no longer pointed to.
RowFileStored ==
  \A v \in Videos :
    row[v].status \in {"processing", "ready"} /\ ~retired[v] => Stored(v, row[v].key)

RepointsToStored ==
  \A t \in Tasks : task[t].pc = "repoint" /\ ~retired[task[t].video]
    => Stored(task[t].video, "mp4")

DropsUnused ==
  \A t \in Tasks : task[t].pc = "dropOld"
    => task[t].key = "webm" /\ row[task[t].video].key = "mp4"

TranscodesWebM ==
  \A t \in Tasks :
    /\ task[t].kind = "transcode" => task[t].key = "webm"
    /\ task[t].pc \in {"upload", "put"} => task[t].cut \in Nat
    /\ task[t].pc \in {"purgeFile", "purgeExtras", "purgeMark"}
         => retired[task[t].video]
    /\ task[t].pc \in {"check", "fetch", "put", "repoint", "dropOld", "clear"}
         => row[task[t].video].status # "uploading" /\ row[task[t].video].status # "none"

ContentIsNat == \A v \in Videos : \A k \in Formats : object[v][k] \in Nat \cup {Nil}

DeletedAreRetired == \A v \in Videos : row[v].status = "deleted" => retired[v]

FileInv ==
  /\ RowFileStored /\ RepointsToStored /\ DropsUnused /\ TranscodesWebM
  /\ ContentIsNat /\ DeletedAreRetired

\* An attempt that has passed the check counts against the budget before its
\* failure does.
AttemptPcs == {"fetch", "put", "repoint", "record", "recordPermanent"}

Attempting(jobs, v) == {t \in Tasks : jobs[t].video = v /\ jobs[t].pc \in AttemptPcs}

AttemptsCounted ==
  \A v \in Videos :
    row[v].attempts + Cardinality(Attempting(task, v))
      <= MaxTranscodeAttempts + Cardinality(Tasks) - 1

(***************************************************************************)
(* What the repository says and the code does not do.                      *)
(***************************************************************************)

\* "Delete this recording? This cannot be undone.": a deleted row stays deleted.
DeletedIsFinal ==
  [][\A v \in Videos : row[v].status = "deleted" => row'[v].status = "deleted"]_vars

\* "a row abandoned mid-job still has its original object at file_key and its
\* original duration": what the sweep finds stuck describes its own object.
AbandonedRowIsIntact ==
  \A v \in Videos :
    Stuck(v) => object[v][row[v].key] = row[v].cut

(***************************************************************************)
(* Liveness.                                                               *)
(***************************************************************************)

\* No video shows the processing overlay for ever, even when the job that owned
\* it died without its fallback.
ProcessingEnds ==
  \A v \in Videos : row[v].status = "processing" ~> row[v].status # "processing"

\* An upload is finalized or given up.
UploadEnds ==
  \A v \in Videos : row[v].status = "uploading" ~> row[v].status # "uploading"

\* The file of a deleted video is removed and marked so, whatever the request's
\* own goroutine managed, unless an edit in flight brings the video back.
DeletedIsPurged ==
  \A v \in Videos :
    row[v].status = "deleted" /\ ~row[v].purged
      ~> row[v].purged \/ row[v].status # "deleted"
=============================================================================
