------------------------------- MODULE EditJobs -------------------------------
(***************************************************************************)
(* Jobs that own a row through status = 'processing': compositing a webcam *)
(* recording, trimming, and removing segments; the thumbnail and the       *)
(* transcription they leave behind; and the sweep that takes a row back    *)
(* from a job whose process died.                                          *)
(***************************************************************************)
EXTENDS VideoStore

(***************************************************************************)
(* Trim and RemoveSegments.  The handler reads the row, refuses it unless  *)
(* it is ready and the request fits the duration (a duration still 0 fits  *)
(* none), and only then claims it with an UPDATE of its own.  file_key and *)
(* the new duration come from the first read.                              *)
(***************************************************************************)
RequestEdit(t, v) ==
  /\ task[t].pc = "idle"
  /\ row[v].status = "ready"
  /\ row[v].cut # Nil
  /\ edits[v] < MaxEdits
  /\ edits' = [edits EXCEPT ![v] = @ + 1]
  /\ task' = [task EXCEPT ![t] =
       [NewTask("edit", v, "claim") EXCEPT !.length = row[v].cut + 1]]
  /\ UNCHANGED <<row, object, retired>>

ClaimRow(v) == row' = [row EXCEPT ![v] = Claimed(@)]

\* A plausible mistake, to test the properties: no status in the UPDATE's WHERE.
ClaimEditUnconditionally(t) ==
  /\ At(t, {"claim"})
  /\ row[task[t].video].status # "deleted"
  /\ ClaimRow(task[t].video)
  /\ Goto(t, "download")
  /\ UNCHANGED <<object, retired, edits>>

ClaimEdit(t) == LET v == task[t].video IN
  /\ At(t, {"claim"})
  /\ row[v].status = "ready"
  /\ ClaimRow(v)
  /\ Goto(t, "download")
  /\ UNCHANGED <<object, retired, edits>>

RefuseEdit(t) ==
  /\ At(t, {"claim"})
  /\ row[task[t].video].status # "ready"
  /\ End(t)
  /\ UNCHANGED <<row, object, retired, edits>>

(***************************************************************************)
(* CompositeWithWebcam, TrimVideoAsync and RemoveSegmentsAsync have the    *)
(* same control: download, ffmpeg, upload over the same key, publish.  A   *)
(* step succeeds only while the job's context lives.                       *)
(***************************************************************************)
InTime(t) == task[t].age < JobTimeout

EditDownload(t) == LET v == task[t].video IN
  /\ At(t, {"download"}) /\ InTime(t)
  /\ Stored(v, task[t].key)
  /\ task[t].kind = "composite" => Stored(v, "cam")
  /\ Take(t, "upload", object[v][task[t].key])
  /\ UNCHANGED <<row, object, retired, edits>>

EditUpload(t) ==
  /\ At(t, {"upload"}) /\ InTime(t)
  /\ IF task[t].kind = "composite"
     THEN Put(task[t].video, task[t].key, task[t].cut) /\ Goto(t, "dropCam")
     ELSE Put(task[t].video, task[t].key, task[t].cut + 1) /\ Goto(t, "publish")
  /\ UNCHANGED <<row, retired, edits>>

\* Any download, probe, ffmpeg or upload error, the context's expiry included.
EditFail(t) ==
  /\ At(t, {"download", "upload"})
  /\ Goto(t, "fallback")
  /\ UNCHANGED <<row, object, retired, edits>>

\* A failure to delete the webcam object is only logged.
DropWebcam(t) ==
  /\ At(t, {"dropCam"})
  /\ \/ InTime(t) /\ Remove(task[t].video, {"cam"})
     \/ UNCHANGED object
  /\ Goto(t, "publish")
  /\ UNCHANGED <<row, retired, edits>>

\* Only composite clears webcam_key.
WebcamAfter(t) == row[task[t].video].webcam /\ task[t].kind # "composite"

CutAfter(t) ==
  IF task[t].kind = "composite" THEN row[task[t].video].cut ELSE task[t].length

Thumbnailing(r) == [IdleTask EXCEPT !.kind = r.kind, !.video = r.video,
                                    !.pc = "thumb", !.key = r.key]

\* The final UPDATE has no condition on the status.
Publish(t) == LET v == task[t].video IN
  /\ At(t, {"publish"}) /\ InTime(t)
  /\ row' = [row EXCEPT ![v] =
       [Freed(row[v], WebcamAfter(t)) EXCEPT !.cut = CutAfter(t)]]
  /\ task' = [task EXCEPT ![t] = Thumbnailing(task[t])]
  /\ UNCHANGED <<object, retired, edits>>

PublishFail(t) ==
  /\ At(t, {"publish"})
  /\ End(t)
  /\ UNCHANGED <<row, object, retired, edits>>

\* setReadyFallback: its own context, and only while the row is processing.
Fallback(t) == LET v == task[t].video IN
  /\ At(t, {"fallback"})
  /\ \/ /\ row[v].status = "processing"
        /\ row' = [row EXCEPT ![v] = Freed(row[v], WebcamAfter(t))]
     \/ UNCHANGED row
  /\ End(t)
  /\ UNCHANGED <<object, retired, edits>>

(***************************************************************************)
(* GenerateThumbnail, run by a finalized upload, by ResetThumbnail and at  *)
(* the end of every edit, and the EnqueueTranscription that follows it in  *)
(* an edit.                                                                *)
(***************************************************************************)
ResetThumbnail(t, v) ==
  /\ row[v].status = "ready"
  /\ Start(t, "thumb", v, "thumb")
  /\ UNCHANGED <<row, object, retired, edits>>

AfterThumbnail(t) ==
  IF task[t].kind = "thumb" THEN End(t) ELSE Goto(t, "enqueue")

ThumbnailUpload(t) ==
  /\ At(t, {"thumb"})
  /\ Stored(task[t].video, task[t].key)
  /\ Put(task[t].video, "thumb", 0)
  /\ Goto(t, "thumbRow")
  /\ UNCHANGED <<row, retired, edits>>

ThumbnailRow(t) ==
  /\ At(t, {"thumbRow"})
  /\ row' = [row EXCEPT ![task[t].video].thumb = TRUE]
  /\ AfterThumbnail(t)
  /\ UNCHANGED <<object, retired, edits>>

ThumbnailFail(t) ==
  /\ At(t, {"thumb", "thumbRow"})
  /\ AfterThumbnail(t)
  /\ UNCHANGED <<row, object, retired, edits>>

EnqueueTranscription(v) ==
  row' = [row EXCEPT ![v].transcript =
            IF row[v].status # "deleted" THEN "pending" ELSE @]

EditEnqueue(t) ==
  /\ At(t, {"enqueue"})
  /\ EnqueueTranscription(task[t].video) \/ UNCHANGED row
  /\ End(t)
  /\ UNCHANGED <<object, retired, edits>>

(***************************************************************************)
(* resetStuckProcessing: one UPDATE over every row that has been           *)
(* processing for too long, or since an unknown time.                      *)
(***************************************************************************)
\* Plausible mistakes, to test the properties: a threshold as short as the jobs'
\* timeout, only rows of unknown age, and leaving the webcam key.
StuckAtTimeout(v) ==
  /\ row[v].status = "processing"
  /\ row[v].started >= JobTimeout \/ row[v].started = Nil

StuckWithoutStart(v) == row[v].status = "processing" /\ row[v].started = Nil

Stuck(v) ==
  /\ row[v].status = "processing"
  /\ row[v].started >= StuckAfter \/ row[v].started = Nil

ResetKeepingWebcam ==
  /\ \E v \in Videos : Stuck(v)
  /\ row' = [v \in Videos |->
        IF Stuck(v) THEN Freed(row[v], row[v].webcam) ELSE row[v]]
  /\ UNCHANGED <<object, task, retired, edits>>

ResetStuckProcessing ==
  /\ \E v \in Videos : Stuck(v)
  /\ row' = [v \in Videos |->
        IF Stuck(v) THEN Freed(row[v], FALSE) ELSE row[v]]
  /\ UNCHANGED <<object, task, retired, edits>>

(***************************************************************************)
(* Time passes for the rows being processed and for their jobs.  An edit   *)
(* whose context has expired returns before the next tick: every call it   *)
(* is blocked in takes the context, and its fallback has five seconds.     *)
(* The sweep's clock is not read beyond StuckAfter.                        *)
(***************************************************************************)
Tick ==
  /\ \/ \E v \in Videos : row[v].status = "processing" /\ row[v].started < StuckAfter
     \/ \E t \in Tasks : task[t].pc \in EditPcs
  /\ \A t \in Tasks : task[t].pc \in EditPcs => InTime(t)
  /\ row' = [v \in Videos |->
        IF row[v].status = "processing" /\ row[v].started \in 0 .. StuckAfter - 1
        THEN [row[v] EXCEPT !.started = @ + 1]
        ELSE row[v]]
  /\ task' = [t \in Tasks |->
        IF task[t].pc \in EditPcs THEN [task[t] EXCEPT !.age = @ + 1] ELSE task[t]]
  /\ UNCHANGED <<object, retired, edits>>

EditStep(t) ==
  \/ ClaimEdit(t) \/ RefuseEdit(t)
  \/ EditDownload(t) \/ EditUpload(t) \/ EditFail(t)
  \/ DropWebcam(t) \/ Publish(t) \/ PublishFail(t) \/ Fallback(t)
  \/ ThumbnailUpload(t) \/ ThumbnailRow(t) \/ ThumbnailFail(t)
  \/ EditEnqueue(t)
=============================================================================
