------------------------------ MODULE EncodeJobs ------------------------------
(***************************************************************************)
(* Jobs that rewrite a recording without owning its row: transcoding WebM  *)
(* to MP4 under a new key, and re-encoding an MP4 in place for iOS.  They  *)
(* never look at the status once they run.  Both spend the same budget of  *)
(* attempts.  The duration probe of an uploaded file is here too.          *)
(***************************************************************************)
EXTENDS VideoStore

EncodeKinds == {"transcode", "normalize"}

\* The content type and flag the workers select on.
Wants(v, kind) ==
  IF kind = "transcode" THEN row[v].key = "webm"
                        ELSE row[v].key = "mp4" /\ ~row[v].normalized

(***************************************************************************)
(* transcodeExistingWebM and normalizeExistingVideos: the query of a pass. *)
(* Its rows are worked through later, one after the other, so a task may   *)
(* stand at "check" while its row changes.                                 *)
(***************************************************************************)
EncodeScan(t, v, kind) ==
  /\ row[v].status = "ready"
  /\ Wants(v, kind)
  /\ row[v].attempts < MaxTranscodeAttempts
  /\ Start(t, kind, v, "check")
  /\ UNCHANGED <<row, object, retired, edits>>

\* The first SELECT of the job.
StillNeeded(t) == LET v == task[t].video IN
  /\ IF task[t].kind = "transcode" THEN row[v].key = "webm" ELSE ~row[v].normalized
  /\ row[v].attempts < MaxTranscodeAttempts

EncodeCheck(t) ==
  /\ At(t, {"check"})
  /\ IF StillNeeded(t) THEN Goto(t, "fetch") ELSE End(t)
  /\ UNCHANGED <<row, object, retired, edits>>

\* Download and ffmpeg: nothing is shared until the output is uploaded.
EncodeFetch(t) == LET v == task[t].video IN
  /\ At(t, {"fetch"})
  /\ Stored(v, task[t].key)
  /\ Take(t, "put", object[v][task[t].key])
  /\ UNCHANGED <<row, object, retired, edits>>

\* markIOSNormalized: the file cannot be probed, or is compatible already.
MarkNormalized(t) ==
  /\ At(t, {"fetch"}) /\ task[t].kind = "normalize"
  /\ Stored(task[t].video, task[t].key)
  /\ row' = [row EXCEPT ![task[t].video].normalized = TRUE]
  /\ End(t)
  /\ UNCHANGED <<object, retired, edits>>

\* A transcode uploads under the .mp4 key, a normalization under its own.
EncodeUpload(t) ==
  /\ At(t, {"put"})
  /\ Put(task[t].video, "mp4", task[t].cut)
  /\ Goto(t, "repoint")
  /\ UNCHANGED <<row, retired, edits>>

\* A plausible mistake, to test the properties: file_key is left out of the UPDATE.
EncodeRowKeepingKey(t) == LET v == task[t].video IN
  /\ At(t, {"repoint"})
  /\ row' = [row EXCEPT ![v].normalized = TRUE]
  /\ Goto(t, IF task[t].kind = "transcode" THEN "dropOld" ELSE "clear")
  /\ UNCHANGED <<object, retired, edits>>

EncodeRow(t) == LET v == task[t].video IN
  /\ At(t, {"repoint"})
  /\ row' = IF task[t].kind = "transcode"
            THEN [row EXCEPT ![v] = Repointed(@)]
            ELSE [row EXCEPT ![v].normalized = TRUE]
  /\ Goto(t, IF task[t].kind = "transcode" THEN "dropOld" ELSE "clear")
  /\ UNCHANGED <<object, retired, edits>>

DropWebM(t) ==
  /\ At(t, {"dropOld"})
  /\ Remove(task[t].video, {task[t].key}) \/ UNCHANGED object
  /\ Goto(t, "clear")
  /\ UNCHANGED <<row, retired, edits>>

\* clearTranscodeFailure; its own failure is only logged.
ClearTranscodeFailure(t) ==
  /\ At(t, {"clear"})
  /\ row' = [row EXCEPT ![task[t].video].attempts = 0] \/ UNCHANGED row
  /\ End(t)
  /\ UNCHANGED <<object, retired, edits>>

(***************************************************************************)
(* A failed download, encode, upload or UPDATE is counted; an ffmpeg       *)
(* message that says the input can never decode takes the whole budget.    *)
(***************************************************************************)
EncodeFail(t) ==
  /\ \/ At(t, {"fetch", "put", "repoint"}) /\ Goto(t, "record")
     \/ At(t, {"fetch"}) /\ Goto(t, "recordPermanent")
  /\ UNCHANGED <<row, object, retired, edits>>

\* A plausible mistake, to test the properties: the budget is added, not assigned.
RecordAddingBudget(t) ==
  /\ At(t, {"record", "recordPermanent"})
  /\ row' = [row EXCEPT ![task[t].video].attempts =
                @ + IF At(t, {"recordPermanent"}) THEN MaxTranscodeAttempts ELSE 1]
  /\ End(t)
  /\ UNCHANGED <<object, retired, edits>>

RecordTranscodeFailure(t) ==
  /\ At(t, {"record", "recordPermanent"})
  /\ \/ row' = [row EXCEPT ![task[t].video].attempts =
                  IF At(t, {"recordPermanent"}) THEN MaxTranscodeAttempts ELSE @ + 1]
     \/ UNCHANGED row
  /\ End(t)
  /\ UNCHANGED <<object, retired, edits>>

(***************************************************************************)
(* probeDuration: the duration of an uploaded file, written unguarded.     *)
(***************************************************************************)
ProbeFile(t) == LET v == task[t].video IN
  /\ At(t, {"probe"})
  /\ \/ /\ Stored(v, task[t].key)
        /\ Take(t, "probeRow", object[v][task[t].key])
     \/ End(t)
  /\ UNCHANGED <<row, object, retired, edits>>

ProbeRow(t) ==
  /\ At(t, {"probeRow"})
  /\ row' = [row EXCEPT ![task[t].video].cut = task[t].cut] \/ UNCHANGED row
  /\ End(t)
  /\ UNCHANGED <<object, retired, edits>>

EncodeStep(t) ==
  \/ EncodeCheck(t) \/ EncodeFetch(t) \/ MarkNormalized(t) \/ EncodeUpload(t)
  \/ EncodeRow(t) \/ DropWebM(t) \/ ClearTranscodeFailure(t)
  \/ EncodeFail(t) \/ RecordTranscodeFailure(t)
  \/ ProbeFile(t) \/ ProbeRow(t)
=============================================================================
