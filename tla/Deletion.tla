------------------------------- MODULE Deletion -------------------------------
(***************************************************************************)
(* Deleting a video: the row is marked at once, its objects are removed by *)
(* a goroutine of the request, and what that goroutine leaves behind by    *)
(* the cleanup loop.                                                       *)
(***************************************************************************)
EXTENDS VideoStore

\* The keys the marking UPDATE returns besides file_key.
KnownExtras(v) ==
  {k \in Extras : (k = "thumb" /\ row[v].thumb) \/ (k = "cam" /\ row[v].webcam)}

StartPurge(t, v, kind, extras) ==
  /\ task[t].pc = "idle"
  /\ task' = [task EXCEPT ![t] =
       [NewTask(kind, v, "purgeFile") EXCEPT !.extras = extras]]

MarkDeleted(t, v, kind) ==
  /\ row[v].status \notin {"none", "deleted"}
  /\ row' = [row EXCEPT ![v].status = "deleted"]
  /\ retired' = [retired EXCEPT ![v] = TRUE]
  /\ StartPurge(t, v, kind, KnownExtras(v))
  /\ UNCHANGED <<object, edits>>

Delete(t, v)      == MarkDeleted(t, v, "purge")
BatchDelete(t, v) == MarkDeleted(t, v, "batch")

\* A plausible mistake, to test the properties: give up only uploads without a file.
AbandonEmptyUpload(v) ==
  /\ row[v].status = "uploading" /\ ~Stored(v, row[v].key)
  /\ row' = [row EXCEPT ![v].status = "deleted"]
  /\ retired' = [retired EXCEPT ![v] = TRUE]
  /\ UNCHANGED <<object, task, edits>>

\* AbandonStaleUploads, for a row that has been uploading for a day.
AbandonStaleUpload(v) ==
  /\ row[v].status = "uploading"
  /\ row' = [row EXCEPT ![v].status = "deleted"]
  /\ retired' = [retired EXCEPT ![v] = TRUE]
  /\ UNCHANGED <<object, task, edits>>

\* PurgeOrphanedFiles: its query does not select webcam_key.
PurgeOrphan(t, v) ==
  /\ row[v].status = "deleted"
  /\ ~row[v].purged
  /\ StartPurge(t, v, "clean", KnownExtras(v) \ {"cam"})
  /\ UNCHANGED <<row, object, retired, edits>>

\* deleteWithRetry on the file; when every attempt fails the purge ends.
PurgeFile(t) ==
  /\ At(t, {"purgeFile"})
  /\ Remove(task[t].video, {task[t].key})
  /\ Goto(t, "purgeExtras")
  /\ UNCHANGED <<row, retired, edits>>

PurgeFail(t) ==
  /\ At(t, {"purgeFile", "purgeMark"})
  /\ End(t)
  /\ UNCHANGED <<row, object, retired, edits>>

\* A failure on one of the other objects is only logged.
PurgeExtras(t) ==
  /\ At(t, {"purgeExtras"})
  /\ \E gone \in SUBSET task[t].extras : Remove(task[t].video, gone)
  /\ Goto(t, "purgeMark")
  /\ UNCHANGED <<row, retired, edits>>

\* A plausible mistake, to test the properties: the cleanup does not mark.
PurgeMarkRequestOnly(t) == LET v == task[t].video IN
  /\ At(t, {"purgeMark"})
  /\ row' = [row EXCEPT ![v].purged =
               @ \/ task[t].kind = "batch"
                 \/ (task[t].kind = "purge" /\ row[v].key = task[t].key)]
  /\ End(t)
  /\ UNCHANGED <<object, retired, edits>>

\* Delete and the cleanup mark by file_key, BatchDelete by id.
PurgeMark(t) == LET v == task[t].video IN
  /\ At(t, {"purgeMark"})
  /\ row' = [row EXCEPT ![v].purged =
               @ \/ task[t].kind = "batch" \/ row[v].key = task[t].key]
  /\ End(t)
  /\ UNCHANGED <<object, retired, edits>>

PurgeStep(t) ==
  PurgeFile(t) \/ PurgeFail(t) \/ PurgeExtras(t) \/ PurgeMark(t)
=============================================================================
