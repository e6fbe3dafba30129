------------------------- MODULE VideoLifecycleProofs -------------------------
(***************************************************************************)
(* Proofs about VideoLifecycle, for any number of videos, goroutines,      *)
(* edits and attempts, and any two timeouts of which the sweep's is the    *)
(* longer.                                                                 *)
(***************************************************************************)
EXTENDS VideoLifecycle, TLAPS

TypeInv == TypeOK /\ TasksHaveVideos

USE VideoAssumption, TimeoutAssumption, BoundAssumption

\* What the UPDATEs leave of a row, and a step of a goroutine's record.
LEMMA ClaimedType ==
  ASSUME NEW r \in Row
  PROVE  /\ Claimed(r) \in Row
         /\ Claimed(r).status = "processing" /\ Claimed(r).started = 0
         /\ Claimed(r).webcam = r.webcam /\ Claimed(r).key = r.key
<1>1. /\ "processing" \in Statuses /\ 0 \in Int
  BY DEF Statuses
<1> QED
  BY <1>1, Zenon DEF Claimed, Row

LEMMA FreedType ==
  ASSUME NEW r \in Row, NEW w \in BOOLEAN
  PROVE  /\ Freed(r, w) \in Row
         /\ Freed(r, w).status = "ready" /\ Freed(r, w).started = Nil
         /\ Freed(r, w).webcam = w /\ Freed(r, w).key = r.key
<1>1. /\ "ready" \in Statuses /\ Nil \in Int
  BY DEF Statuses, Nil
<1> QED
  BY <1>1, Zenon DEF Freed, Row

LEMMA RepointedType ==
  ASSUME NEW r \in Row
  PROVE  /\ Repointed(r) \in Row
         /\ Repointed(r).status = r.status /\ Repointed(r).started = r.started
         /\ Repointed(r).webcam = r.webcam /\ Repointed(r).key = "mp4"
<1>1. "mp4" \in Formats
  BY DEF Formats
<1> QED
  BY <1>1, Zenon DEF Repointed, Row

\* A single column that is assigned leaves the others alone.
LEMMA CutColumn ==
  ASSUME NEW r \in Row, NEW c \in Int
  PROVE  /\ [r EXCEPT !.cut = c] \in Row
         /\ [r EXCEPT !.cut = c].status = r.status
         /\ [r EXCEPT !.cut = c].started = r.started
         /\ [r EXCEPT !.cut = c].webcam = r.webcam
         /\ [r EXCEPT !.cut = c].key = r.key
BY DEF Row

LEMMA OtherColumns ==
  ASSUME NEW r \in Row, NEW b \in BOOLEAN
  PROVE  /\ [r EXCEPT !.thumb = b] \in Row
         /\ [r EXCEPT !.normalized = b] \in Row
         /\ [r EXCEPT !.purged = b] \in Row
         /\ \A x \in {"none", "pending"} : [r EXCEPT !.transcript = x] \in Row
<1>1. [r EXCEPT !.thumb = b] \in Row
  BY DEF Row
<1>2. [r EXCEPT !.normalized = b] \in Row
  BY DEF Row
<1>3. [r EXCEPT !.purged = b] \in Row
  BY DEF Row
<1>4. \A x \in {"none", "pending"} : [r EXCEPT !.transcript = x] \in Row
  BY DEF Row
<1> QED BY <1>1, <1>2, <1>3, <1>4

LEMMA MovedType ==
  ASSUME NEW r \in Task, NEW pc \in Pcs, NEW c \in Int
  PROVE  /\ Moved(r, pc, c) \in Task
         /\ Moved(r, pc, c).pc = pc /\ Moved(r, pc, c).cut = c
         /\ Moved(r, pc, c).kind = r.kind /\ Moved(r, pc, c).video = r.video
         /\ Moved(r, pc, c).key = r.key /\ Moved(r, pc, c).age = r.age
BY Zenon DEF Moved, Task

LEMMA IdleTaskType == IdleTask \in Task
BY DEF IdleTask, Task, Kinds, Pcs, EditPcs, Formats, Extras, Nil

\* A goroutine started by EnqueueJob or a go statement is well formed.
LEMMA NewTaskType ==
  ASSUME TypeOK, NEW v \in Videos, NEW kind \in Kinds, NEW pc \in Pcs
  PROVE  /\ NewTask(kind, v, pc) \in Task
         /\ NewTask(kind, v, pc).kind = kind
         /\ NewTask(kind, v, pc).video = v
         /\ NewTask(kind, v, pc).pc = pc
         /\ NewTask(kind, v, pc).key = row[v].key
         /\ NewTask(kind, v, pc).age = 0
         /\ NewTask(kind, v, pc).cut = Nil
BY IdleTaskType DEF TypeOK, Row, Task, NewTask, IdleTask

LEMMA ThumbnailingType ==
  ASSUME NEW r \in Task
  PROVE  /\ Thumbnailing(r) \in Task
         /\ Thumbnailing(r).pc = "thumb" /\ Thumbnailing(r).video = r.video
         /\ Thumbnailing(r).kind = r.kind /\ Thumbnailing(r).key = r.key
BY IdleTaskType DEF Thumbnailing, IdleTask, Task, Pcs

\* What End and Goto leave of the task table.
LEMMA EndType ==
  ASSUME TypeInv, NEW t \in Tasks, End(t)
  PROVE  /\ task' \in [Tasks -> Task]
         /\ \A u \in Tasks : task'[u].pc # "idle" => task'[u].video \in Videos
         /\ \A u \in Tasks \ {t} : task'[u] = task[u]
         /\ task'[t].pc = "idle" /\ task'[t].kind = "idle"
BY IdleTaskType DEF TypeInv, TypeOK, TasksHaveVideos, End, IdleTask

LEMMA TakeType ==
  ASSUME TypeInv, NEW t \in Tasks, NEW pc \in Pcs, NEW c \in Int, Take(t, pc, c),
         task[t].pc # "idle"
  PROVE  /\ task' \in [Tasks -> Task]
         /\ \A u \in Tasks : task'[u].pc # "idle" => task'[u].video \in Videos
         /\ \A u \in Tasks \ {t} : task'[u] = task[u]
         /\ task'[t] = Moved(task[t], pc, c)
         /\ task'[t].pc = pc /\ task'[t].cut = c
         /\ task'[t].kind = task[t].kind /\ task'[t].video = task[t].video
         /\ task'[t].key = task[t].key /\ task'[t].age = task[t].age
<1>1. task[t] \in Task
  BY DEF TypeInv, TypeOK
<1>2. /\ Moved(task[t], pc, c) \in Task
      /\ Moved(task[t], pc, c).pc = pc /\ Moved(task[t], pc, c).cut = c
      /\ Moved(task[t], pc, c).kind = task[t].kind
      /\ Moved(task[t], pc, c).video = task[t].video
      /\ Moved(task[t], pc, c).key = task[t].key
      /\ Moved(task[t], pc, c).age = task[t].age
  BY <1>1, MovedType
<1>3. task' = [task EXCEPT ![t] = Moved(task[t], pc, c)]
  BY DEF Take
<1> QED
  BY <1>2, <1>3 DEF TypeInv, TypeOK, TasksHaveVideos

LEMMA GotoType ==
  ASSUME TypeInv, NEW t \in Tasks, NEW pc \in Pcs, Goto(t, pc), task[t].pc # "idle"
  PROVE  /\ task' \in [Tasks -> Task]
         /\ \A u \in Tasks : task'[u].pc # "idle" => task'[u].video \in Videos
         /\ \A u \in Tasks \ {t} : task'[u] = task[u]
         /\ task'[t].pc = pc /\ task'[t].cut = Nil
         /\ task'[t].kind = task[t].kind /\ task'[t].video = task[t].video
         /\ task'[t].key = task[t].key /\ task'[t].age = task[t].age
<1>1. Take(t, pc, Nil) /\ Nil \in Int
  BY DEF Goto, Nil
<1> QED
  BY <1>1, TakeType

LEMMA StartType ==
  ASSUME TypeInv, NEW t \in Tasks, NEW v \in Videos, NEW kind \in Kinds,
         NEW pc \in Pcs, Start(t, kind, v, pc)
  PROVE  /\ task' \in [Tasks -> Task]
         /\ \A u \in Tasks : task'[u].pc # "idle" => task'[u].video \in Videos
         /\ \A u \in Tasks \ {t} : task'[u] = task[u]
         /\ task'[t] = NewTask(kind, v, pc)
<1>1. NewTask(kind, v, pc) \in Task /\ NewTask(kind, v, pc).video = v
  BY NewTaskType DEF TypeInv
<1> QED
  BY <1>1 DEF TypeInv, TypeOK, TasksHaveVideos, Start

LEMMA PutType ==
  ASSUME TypeInv, NEW v \in Videos, NEW k \in Formats \cup Extras, NEW c \in Int,
         Put(v, k, c)
  PROVE  /\ object' \in [Videos -> [Formats \cup Extras -> Int]]
         /\ \A w \in Videos, j \in Formats \cup Extras :
              object'[w][j] = IF w = v /\ j = k THEN c ELSE object[w][j]
BY DEF TypeInv, TypeOK, Put

LEMMA RemoveType ==
  ASSUME TypeInv, NEW v \in Videos, NEW ks, Remove(v, ks)
  PROVE  /\ object' \in [Videos -> [Formats \cup Extras -> Int]]
         /\ \A w \in Videos, j \in Formats \cup Extras :
              object'[w][j] = IF w = v /\ j \in ks THEN Nil ELSE object[w][j]
<1> DEFINE left == [k \in Formats \cup Extras |-> IF k \in ks THEN Nil ELSE object[v][k]]
<1>1. object' = [object EXCEPT ![v] = left]
  BY DEF TypeInv, TypeOK, Remove
<1>2. left \in [Formats \cup Extras -> Int]
  BY DEF TypeInv, TypeOK, Nil
<1> QED
  BY <1>1, <1>2 DEF TypeInv, TypeOK
-----------------------------------------------------------------------------
(***************************************************************************)
(* Type correctness.                                                       *)
(***************************************************************************)
\* The type of a row that a conditional or single-column UPDATE writes.
LEMMA RowUpdateType ==
  ASSUME TypeInv, NEW v \in Videos, NEW r \in Row, row' = [row EXCEPT ![v] = r]
  PROVE  /\ row' \in [Videos -> Row]
         /\ row'[v] = r
         /\ \A w \in Videos \ {v} : row'[w] = row[w]
BY DEF TypeInv, TypeOK

\* UPDATEs that leave the claim on a row alone, and its file.
KeepsClaim ==
  \A w \in Videos : /\ row'[w].status = row[w].status
                    /\ row'[w].started = row[w].started
                    /\ row'[w].webcam = row[w].webcam

KeepsKey == \A w \in Videos : row'[w].key = row[w].key

LEMMA KeepsClaimSame ==
  ASSUME TypeInv, row' = row
  PROVE  row' \in [Videos -> Row] /\ KeepsClaim /\ KeepsKey
BY DEF TypeInv, TypeOK, KeepsClaim, KeepsKey

SameClaim(r, s) ==
  /\ r.status = s.status /\ r.started = s.started
  /\ r.webcam = s.webcam /\ r.key = s.key

LEMMA SameClaimUpdate ==
  ASSUME TypeInv, NEW v \in Videos, NEW r \in Row, SameClaim(r, row[v]),
         row' = [row EXCEPT ![v] = r]
  PROVE  row' \in [Videos -> Row] /\ KeepsClaim /\ KeepsKey
BY DEF TypeInv, TypeOK, SameClaim, KeepsClaim, KeepsKey

LEMMA NormalizedUpdate ==
  ASSUME TypeInv, NEW v \in Videos,
         row' = [row EXCEPT ![v].normalized = TRUE]
  PROVE  row' \in [Videos -> Row] /\ KeepsClaim /\ KeepsKey
<1> DEFINE r == [row[v] EXCEPT !.normalized = TRUE]
<1>0. row[v] \in Row
  BY DEF TypeInv, TypeOK
<1>1. r \in Row /\ SameClaim(r, row[v])
  BY <1>0 DEF Row, SameClaim
<1>2. row' = [row EXCEPT ![v] = r]
  BY DEF TypeInv, TypeOK
<1> HIDE DEF r
<1> QED
  BY <1>1, <1>2, SameClaimUpdate

LEMMA PurgedUpdate ==
  ASSUME TypeInv, NEW v \in Videos, NEW b \in BOOLEAN,
         row' = [row EXCEPT ![v].purged = b]
  PROVE  row' \in [Videos -> Row] /\ KeepsClaim /\ KeepsKey
<1> DEFINE r == [row[v] EXCEPT !.purged = b]
<1>0. row[v] \in Row
  BY DEF TypeInv, TypeOK
<1>1. r \in Row /\ SameClaim(r, row[v])
  BY <1>0 DEF Row, SameClaim
<1>2. row' = [row EXCEPT ![v] = r]
  BY DEF TypeInv, TypeOK
<1> HIDE DEF r
<1> QED
  BY <1>1, <1>2, SameClaimUpdate

LEMMA AttemptsUpdate ==
  ASSUME TypeInv, NEW v \in Videos, NEW n \in Nat,
         row' = [row EXCEPT ![v].attempts = n]
  PROVE  row' \in [Videos -> Row] /\ KeepsClaim /\ KeepsKey
<1> DEFINE r == [row[v] EXCEPT !.attempts = n]
<1>0. row[v] \in Row
  BY DEF TypeInv, TypeOK
<1>1. r \in Row /\ SameClaim(r, row[v])
  BY <1>0 DEF Row, SameClaim
<1>2. row' = [row EXCEPT ![v] = r]
  BY DEF TypeInv, TypeOK
<1> HIDE DEF r
<1> QED
  BY <1>1, <1>2, SameClaimUpdate

LEMMA ThumbUpdate ==
  ASSUME TypeInv, NEW v \in Videos,
         row' = [row EXCEPT ![v].thumb = TRUE]
  PROVE  row' \in [Videos -> Row] /\ KeepsClaim /\ KeepsKey
<1> DEFINE r == [row[v] EXCEPT !.thumb = TRUE]
<1>0. row[v] \in Row
  BY DEF TypeInv, TypeOK
<1>1. r \in Row /\ SameClaim(r, row[v])
  BY <1>0 DEF Row, SameClaim
<1>2. row' = [row EXCEPT ![v] = r]
  BY DEF TypeInv, TypeOK
<1> HIDE DEF r
<1> QED
  BY <1>1, <1>2, SameClaimUpdate

LEMMA CutUpdate ==
  ASSUME TypeInv, NEW v \in Videos, NEW c \in Int,
         row' = [row EXCEPT ![v].cut = c]
  PROVE  row' \in [Videos -> Row] /\ KeepsClaim /\ KeepsKey
<1> DEFINE r == [row[v] EXCEPT !.cut = c]
<1>0. row[v] \in Row
  BY DEF TypeInv, TypeOK
<1>1. r \in Row /\ SameClaim(r, row[v])
  BY <1>0 DEF Row, SameClaim
<1>2. row' = [row EXCEPT ![v] = r]
  BY DEF TypeInv, TypeOK
<1> HIDE DEF r
<1> QED
  BY <1>1, <1>2, SameClaimUpdate

LEMMA TranscriptUpdate ==
  ASSUME TypeInv, NEW v \in Videos,
         EnqueueTranscription(v)
  PROVE  row' \in [Videos -> Row] /\ KeepsClaim /\ KeepsKey
<1> DEFINE r == [row[v] EXCEPT !.transcript =
                 IF row[v].status # "deleted" THEN "pending" ELSE row[v].transcript]
<1>0. row[v] \in Row
  BY DEF TypeInv, TypeOK
<1>1. r \in Row /\ SameClaim(r, row[v])
  BY <1>0 DEF Row, SameClaim
<1>2. row' = [row EXCEPT ![v] = r]
  BY DEF TypeInv, TypeOK, EnqueueTranscription
<1> HIDE DEF r
<1> QED
  BY <1>1, <1>2, SameClaimUpdate

LEMMA StatusUpdateType ==
  ASSUME TypeInv, NEW v \in Videos, row' = [row EXCEPT ![v].status = "deleted"]
  PROVE  /\ row' \in [Videos -> Row]
         /\ row'[v].status = "deleted"
         /\ \A w \in Videos \ {v} : row'[w] = row[w]
         /\ \A w \in Videos : /\ row'[w].started = row[w].started
                              /\ row'[w].webcam = row[w].webcam
                              /\ row'[w].key = row[w].key
<1> DEFINE r == [row[v] EXCEPT !.status = "deleted"]
<1>0. row[v] \in Row /\ "deleted" \in Statuses
  BY DEF TypeInv, TypeOK, Statuses
<1>1. /\ r \in Row /\ r.status = "deleted" /\ r.started = row[v].started
      /\ r.webcam = row[v].webcam /\ r.key = row[v].key
  BY <1>0 DEF Row
<1>2. row' = [row EXCEPT ![v] = r]
  BY DEF TypeInv, TypeOK
<1> HIDE DEF r
<1> QED
  BY <1>1, <1>2 DEF TypeInv, TypeOK

\* A purge starts with the keys it was told of.
LEMMA PurgeStartType ==
  ASSUME TypeInv, NEW v \in Videos, NEW t \in Tasks,
         NEW kind \in {"purge", "batch", "clean"}, NEW ks \in SUBSET Extras,
         StartPurge(t, v, kind, ks)
  PROVE  /\ task' \in [Tasks -> Task]
         /\ \A u \in Tasks : task'[u].pc # "idle" => task'[u].video \in Videos
         /\ \A u \in Tasks \ {t} : task'[u] = task[u]
         /\ task'[t].pc = "purgeFile" /\ task'[t].kind = kind
         /\ task'[t].video = v
<1> DEFINE n == NewTask(kind, v, "purgeFile")
<1>1. n \in Task /\ n.video = v /\ n.pc = "purgeFile" /\ n.kind = kind
  BY NewTaskType DEF TypeInv, Kinds, Pcs
<1>2. /\ [n EXCEPT !.extras = ks] \in Task
      /\ [n EXCEPT !.extras = ks].video = v
      /\ [n EXCEPT !.extras = ks].pc = "purgeFile"
      /\ [n EXCEPT !.extras = ks].kind = kind
  BY <1>1 DEF Task
<1>3. task' = [task EXCEPT ![t] = [n EXCEPT !.extras = ks]]
  BY DEF StartPurge
<1> HIDE DEF n
<1> QED
  BY <1>2, <1>3 DEF TypeInv, TypeOK, TasksHaveVideos

LEMMA EditStepType ==
  ASSUME TypeInv, NEW t \in Tasks, EditStep(t)
  PROVE  TypeInv'
<1> DEFINE v == task[t].video
<1>0. /\ task[t] \in Task
      /\ task[t].pc # "idle" => v \in Videos /\ row[v] \in Row
  BY DEF TypeInv, TypeOK, TasksHaveVideos
<1>c. \A k \in Formats \cup Extras : v \in Videos => object[v][k] \in Int
  BY DEF TypeInv, TypeOK
<1>w. WebcamAfter(t) \in BOOLEAN
  BY DEF WebcamAfter
<1>1. CASE ClaimEdit(t)
  <2>1. v \in Videos /\ Claimed(row[v]) \in Row
    BY <1>0, <1>1, ClaimedType DEF ClaimEdit, At
  <2>2. row' \in [Videos -> Row]
    BY <1>1, <2>1, RowUpdateType DEF ClaimEdit, ClaimRow
  <2>3. /\ task' \in [Tasks -> Task]
        /\ \A u \in Tasks : task'[u].pc # "idle" => task'[u].video \in Videos
    BY <1>1, TakeType DEF ClaimEdit, At, Goto, Nil, Pcs, EditPcs
  <2> QED
    BY <1>1, <2>2, <2>3 DEF ClaimEdit, TypeInv, TypeOK, TasksHaveVideos
<1>2. CASE RefuseEdit(t) \/ PublishFail(t)
  BY <1>2, EndType DEF RefuseEdit, PublishFail, TypeInv, TypeOK, TasksHaveVideos
<1>3. CASE EditDownload(t)
  <2>1. /\ task' \in [Tasks -> Task]
        /\ \A u \in Tasks : task'[u].pc # "idle" => task'[u].video \in Videos
    BY <1>0, <1>c, <1>3, TakeType DEF EditDownload, At, Pcs, EditPcs, Task
  <2> QED
    BY <1>3, <2>1 DEF EditDownload, TypeInv, TypeOK, TasksHaveVideos
<1>4. CASE EditUpload(t)
  <2>1. v \in Videos /\ task[t].cut \in Int /\ task[t].cut + 1 \in Int
        /\ task[t].key \in Formats \cup Extras /\ task[t].pc # "idle"
    BY <1>0, <1>4 DEF EditUpload, At, Task
  <2>2. object' \in [Videos -> [Formats \cup Extras -> Int]]
    BY <1>4, <2>1, PutType DEF EditUpload
  <2>3. /\ task' \in [Tasks -> Task]
        /\ \A u \in Tasks : task'[u].pc # "idle" => task'[u].video \in Videos
    BY <1>4, <2>1, TakeType DEF EditUpload, Goto, Nil, Pcs, EditPcs
  <2> QED
    BY <1>4, <2>2, <2>3 DEF EditUpload, TypeInv, TypeOK, TasksHaveVideos
<1>5. CASE EditFail(t)
  <2>1. /\ task' \in [Tasks -> Task]
        /\ \A u \in Tasks : task'[u].pc # "idle" => task'[u].video \in Videos
    BY <1>5, TakeType DEF EditFail, At, Goto, Nil, Pcs, EditPcs
  <2> QED
    BY <1>5, <2>1 DEF EditFail, TypeInv, TypeOK, TasksHaveVideos
<1>6. CASE DropWebcam(t)
  <2>1. v \in Videos /\ task[t].pc # "idle"
    BY <1>0, <1>6 DEF DropWebcam, At
  <2>2. object' \in [Videos -> [Formats \cup Extras -> Int]]
    BY <1>6, <2>1, RemoveType DEF DropWebcam, TypeInv, TypeOK
  <2>3. /\ task' \in [Tasks -> Task]
        /\ \A u \in Tasks : task'[u].pc # "idle" => task'[u].video \in Videos
    BY <1>6, <2>1, TakeType DEF DropWebcam, Goto, Nil, Pcs, EditPcs
  <2> QED
    BY <1>6, <2>2, <2>3 DEF DropWebcam, TypeInv, TypeOK, TasksHaveVideos
<1>7. CASE Publish(t)
  <2>1. v \in Videos /\ Freed(row[v], WebcamAfter(t)) \in Row
    BY <1>0, <1>w, <1>7, FreedType DEF Publish, At
  <2> DEFINE r == [Freed(row[v], WebcamAfter(t)) EXCEPT !.cut = CutAfter(t)]
  <2>2. r \in Row
    <3>1. row[v].cut \in Int /\ task[t].length \in Int
      BY <1>0, <2>1, <1>7 DEF Row, Task, Publish, At
    <3>2. CutAfter(t) \in Int
      BY <3>1 DEF CutAfter
    <3> QED
      BY <2>1, <3>2, CutColumn
  <2>3. row' \in [Videos -> Row]
    <3>1. row' = [row EXCEPT ![v] = r]
      BY <1>7 DEF Publish
    <3> QED
      BY <2>1, <2>2, <3>1, RowUpdateType
  <2>4. /\ task' \in [Tasks -> Task]
        /\ \A u \in Tasks : task'[u].pc # "idle" => task'[u].video \in Videos
    <3>1. Thumbnailing(task[t]) \in Task /\ Thumbnailing(task[t]).video \in Videos
      BY <1>0, <2>1, <1>7, ThumbnailingType
    <3> QED
      BY <1>7, <3>1 DEF Publish, TypeInv, TypeOK, TasksHaveVideos
  <2> QED
    BY <1>7, <2>3, <2>4 DEF Publish, TypeInv, TypeOK, TasksHaveVideos
<1>8. CASE Fallback(t)
  <2>1. v \in Videos /\ Freed(row[v], WebcamAfter(t)) \in Row
    BY <1>0, <1>w, <1>8, FreedType DEF Fallback, At
  <2>2. row' \in [Videos -> Row]
    <3>1. CASE row' = [row EXCEPT ![v] = Freed(row[v], WebcamAfter(t))]
      BY <2>1, <3>1, RowUpdateType
    <3>2. CASE row' = row
      BY <3>2 DEF TypeInv, TypeOK
    <3> QED
      BY <1>8, <3>1, <3>2 DEF Fallback
  <2>3. /\ task' \in [Tasks -> Task]
        /\ \A u \in Tasks : task'[u].pc # "idle" => task'[u].video \in Videos
    BY <1>8, EndType DEF Fallback
  <2> QED
    BY <1>8, <2>2, <2>3 DEF Fallback, TypeInv, TypeOK, TasksHaveVideos
<1>9. CASE ThumbnailUpload(t)
  <2>1. v \in Videos /\ task[t].pc # "idle" /\ 0 \in Int
        /\ "thumb" \in Formats \cup Extras
    BY <1>0, <1>9 DEF ThumbnailUpload, At, Extras
  <2>2. object' \in [Videos -> [Formats \cup Extras -> Int]]
    BY <1>9, <2>1, PutType DEF ThumbnailUpload
  <2>3. /\ task' \in [Tasks -> Task]
        /\ \A u \in Tasks : task'[u].pc # "idle" => task'[u].video \in Videos
    BY <1>9, <2>1, TakeType DEF ThumbnailUpload, Goto, Nil, Pcs
  <2> QED
    BY <1>9, <2>2, <2>3 DEF ThumbnailUpload, TypeInv, TypeOK, TasksHaveVideos
<1>10. ASSUME AfterThumbnail(t), task[t].pc # "idle"
       PROVE  /\ task' \in [Tasks -> Task]
              /\ \A u \in Tasks : task'[u].pc # "idle" => task'[u].video \in Videos
  <2>1. CASE End(t)
    BY <2>1, EndType
  <2>2. CASE Goto(t, "enqueue")
    <3>1. "enqueue" \in Pcs /\ Nil \in Int
      BY DEF Pcs, Nil
    <3>2. Take(t, "enqueue", Nil)
      BY <2>2 DEF Goto
    <3> QED
      BY <1>10, <3>1, <3>2, TakeType
  <2> QED
    BY <1>10, <2>1, <2>2 DEF AfterThumbnail
<1>11. CASE ThumbnailRow(t)
  <2>1. v \in Videos /\ task[t].pc # "idle"
    BY <1>0, <1>11 DEF ThumbnailRow, At
  <2>2. row' \in [Videos -> Row]
    <3>1. [row[v] EXCEPT !.thumb = TRUE] \in Row
      BY <2>1, OtherColumns DEF TypeInv, TypeOK
    <3>2. row' = [row EXCEPT ![v] = [row[v] EXCEPT !.thumb = TRUE]]
      BY <1>11 DEF ThumbnailRow
    <3> QED BY <2>1, <3>1, <3>2, RowUpdateType
  <2> QED
    BY <1>10, <1>11, <2>1, <2>2 DEF ThumbnailRow, TypeInv, TypeOK, TasksHaveVideos
<1>12. CASE ThumbnailFail(t)
  <2>1. task[t].pc # "idle"
    BY <1>12 DEF ThumbnailFail, At
  <2> QED
    BY <1>10, <1>12, <2>1 DEF ThumbnailFail, TypeInv, TypeOK, TasksHaveVideos
<1>13. CASE EditEnqueue(t)
  <2>1. v \in Videos
    BY <1>0, <1>13 DEF EditEnqueue, At
  <2>2. row' \in [Videos -> Row]
    <3> DEFINE x == IF row[v].status # "deleted" THEN "pending" ELSE row[v].transcript
               r == [row[v] EXCEPT !.transcript = x]
    <3>1. row[v] \in Row /\ x \in {"none", "pending"}
      <4>1. row[v] \in Row
        BY <2>1 DEF TypeInv, TypeOK
      <4>2. row[v].transcript \in {"none", "pending"}
        BY <4>1 DEF Row
      <4> QED BY <4>1, <4>2
    <3>2. r \in Row
      <4> HIDE DEF x
      <4> QED BY <3>1, OtherColumns
    <3>3. row' = [row EXCEPT ![v] = r] \/ row' = row
      BY <1>13 DEF EditEnqueue, EnqueueTranscription
    <3>4. row \in [Videos -> Row]
      BY DEF TypeInv, TypeOK
    <3> HIDE DEF r
    <3> QED BY <2>1, <3>2, <3>3, <3>4, RowUpdateType
  <2>3. /\ task' \in [Tasks -> Task]
        /\ \A u \in Tasks : task'[u].pc # "idle" => task'[u].video \in Videos
    BY <1>13, EndType DEF EditEnqueue
  <2> QED
    BY <1>13, <2>2, <2>3 DEF EditEnqueue, TypeInv, TypeOK, TasksHaveVideos
<1> QED
  BY <1>1, <1>2, <1>3, <1>4, <1>5, <1>6, <1>7, <1>8, <1>9, <1>11, <1>12, <1>13
     DEF EditStep

LEMMA EncodeStepType ==
  ASSUME TypeInv, NEW t \in Tasks, EncodeStep(t)
  PROVE  TypeInv'
<1> DEFINE v == task[t].video
           TaskTyped == /\ task' \in [Tasks -> Task]
                        /\ \A u \in Tasks : task'[u].pc # "idle"
                                              => task'[u].video \in Videos
<1>0. /\ task[t] \in Task
      /\ task[t].pc # "idle" => v \in Videos /\ row[v] \in Row
  BY DEF TypeInv, TypeOK, TasksHaveVideos
<1>p. /\ {"fetch", "put", "repoint", "dropOld", "clear", "record",
           "recordPermanent", "probeRow"} \subseteq Pcs
      /\ "mp4" \in Formats \cup Extras
  BY DEF Pcs, Formats
<1>1. CASE EncodeCheck(t)
  <2>1. task[t].pc # "idle"
    BY <1>1 DEF EncodeCheck, At
  <2>2. TaskTyped
    BY <1>1, <1>p, <2>1, GotoType, EndType DEF EncodeCheck
  <2> QED
    BY <1>1, <2>2 DEF EncodeCheck, TypeInv, TypeOK, TasksHaveVideos
<1>2. CASE EncodeFetch(t)
  <2>1. task[t].pc # "idle" /\ task[t].key \in Formats
    BY <1>0, <1>2 DEF EncodeFetch, At, Task
  <2>2. object[v][task[t].key] \in Int
    BY <1>0, <2>1 DEF TypeInv, TypeOK
  <2>3. TaskTyped
    BY <1>2, <1>p, <2>1, <2>2, TakeType DEF EncodeFetch
  <2> QED
    BY <1>2, <2>3 DEF EncodeFetch, TypeInv, TypeOK, TasksHaveVideos
<1>3. CASE MarkNormalized(t)
  <2>1. v \in Videos
    BY <1>0, <1>3 DEF MarkNormalized, At
  <2>2. row' \in [Videos -> Row]
    <3>1. [row[v] EXCEPT !.normalized = TRUE] \in Row
      BY <2>1, OtherColumns DEF TypeInv, TypeOK
    <3>2. row' = [row EXCEPT ![v] = [row[v] EXCEPT !.normalized = TRUE]]
      BY <1>3 DEF MarkNormalized
    <3> QED BY <2>1, <3>1, <3>2, RowUpdateType
  <2>3. TaskTyped
    BY <1>3, EndType DEF MarkNormalized
  <2> QED
    BY <1>3, <2>2, <2>3 DEF MarkNormalized, TypeInv, TypeOK, TasksHaveVideos
<1>4. CASE EncodeUpload(t)
  <2>1. v \in Videos /\ task[t].pc # "idle" /\ task[t].cut \in Int
    BY <1>0, <1>4 DEF EncodeUpload, At, Task
  <2>2. object' \in [Videos -> [Formats \cup Extras -> Int]]
    BY <1>4, <1>p, <2>1, PutType DEF EncodeUpload
  <2>3. TaskTyped
    BY <1>4, <1>p, <2>1, GotoType DEF EncodeUpload
  <2> QED
    BY <1>4, <2>2, <2>3 DEF EncodeUpload, TypeInv, TypeOK, TasksHaveVideos
<1>5. CASE EncodeRow(t)
  <2>1. v \in Videos /\ task[t].pc # "idle"
    BY <1>0, <1>5 DEF EncodeRow, At
  <2>2. row' \in [Videos -> Row]
    <3>1. CASE row' = [row EXCEPT ![v] = Repointed(row[v])]
      BY <1>0, <2>1, <3>1, RepointedType, RowUpdateType
    <3>2. CASE row' = [row EXCEPT ![v].normalized = TRUE]
      BY <2>1, <3>2, NormalizedUpdate
    <3> QED
      BY <1>5, <3>1, <3>2 DEF EncodeRow
  <2>3. TaskTyped
    BY <1>5, <1>p, <2>1, GotoType DEF EncodeRow
  <2> QED
    BY <1>5, <2>2, <2>3 DEF EncodeRow, TypeInv, TypeOK, TasksHaveVideos
<1>6. CASE DropWebM(t)
  <2>1. v \in Videos /\ task[t].pc # "idle"
    BY <1>0, <1>6 DEF DropWebM, At
  <2>2. object' \in [Videos -> [Formats \cup Extras -> Int]]
    BY <1>6, <2>1, RemoveType DEF DropWebM, TypeInv, TypeOK
  <2>3. TaskTyped
    BY <1>6, <1>p, <2>1, GotoType DEF DropWebM
  <2> QED
    BY <1>6, <2>2, <2>3 DEF DropWebM, TypeInv, TypeOK, TasksHaveVideos
<1>7. CASE ClearTranscodeFailure(t)
  <2>1. v \in Videos
    BY <1>0, <1>7 DEF ClearTranscodeFailure, At
  <2>2. row' \in [Videos -> Row]
    <3>1. CASE row' = [row EXCEPT ![v].attempts = 0]
      BY <2>1, <3>1, AttemptsUpdate
    <3>2. CASE row' = row
      BY <3>2, KeepsClaimSame
    <3> QED
      BY <1>7, <3>1, <3>2 DEF ClearTranscodeFailure
  <2>3. TaskTyped
    BY <1>7, EndType DEF ClearTranscodeFailure
  <2> QED
    BY <1>7, <2>2, <2>3 DEF ClearTranscodeFailure, TypeInv, TypeOK, TasksHaveVideos
<1>8. CASE EncodeFail(t)
  <2>1. task[t].pc # "idle"
    BY <1>8 DEF EncodeFail, At
  <2>2. TaskTyped
    BY <1>8, <1>p, <2>1, GotoType DEF EncodeFail
  <2> QED
    BY <1>8, <2>2 DEF EncodeFail, TypeInv, TypeOK, TasksHaveVideos
<1>9. CASE RecordTranscodeFailure(t)
  <2>1. v \in Videos
    BY <1>0, <1>9 DEF RecordTranscodeFailure, At
  <2>2. row' \in [Videos -> Row]
    <3>1. row[v].attempts + 1 \in Nat /\ MaxTranscodeAttempts \in Nat
      <4>1. row[v] \in Row
        BY <2>1 DEF TypeInv, TypeOK
      <4> QED
        BY <4>1 DEF Row
    <3>2. CASE row' = [row EXCEPT ![v].attempts = MaxTranscodeAttempts]
      BY <2>1, <3>1, <3>2, AttemptsUpdate
    <3>3. CASE row' = [row EXCEPT ![v].attempts = row[v].attempts + 1]
      BY <2>1, <3>1, <3>3, AttemptsUpdate
    <3>4. CASE row' = row
      BY <3>4, KeepsClaimSame
    <3> QED
      BY <1>9, <2>1, <3>2, <3>3, <3>4 DEF RecordTranscodeFailure, TypeInv, TypeOK
  <2>3. TaskTyped
    BY <1>9, EndType DEF RecordTranscodeFailure
  <2> QED
    BY <1>9, <2>2, <2>3 DEF RecordTranscodeFailure, TypeInv, TypeOK, TasksHaveVideos
<1>10. CASE ProbeFile(t)
  <2>1. task[t].pc # "idle" /\ task[t].key \in Formats
    BY <1>0, <1>10 DEF ProbeFile, At, Task
  <2>2. object[v][task[t].key] \in Int
    BY <1>0, <2>1 DEF TypeInv, TypeOK
  <2>3. TaskTyped
    BY <1>10, <1>p, <2>1, <2>2, TakeType, EndType DEF ProbeFile
  <2> QED
    BY <1>10, <2>3 DEF ProbeFile, TypeInv, TypeOK, TasksHaveVideos
<1>11. CASE ProbeRow(t)
  <2>1. v \in Videos /\ task[t].cut \in Int
    BY <1>0, <1>11 DEF ProbeRow, At, Task
  <2>2. row' \in [Videos -> Row]
    <3>1. CASE row' = [row EXCEPT ![v].cut = task[t].cut]
      BY <2>1, <3>1, CutUpdate
    <3>2. CASE row' = row
      BY <3>2, KeepsClaimSame
    <3> QED
      BY <1>11, <3>1, <3>2 DEF ProbeRow
  <2>3. TaskTyped
    BY <1>11, EndType DEF ProbeRow
  <2> QED
    BY <1>11, <2>2, <2>3 DEF ProbeRow, TypeInv, TypeOK, TasksHaveVideos
<1> QED
  BY <1>1, <1>2, <1>3, <1>4, <1>5, <1>6, <1>7, <1>8, <1>9, <1>10, <1>11
     DEF EncodeStep

LEMMA PurgeStepType ==
  ASSUME TypeInv, NEW t \in Tasks, PurgeStep(t)
  PROVE  TypeInv'
<1> DEFINE v == task[t].video
           TaskTyped == /\ task' \in [Tasks -> Task]
                        /\ \A u \in Tasks : task'[u].pc # "idle"
                                              => task'[u].video \in Videos
<1>0. /\ task[t] \in Task
      /\ task[t].pc # "idle" => v \in Videos /\ row[v] \in Row
  BY DEF TypeInv, TypeOK, TasksHaveVideos
<1>p. {"purgeExtras", "purgeMark"} \subseteq Pcs
  BY DEF Pcs
<1>1. CASE PurgeFile(t)
  <2>1. v \in Videos /\ task[t].pc # "idle"
    BY <1>0, <1>1 DEF PurgeFile, At
  <2>2. object' \in [Videos -> [Formats \cup Extras -> Int]]
    BY <1>1, <2>1, RemoveType DEF PurgeFile
  <2>3. TaskTyped
    BY <1>1, <1>p, <2>1, GotoType DEF PurgeFile
  <2> QED
    BY <1>1, <2>2, <2>3 DEF PurgeFile, TypeInv, TypeOK, TasksHaveVideos
<1>2. CASE PurgeFail(t)
  BY <1>2, EndType DEF PurgeFail, TypeInv, TypeOK, TasksHaveVideos
<1>3. CASE PurgeExtras(t)
  <2>1. v \in Videos /\ task[t].pc # "idle"
    BY <1>0, <1>3 DEF PurgeExtras, At
  <2>2. object' \in [Videos -> [Formats \cup Extras -> Int]]
    BY <1>3, <2>1, RemoveType DEF PurgeExtras
  <2>3. TaskTyped
    BY <1>3, <1>p, <2>1, GotoType DEF PurgeExtras
  <2> QED
    BY <1>3, <2>2, <2>3 DEF PurgeExtras, TypeInv, TypeOK, TasksHaveVideos
<1>4. CASE PurgeMark(t)
  <2>1. v \in Videos
    BY <1>0, <1>4 DEF PurgeMark, At
  <2>2. row' \in [Videos -> Row]
    <3> DEFINE b == row[v].purged \/ task[t].kind = "batch" \/ row[v].key = task[t].key
               r == [row[v] EXCEPT !.purged = b]
    <3>1. row[v] \in Row /\ b \in BOOLEAN
      BY <2>1 DEF TypeInv, TypeOK, Row
    <3>2. r \in Row
      BY <3>1, OtherColumns
    <3>3. row' = [row EXCEPT ![v] = r]
      BY <1>4 DEF PurgeMark
    <3> HIDE DEF r
    <3> QED BY <2>1, <3>2, <3>3, RowUpdateType
  <2>3. TaskTyped
    BY <1>4, EndType DEF PurgeMark
  <2> QED
    BY <1>4, <2>2, <2>3 DEF PurgeMark, TypeInv, TypeOK, TasksHaveVideos
<1> QED
  BY <1>1, <1>2, <1>3, <1>4 DEF PurgeStep

LEMMA RequestType ==
  ASSUME TypeInv, NEW v \in Videos, Request(v)
  PROVE  TypeInv'
<1>0. row[v] \in Row
  BY DEF TypeInv, TypeOK
<1>1. ASSUME NEW key \in Formats, NEW webcam \in BOOLEAN, NEW cut \in Int,
             Insert(v, key, webcam, cut)
      PROVE  TypeInv'
  <2> DEFINE r == [NoRow EXCEPT !.status = "uploading", !.key = key,
                                !.webcam = webcam, !.cut = cut]
  <2>1. r \in Row
    <3>1. NoRow \in Row /\ "uploading" \in Statuses
      BY DEF NoRow, Row, Statuses, Formats, Nil
    <3> QED
      BY <3>1, Zenon DEF NoRow, Row
  <2>2. row' = [row EXCEPT ![v] = r]
    BY <1>1 DEF Insert
  <2>3. row' \in [Videos -> Row]
    BY <2>1, <2>2, RowUpdateType
  <2> QED
    BY <1>1, <2>3 DEF Insert, TypeInv, TypeOK, TasksHaveVideos
<1>2. CASE Create(v) \/ Upload(v)
  <2>1. 0 \in Int /\ Nil \in Int /\ FALSE \in BOOLEAN
    BY DEF Nil
  <2> QED
    BY <1>1, <1>2, <2>1 DEF Create, Upload
<1>3. CASE Finalize(v)
  <2>0. PICK started \in SUBSET {t \in Tasks : task[t].pc = "idle"} :
          \E kind \in [started -> JobsOf(v)] : task' = [t \in Tasks |->
            IF t \in started THEN NewTask(kind[t], v, FirstPc(kind[t])) ELSE task[t]]
    BY <1>3 DEF Finalize
  <2>1. PICK kind \in [started -> JobsOf(v)] : task' = [t \in Tasks |->
            IF t \in started THEN NewTask(kind[t], v, FirstPc(kind[t])) ELSE task[t]]
    BY <2>0
  <2>2. \A j \in JobsOf(v) : j \in Kinds /\ FirstPc(j) \in Pcs
    BY DEF JobsOf, Kinds, FirstPc, Pcs, EditPcs
  <2>3. \A t \in started : /\ NewTask(kind[t], v, FirstPc(kind[t])) \in Task
                           /\ NewTask(kind[t], v, FirstPc(kind[t])).video = v
    BY <2>2, NewTaskType DEF TypeInv
  <2>4. /\ task' \in [Tasks -> Task]
        /\ \A u \in Tasks : task'[u].pc # "idle" => task'[u].video \in Videos
    BY <2>1, <2>3 DEF TypeInv, TypeOK, TasksHaveVideos
  <2>5. PICK queued \in {"none", "pending"} :
          row' = [row EXCEPT ![v] = [Finalized(row[v]) EXCEPT !.transcript = queued]]
    BY <1>3 DEF Finalize
  <2>6. Finalized(row[v]) \in Row
    BY <1>0, ClaimedType, FreedType DEF Finalized
  <2>7. [Finalized(row[v]) EXCEPT !.transcript = queued] \in Row
    BY <2>6 DEF Row
  <2>8. row' \in [Videos -> Row]
    BY <2>5, <2>7, RowUpdateType
  <2> QED
    BY <1>3, <2>4, <2>8 DEF Finalize, TypeInv, TypeOK, TasksHaveVideos
<1>4. ASSUME NEW k \in Formats \cup {"cam"}, ClientPut(v, k)
      PROVE  TypeInv'
  <2>1. k \in Formats \cup Extras /\ 0 \in Int
    BY DEF Extras
  <2>2. object' \in [Videos -> [Formats \cup Extras -> Int]]
    BY <1>4, <2>1, PutType DEF ClientPut
  <2> QED
    BY <1>4, <2>2 DEF ClientPut, TypeInv, TypeOK, TasksHaveVideos
<1>5. ASSUME NEW t \in Tasks, RequestEdit(t, v)
      PROVE  TypeInv'
  <2> DEFINE n == NewTask("edit", v, "claim")
  <2>1. n \in Task /\ n.video = v /\ row[v].cut + 1 \in Int
    BY <1>0, NewTaskType DEF TypeInv, Kinds, Pcs, Row
  <2>2. [n EXCEPT !.length = row[v].cut + 1] \in Task
        /\ [n EXCEPT !.length = row[v].cut + 1].video = v
    BY <2>1 DEF Task
  <2>3. task' = [task EXCEPT ![t] = [n EXCEPT !.length = row[v].cut + 1]]
    BY <1>5 DEF RequestEdit
  <2>4. /\ task' \in [Tasks -> Task]
        /\ \A u \in Tasks : task'[u].pc # "idle" => task'[u].video \in Videos
    BY <2>2, <2>3 DEF TypeInv, TypeOK, TasksHaveVideos
  <2>5. edits' \in [Videos -> Nat]
    BY <1>5 DEF RequestEdit, TypeInv, TypeOK
  <2> QED
    BY <1>5, <2>4, <2>5 DEF RequestEdit, TypeInv, TypeOK, TasksHaveVideos
<1>6. ASSUME NEW t \in Tasks, ResetThumbnail(t, v)
      PROVE  TypeInv'
  <2>1. "thumb" \in Kinds /\ "thumb" \in Pcs
    BY DEF Kinds, Pcs
  <2>2. /\ task' \in [Tasks -> Task]
        /\ \A u \in Tasks : task'[u].pc # "idle" => task'[u].video \in Videos
    BY <1>6, <2>1, StartType DEF ResetThumbnail
  <2> QED
    BY <1>6, <2>2 DEF ResetThumbnail, TypeInv, TypeOK, TasksHaveVideos
<1>7. ASSUME NEW t \in Tasks, NEW kind \in {"purge", "batch"}, MarkDeleted(t, v, kind)
      PROVE  TypeInv'
  <2>1. /\ task' \in [Tasks -> Task]
        /\ \A u \in Tasks : task'[u].pc # "idle" => task'[u].video \in Videos
    <3>1. StartPurge(t, v, kind, KnownExtras(v))
      BY <1>7 DEF MarkDeleted
    <3>2. KnownExtras(v) \in SUBSET Extras
      BY DEF KnownExtras
    <3> QED
      BY <3>1, <3>2, PurgeStartType
  <2>2. row' \in [Videos -> Row]
    BY <1>0, <1>7, StatusUpdateType DEF MarkDeleted
  <2>3. retired' \in [Videos -> BOOLEAN]
    BY <1>7 DEF MarkDeleted, TypeInv, TypeOK
  <2> QED
    BY <1>7, <2>1, <2>2, <2>3 DEF MarkDeleted, TypeInv, TypeOK, TasksHaveVideos
<1> QED
  BY <1>2, <1>3, <1>4, <1>5, <1>6, <1>7 DEF Request, Delete, BatchDelete

LEMMA WorkerType ==
  ASSUME TypeInv, NEW v \in Videos, Worker(v)
  PROVE  TypeInv'
<1>1. CASE AbandonStaleUpload(v)
  <2>1. row' \in [Videos -> Row]
    BY <1>1, StatusUpdateType DEF AbandonStaleUpload
  <2>2. retired' \in [Videos -> BOOLEAN]
    BY <1>1 DEF AbandonStaleUpload, TypeInv, TypeOK
  <2> QED
    BY <1>1, <2>1, <2>2 DEF AbandonStaleUpload, TypeInv, TypeOK, TasksHaveVideos
<1>2. ASSUME NEW t \in Tasks, PurgeOrphan(t, v)
      PROVE  TypeInv'
  <2>1. /\ task' \in [Tasks -> Task]
        /\ \A u \in Tasks : task'[u].pc # "idle" => task'[u].video \in Videos
    <3>1. StartPurge(t, v, "clean", KnownExtras(v) \ {"cam"})
      BY <1>2 DEF PurgeOrphan
    <3>2. KnownExtras(v) \ {"cam"} \in SUBSET Extras
      BY DEF KnownExtras
    <3> QED
      BY <3>1, <3>2, PurgeStartType
  <2> QED
    BY <1>2, <2>1 DEF PurgeOrphan, TypeInv, TypeOK, TasksHaveVideos
<1>3. ASSUME NEW t \in Tasks, NEW kind \in EncodeKinds, EncodeScan(t, v, kind)
      PROVE  TypeInv'
  <2>1. kind \in Kinds /\ "check" \in Pcs
    BY DEF EncodeKinds, Kinds, Pcs
  <2>2. /\ task' \in [Tasks -> Task]
        /\ \A u \in Tasks : task'[u].pc # "idle" => task'[u].video \in Videos
    BY <1>3, <2>1, StartType DEF EncodeScan
  <2> QED
    BY <1>3, <2>2 DEF EncodeScan, TypeInv, TypeOK, TasksHaveVideos
<1> QED
  BY <1>1, <1>2, <1>3 DEF Worker

LEMMA SweepType ==
  ASSUME TypeInv, ResetStuckProcessing
  PROVE  TypeInv'
<1>1. \A v \in Videos : row[v] \in Row /\ Freed(row[v], FALSE) \in Row
  BY FreedType DEF TypeInv, TypeOK
<1>2. row' \in [Videos -> Row]
  BY <1>1 DEF ResetStuckProcessing
<1> QED
  BY <1>2 DEF ResetStuckProcessing, TypeInv, TypeOK, TasksHaveVideos

LEMMA TickType ==
  ASSUME TypeInv, Tick
  PROVE  TypeInv'
<1>1. ASSUME NEW v \in Videos
      PROVE  [row[v] EXCEPT !.started = @ + 1] \in Row
  <2>1. row[v] \in Row
    BY DEF TypeInv, TypeOK
  <2>2. \A r \in Row, n \in Int : [r EXCEPT !.started = n] \in Row
    BY DEF Row
  <2>3. row[v].started \in Int /\ row[v].started + 1 \in Int
    BY <2>1 DEF Row
  <2> QED BY <2>1, <2>2, <2>3
<1>2. row' \in [Videos -> Row]
  BY <1>1 DEF Tick, TypeInv, TypeOK
<1>3. ASSUME NEW t \in Tasks
      PROVE  /\ [task[t] EXCEPT !.age = @ + 1] \in Task
             /\ [task[t] EXCEPT !.age = @ + 1].video = task[t].video
             /\ [task[t] EXCEPT !.age = @ + 1].pc = task[t].pc
  BY DEF TypeInv, TypeOK, Task
<1>4. /\ task' \in [Tasks -> Task]
      /\ \A u \in Tasks : task'[u].pc # "idle" => task'[u].video \in Videos
  BY <1>3 DEF Tick, TypeInv, TypeOK, TasksHaveVideos
<1> QED
  BY <1>2, <1>4 DEF Tick, TypeInv, TypeOK, TasksHaveVideos

LEMMA TypeInit == Init => TypeInv
BY IdleTaskType DEF Init, StoreInit, TypeInv, TypeOK, TasksHaveVideos, IdleTask,
   NoRow, Row, Statuses, Formats, Extras, Nil

LEMMA TypeStep == TypeInv /\ [Next]_vars => TypeInv'
<1> SUFFICES ASSUME TypeInv, [Next]_vars PROVE TypeInv'
  OBVIOUS
<1>1. ASSUME NEW v \in Videos, Request(v) \/ Worker(v) PROVE TypeInv'
  BY <1>1, RequestType, WorkerType
<1>2. ASSUME NEW t \in Tasks, TaskStep(t) PROVE TypeInv'
  BY <1>2, EditStepType, EncodeStepType, PurgeStepType DEF TaskStep
<1>3. ASSUME NEW t \in Tasks, Crash(t) PROVE TypeInv'
  BY <1>3, EndType DEF Crash, TypeInv, TypeOK, TasksHaveVideos
<1>4. CASE ResetStuckProcessing
  BY <1>4, SweepType
<1>5. CASE Tick
  BY <1>5, TickType
<1>6. CASE UNCHANGED vars
  BY <1>6 DEF vars, TypeInv, TypeOK, TasksHaveVideos
<1> QED
  BY <1>1, <1>2, <1>3, <1>4, <1>5, <1>6 DEF Next

\* Type correctness, for every value of the constants.
THEOREM TypeCorrect == Spec => []TypeOK
<1>1. Spec => []TypeInv
  BY TypeInit, TypeStep, PTL DEF Spec
<1>2. TypeInv => TypeOK
  BY DEF TypeInv
<1> QED
  BY <1>1, <1>2, PTL
-----------------------------------------------------------------------------
(***************************************************************************)
(* One editor at a time.                                                   *)
(***************************************************************************)

\* No goroutine becomes an editor, or asks to, and none changes its claim; at
\* most one goroutine moves.
NoNewEditor ==
  /\ \A u, w \in Tasks : u # w => task'[u] = task[u] \/ task'[w] = task[w]
  /\ \A u \in Tasks :
       /\ task'[u].pc \in EditPcs => task[u].pc \in EditPcs
       /\ task'[u].pc = "claim" => task[u].pc = "claim"
       /\ task'[u].pc \in EditPcs \cup {"claim"} =>
            /\ task'[u].video = task[u].video
            /\ task'[u].kind = task[u].kind
            /\ task'[u].age = task[u].age

LEMMA NoNewEditorBy ==
  ASSUME NEW t \in Tasks, \A u \in Tasks \ {t} : task'[u] = task[u],
         task'[t].pc \notin EditPcs \cup {"claim"}
  PROVE  NoNewEditor
BY DEF NoNewEditor

LEMMA NoNewEditorSame == task' = task => NoNewEditor
BY DEF NoNewEditor

\* A step that neither claims a row nor gives one back.
LEMMA QuietStep ==
  ASSUME EditInv, TypeInv', KeepsClaim, NoNewEditor
  PROVE  EditInv'
<1>1. \A u \in Tasks : task[u].pc \in EditPcs => task[u].video \in Videos
  BY DEF EditInv, TasksHaveVideos, EditPcs
<1>2. EditorOwnsRow'
  BY <1>1 DEF EditInv, EditorOwnsRow, KeepsClaim, NoNewEditor
<1>3. OneEditor'
  BY <1>1 DEF EditInv, OneEditor, Editing, NoNewEditor
<1>4. ClaimsAreEdits' /\ ReadyHasNoWebcam'
  BY DEF EditInv, ClaimsAreEdits, ReadyHasNoWebcam, KeepsClaim, NoNewEditor
<1> QED
  BY <1>2, <1>3, <1>4 DEF EditInv, TypeInv

\* The jobs that own no row, and purges, are quiet.
LEMMA EncodeStepQuiet ==
  ASSUME TypeInv, NEW t \in Tasks, EncodeStep(t)
  PROVE  KeepsClaim /\ NoNewEditor /\ (EncodeRow(t) \/ KeepsKey)
<1> DEFINE v == task[t].video
           pcs == {"fetch", "put", "repoint", "dropOld", "clear", "record",
                   "recordPermanent", "probeRow"}
<1>0. /\ task[t] \in Task
      /\ task[t].pc # "idle" => v \in Videos /\ row[v] \in Row
  BY DEF TypeInv, TypeOK, TasksHaveVideos
<1>1. ASSUME NEW pc \in pcs, Goto(t, pc), task[t].pc # "idle"
      PROVE  NoNewEditor
  <2>1. pc \in Pcs /\ pc \notin EditPcs \cup {"claim"}
    BY DEF Pcs, EditPcs
  <2> QED
    BY <1>1, <2>1, GotoType, NoNewEditorBy
<1>2. ASSUME End(t) PROVE NoNewEditor
  <2>1. "idle" \notin EditPcs \cup {"claim"}
    BY DEF EditPcs
  <2> QED
    BY <1>2, <2>1, EndType, NoNewEditorBy
<1>3. ASSUME NEW pc \in pcs, NEW k \in Formats, Take(t, pc, object[v][k]),
             task[t].pc # "idle"
      PROVE  NoNewEditor
  <2>1. pc \in Pcs /\ pc \notin EditPcs \cup {"claim"}
    BY DEF Pcs, EditPcs
  <2>2. object[v][k] \in Int
    BY <1>0, <1>3 DEF TypeInv, TypeOK
  <2> QED
    BY <1>3, <2>1, <2>2, TakeType, NoNewEditorBy
<1>4. CASE EncodeCheck(t)
  BY <1>1, <1>2, <1>4, KeepsClaimSame DEF EncodeCheck, At
<1>5. CASE EncodeFetch(t)
  <2>1. task[t].key \in Formats
    BY <1>0 DEF Task
  <2> QED
    BY <1>3, <1>5, <2>1, KeepsClaimSame DEF EncodeFetch, At
<1>6. CASE MarkNormalized(t)
  BY <1>0, <1>2, <1>6, NormalizedUpdate DEF MarkNormalized, At
<1>7. CASE EncodeUpload(t)
  BY <1>1, <1>7, KeepsClaimSame DEF EncodeUpload, At
<1>8. CASE EncodeRow(t)
  <2>1. v \in Videos /\ row[v] \in Row /\ task[t].pc # "idle"
    BY <1>0, <1>8 DEF EncodeRow, At
  <2>2. KeepsClaim
    <3>1. CASE row' = [row EXCEPT ![v] = Repointed(row[v])]
      BY <2>1, <3>1, RepointedType, RowUpdateType DEF KeepsClaim
    <3>2. CASE row' = [row EXCEPT ![v].normalized = TRUE]
      BY <2>1, <3>2, NormalizedUpdate
    <3> QED
      BY <1>8, <3>1, <3>2 DEF EncodeRow
  <2>3. NoNewEditor
    BY <1>1, <1>8, <2>1 DEF EncodeRow
  <2> QED
    BY <1>8, <2>2, <2>3
<1>9. CASE DropWebM(t)
  BY <1>1, <1>9, KeepsClaimSame DEF DropWebM, At
<1>10. CASE ClearTranscodeFailure(t)
  <2>1. v \in Videos
    BY <1>0, <1>10 DEF ClearTranscodeFailure, At
  <2>2. CASE row' = [row EXCEPT ![v].attempts = 0]
    BY <1>2, <1>10, <2>1, <2>2, AttemptsUpdate DEF ClearTranscodeFailure
  <2>3. CASE row' = row
    BY <1>2, <1>10, <2>3, KeepsClaimSame DEF ClearTranscodeFailure
  <2> QED
    BY <1>10, <2>2, <2>3 DEF ClearTranscodeFailure
<1>11. CASE EncodeFail(t)
  BY <1>1, <1>11, KeepsClaimSame DEF EncodeFail, At
<1>12. CASE RecordTranscodeFailure(t)
  <2>1. v \in Videos /\ row[v] \in Row
    BY <1>0, <1>12 DEF RecordTranscodeFailure, At
  <2>2. MaxTranscodeAttempts \in Nat
    OBVIOUS
  <2>3. row[v].attempts + 1 \in Nat
    <3>1. row[v] \in Row
      BY <2>1
    <3> QED
      BY <3>1 DEF Row
  <2>4. KeepsClaim /\ KeepsKey
    <3>1. CASE row' = [row EXCEPT ![v].attempts = MaxTranscodeAttempts]
      BY <2>1, <2>2, <3>1, AttemptsUpdate
    <3>2. CASE row' = [row EXCEPT ![v].attempts = row[v].attempts + 1]
      BY <2>1, <2>3, <3>2, AttemptsUpdate
    <3>3. CASE row' = row
      BY <3>3, KeepsClaimSame
    <3> QED
      BY <1>12, <2>1, <3>1, <3>2, <3>3 DEF RecordTranscodeFailure, TypeInv, TypeOK
  <2> QED
    BY <1>2, <1>12, <2>4 DEF RecordTranscodeFailure
<1>13. CASE ProbeFile(t)
  <2>1. task[t].key \in Formats
    BY <1>0 DEF Task
  <2> QED
    BY <1>2, <1>3, <1>13, <2>1, KeepsClaimSame DEF ProbeFile, At
<1>14. CASE ProbeRow(t)
  <2>1. v \in Videos /\ task[t].cut \in Int
    BY <1>0, <1>14 DEF ProbeRow, At, Task
  <2>2. CASE row' = [row EXCEPT ![v].cut = task[t].cut]
    BY <1>2, <1>14, <2>1, <2>2, CutUpdate DEF ProbeRow
  <2>3. CASE row' = row
    BY <1>2, <1>14, <2>3, KeepsClaimSame DEF ProbeRow
  <2> QED
    BY <1>14, <2>2, <2>3 DEF ProbeRow
<1> QED
  BY <1>4, <1>5, <1>6, <1>7, <1>8, <1>9, <1>10, <1>11, <1>12, <1>13, <1>14
     DEF EncodeStep

LEMMA PurgeStepQuiet ==
  ASSUME TypeInv, NEW t \in Tasks, PurgeStep(t)
  PROVE  KeepsClaim /\ KeepsKey /\ NoNewEditor
<1> DEFINE v == task[t].video
<1>0. task[t].pc # "idle" => v \in Videos
  BY DEF TypeInv, TasksHaveVideos
<1>1. ASSUME NEW pc \in {"purgeExtras", "purgeMark"}, Goto(t, pc), task[t].pc # "idle"
      PROVE  NoNewEditor
  <2>1. pc \in Pcs /\ pc \notin EditPcs \cup {"claim"}
    BY DEF Pcs, EditPcs
  <2> QED
    BY <1>1, <2>1, GotoType, NoNewEditorBy
<1>2. ASSUME End(t) PROVE NoNewEditor
  <2>1. "idle" \notin EditPcs \cup {"claim"}
    BY DEF EditPcs
  <2> QED
    BY <1>2, <2>1, EndType, NoNewEditorBy
<1>3. CASE PurgeFile(t) \/ PurgeFail(t) \/ PurgeExtras(t)
  BY <1>1, <1>2, <1>3, KeepsClaimSame DEF PurgeFile, PurgeFail, PurgeExtras, At
<1>4. CASE PurgeMark(t)
  <2>1. v \in Videos /\ row[v] \in Row
    BY <1>0, <1>4 DEF PurgeMark, At, TypeInv, TypeOK
  <2> DEFINE b == row[v].purged \/ task[t].kind = "batch" \/ row[v].key = task[t].key
  <2>2. row' = [row EXCEPT ![v].purged = b]
    BY <1>4 DEF PurgeMark, TypeInv, TypeOK
  <2>3. b \in BOOLEAN
    BY <2>1 DEF Row
  <2> HIDE DEF b
  <2> QED
    BY <1>2, <1>4, <2>1, <2>2, <2>3, PurgedUpdate DEF PurgeMark
<1> QED
  BY <1>3, <1>4 DEF PurgeStep

\* What an editor does between its claim and its publication is quiet too.
LEMMA EditStepQuiet ==
  ASSUME TypeInv, NEW t \in Tasks,
         \/ RefuseEdit(t) \/ EditDownload(t) \/ EditUpload(t) \/ EditFail(t)
         \/ DropWebcam(t) \/ PublishFail(t) \/ ThumbnailUpload(t)
         \/ ThumbnailRow(t) \/ ThumbnailFail(t) \/ EditEnqueue(t)
  PROVE  KeepsClaim /\ KeepsKey /\ NoNewEditor
<1> DEFINE v == task[t].video
<1>0. /\ task[t] \in Task
      /\ task[t].pc # "idle" => v \in Videos /\ row[v] \in Row
  BY DEF TypeInv, TypeOK, TasksHaveVideos
<1>1. ASSUME End(t) PROVE NoNewEditor
  <2>1. "idle" \notin EditPcs \cup {"claim"}
    BY DEF EditPcs
  <2> QED
    BY <1>1, <2>1, EndType, NoNewEditorBy
<1>2. ASSUME NEW pc \in EditPcs, Goto(t, pc), task[t].pc \in EditPcs
      PROVE  NoNewEditor
  <2>1. pc \in Pcs /\ pc # "claim" /\ task[t].pc # "idle"
    BY <1>2 DEF Pcs, EditPcs
  <2> QED
    BY <1>2, <2>1, GotoType DEF NoNewEditor
<1>3. ASSUME NEW pc \in {"thumbRow", "enqueue"}, Goto(t, pc), task[t].pc # "idle"
      PROVE  NoNewEditor
  <2>1. pc \in Pcs /\ pc \notin EditPcs \cup {"claim"}
    BY DEF Pcs, EditPcs
  <2> QED
    BY <1>3, <2>1, GotoType, NoNewEditorBy
<1>p. {"download", "upload", "dropCam", "publish", "fallback"} = EditPcs
  BY DEF EditPcs
<1>4. CASE RefuseEdit(t) \/ PublishFail(t)
  BY <1>1, <1>4, KeepsClaimSame DEF RefuseEdit, PublishFail
<1>5. CASE EditDownload(t)
  <2>1. task[t].key \in Formats /\ v \in Videos /\ task[t].pc = "download"
    BY <1>0, <1>5 DEF EditDownload, At, Task
  <2>2. object[v][task[t].key] \in Int
    BY <2>1 DEF TypeInv, TypeOK
  <2>3. Take(t, "upload", object[v][task[t].key])
    BY <1>5 DEF EditDownload
  <2>4. "upload" \in Pcs /\ "upload" # "claim" /\ "download" \in EditPcs
    BY DEF Pcs, EditPcs
  <2>5. NoNewEditor
    BY <2>1, <2>2, <2>3, <2>4, TakeType DEF NoNewEditor
  <2> QED
    BY <1>5, <2>5, KeepsClaimSame DEF EditDownload
<1>6. CASE EditUpload(t) \/ EditFail(t) \/ DropWebcam(t)
  BY <1>2, <1>6, <1>p, KeepsClaimSame DEF EditUpload, EditFail, DropWebcam, At
<1>7. CASE ThumbnailUpload(t)
  BY <1>3, <1>7, KeepsClaimSame DEF ThumbnailUpload, At
<1>8. ASSUME AfterThumbnail(t), task[t].pc # "idle" PROVE NoNewEditor
  BY <1>1, <1>3, <1>8 DEF AfterThumbnail
<1>9. CASE ThumbnailRow(t)
  BY <1>0, <1>8, <1>9, ThumbUpdate DEF ThumbnailRow, At
<1>10. CASE ThumbnailFail(t)
  BY <1>8, <1>10, KeepsClaimSame DEF ThumbnailFail, At
<1>11. CASE EditEnqueue(t)
  <2>1. v \in Videos
    BY <1>0, <1>11 DEF EditEnqueue, At
  <2>2. CASE EnqueueTranscription(v)
    BY <1>1, <1>11, <2>1, <2>2, TranscriptUpdate DEF EditEnqueue
  <2>3. CASE row' = row
    BY <1>1, <1>11, <2>3, KeepsClaimSame DEF EditEnqueue
  <2> QED
    BY <1>11, <2>2, <2>3 DEF EditEnqueue
<1> QED
  BY <1>4, <1>5, <1>6, <1>7, <1>9, <1>10, <1>11

\* The steps that claim a row or give it back.  The row of v changes, and only
\* the goroutine t starts or stops being an editor.
LEMMA ClaimEditStep ==
  ASSUME EditInv, TypeInv', NEW t \in Tasks, ClaimEdit(t)
  PROVE  EditInv'
<1> DEFINE v == task[t].video
<1>1. /\ v \in Videos /\ row[v] \in Row /\ task[t].pc = "claim"
      /\ row[v].status = "ready" /\ ~row[v].webcam
  BY DEF EditInv, TypeOK, TasksHaveVideos, ClaimEdit, At, ReadyHasNoWebcam
<1>2. row' = [row EXCEPT ![v] = Claimed(row[v])]
  BY DEF ClaimEdit, ClaimRow
<1>3. /\ \A w \in Videos \ {v} : row'[w] = row[w]
      /\ row'[v].status = "processing" /\ row'[v].started = 0
      /\ row'[v].webcam = row[v].webcam
  BY <1>1, <1>2, ClaimedType, RowUpdateType DEF EditInv, TypeInv
<1>4. /\ \A u \in Tasks \ {t} : task'[u] = task[u]
      /\ task'[t].pc = "download" /\ task'[t].video = v
      /\ task'[t].kind = task[t].kind /\ task'[t].age = task[t].age
  <2>1. "download" \in Pcs
    BY DEF Pcs, EditPcs
  <2> QED
    BY <1>1, <2>1, GotoType DEF ClaimEdit, EditInv, TypeInv
<1>5. \A u \in Tasks : task[u].pc \in EditPcs => task[u].video # v
  BY <1>1 DEF EditInv, EditorOwnsRow
<1>6. /\ task[t].kind = "edit" /\ task[t].age = 0
      /\ "claim" \notin EditPcs /\ "download" # "claim" /\ 0 \in 0 .. JobTimeout
  BY <1>1 DEF EditInv, ClaimsAreEdits, EditPcs
<1>7. EditorOwnsRow'
  <2> SUFFICES ASSUME NEW u \in Tasks, task'[u].pc \in EditPcs
               PROVE  LET r == row'[task'[u].video] IN
                        /\ r.status \in {"processing", "deleted"}
                        /\ r.status = "processing" => r.started = task'[u].age
                        /\ task'[u].age \in 0 .. JobTimeout
                        /\ r.webcam => task'[u].kind = "composite"
    BY DEF EditorOwnsRow
  <2>1. CASE u = t
    BY <1>1, <1>3, <1>4, <1>6, <2>1
  <2>2. CASE u # t
    <3>1. task'[u] = task[u] /\ task[u].video \in Videos \ {v}
      BY <1>4, <1>5, <2>2 DEF EditInv, TasksHaveVideos, EditPcs
    <3> QED
      BY <1>3, <3>1 DEF EditInv, EditorOwnsRow
  <2> QED
    BY <2>1, <2>2
<1>8. OneEditor'
  BY <1>4, <1>5 DEF EditInv, OneEditor, Editing
<1>9. ClaimsAreEdits' /\ ReadyHasNoWebcam'
  BY <1>1, <1>3, <1>4, <1>6 DEF EditInv, ClaimsAreEdits, ReadyHasNoWebcam
<1> QED
  BY <1>7, <1>8, <1>9 DEF EditInv, TypeInv

\* An editor that gives its row back is its only editor; nobody is left.
LEMMA ReleaseStep ==
  ASSUME EditInv, TypeInv', NEW t \in Tasks, task[t].pc \in EditPcs,
         task'[t].pc \notin EditPcs \cup {"claim"},
         \A u \in Tasks \ {t} : task'[u] = task[u],
         \A w \in Videos \ {task[t].video} : row'[w] = row[w],
         row'[task[t].video].status = "ready", ~row'[task[t].video].webcam
  PROVE  EditInv'
<1> DEFINE v == task[t].video
<1>1. v \in Videos
  BY DEF EditInv, TasksHaveVideos, EditPcs
<1>2. \A u \in Tasks \ {t} : task[u].pc \in EditPcs => task[u].video \in Videos \ {v}
  <2>1. \A u \in Tasks \ {t} : task[u].pc \in EditPcs => task[u].video # v
    BY <1>1 DEF EditInv, OneEditor, Editing
  <2> QED
    BY <2>1 DEF EditInv, TasksHaveVideos, EditPcs
<1>3. EditorOwnsRow'
  BY <1>2 DEF EditInv, EditorOwnsRow
<1>4. OneEditor'
  BY DEF EditInv, OneEditor, Editing
<1>5. ClaimsAreEdits' /\ ReadyHasNoWebcam'
  BY <1>1 DEF EditInv, ClaimsAreEdits, ReadyHasNoWebcam
<1> QED
  BY <1>3, <1>4, <1>5 DEF EditInv, TypeInv

\* Only a composite runs with a webcam key, and it clears the key.
LEMMA EditorClearsWebcam ==
  ASSUME EditInv, NEW t \in Tasks, task[t].pc \in EditPcs
  PROVE  WebcamAfter(t) = FALSE
<1>1. row[task[t].video].webcam \in BOOLEAN
  BY DEF EditInv, TypeOK, TasksHaveVideos, EditPcs, Row
<1> QED
  BY <1>1 DEF EditInv, EditorOwnsRow, WebcamAfter

\* What Publish leaves of the row.
LEMMA PublishedType ==
  ASSUME NEW t \in Tasks, task[t] \in Task, row[task[t].video] \in Row
  PROVE  LET r == [Freed(row[task[t].video], FALSE) EXCEPT !.cut = CutAfter(t)]
         IN  r \in Row /\ r.status = "ready" /\ r.webcam = FALSE
                       /\ r.key = row[task[t].video].key
<1> DEFINE f == Freed(row[task[t].video], FALSE)
<1>1. CutAfter(t) \in Int
  <2>1. row[task[t].video].cut \in Int /\ task[t].length \in Int
    BY DEF Row, Task
  <2> QED
    BY <2>1 DEF CutAfter
<1>2. f \in Row /\ f.status = "ready" /\ f.webcam = FALSE /\ f.key = row[task[t].video].key
  BY FreedType
<1> HIDE DEF f
<1>3. /\ [f EXCEPT !.cut = CutAfter(t)] \in Row
      /\ [f EXCEPT !.cut = CutAfter(t)].status = "ready"
      /\ [f EXCEPT !.cut = CutAfter(t)].webcam = FALSE
      /\ [f EXCEPT !.cut = CutAfter(t)].key = row[task[t].video].key
  BY <1>1, <1>2, CutColumn
<1> QED
  BY <1>3 DEF f

LEMMA PublishStep ==
  ASSUME EditInv, TypeInv', NEW t \in Tasks, Publish(t)
  PROVE  EditInv'
<1> DEFINE v == task[t].video
           r == [Freed(row[v], FALSE) EXCEPT !.cut = CutAfter(t)]
<1>1. /\ task[t].pc \in EditPcs /\ v \in Videos /\ row[v] \in Row
      /\ task[t] \in Task
  BY DEF Publish, At, EditInv, TypeOK, TasksHaveVideos, EditPcs
<1>2. row' = [row EXCEPT ![v] = r]
  BY <1>1, EditorClearsWebcam DEF Publish
<1>3. r \in Row /\ r.status = "ready" /\ r.webcam = FALSE
  BY <1>1, PublishedType
<1> HIDE DEF r
<1>4. /\ \A w \in Videos \ {v} : row'[w] = row[w]
      /\ row'[v].status = "ready" /\ ~row'[v].webcam
  BY <1>1, <1>2, <1>3, RowUpdateType DEF EditInv, TypeInv
<1>5. /\ \A u \in Tasks \ {t} : task'[u] = task[u]
      /\ task'[t].pc \notin EditPcs \cup {"claim"}
  BY <1>1, ThumbnailingType DEF Publish, EditInv, TypeOK, EditPcs
<1> QED
  BY <1>1, <1>4, <1>5, ReleaseStep

LEMMA FallbackStep ==
  ASSUME EditInv, TypeInv', NEW t \in Tasks, Fallback(t)
  PROVE  EditInv'
<1> DEFINE v == task[t].video
<1>1. task[t].pc \in EditPcs /\ v \in Videos /\ row[v] \in Row
  BY DEF Fallback, At, EditInv, TypeOK, TasksHaveVideos, EditPcs
<1>2. /\ \A u \in Tasks \ {t} : task'[u] = task[u]
      /\ task'[t].pc \notin EditPcs \cup {"claim"}
  BY EndType DEF Fallback, EditInv, TypeInv, EditPcs
<1>3. CASE row' = [row EXCEPT ![v] = Freed(row[v], WebcamAfter(t))]
  <2>1. row' = [row EXCEPT ![v] = Freed(row[v], FALSE)]
    BY <1>1, <1>3, EditorClearsWebcam
  <2>2. /\ \A w \in Videos \ {v} : row'[w] = row[w]
        /\ row'[v].status = "ready" /\ ~row'[v].webcam
    BY <1>1, <2>1, FreedType, RowUpdateType DEF EditInv, TypeInv
  <2> QED
    BY <1>1, <1>2, <2>2, ReleaseStep
<1>4. CASE row' = row
  <2>1. NoNewEditor
    BY <1>2, NoNewEditorBy
  <2> QED
    BY <1>4, <2>1, KeepsClaimSame, QuietStep DEF EditInv, TypeInv
<1> QED
  BY <1>3, <1>4 DEF Fallback

\* A row that nobody edits changes in whatever way: no editor is concerned.
LEMMA UnclaimedRowStep ==
  ASSUME EditInv, TypeInv', NEW v \in Videos, NoNewEditor,
         \A w \in Videos \ {v} : row'[w] = row[w],
         \/ row[v].status \notin {"processing", "deleted"}
         \/ row'[v].status = "deleted" /\ row'[v].webcam = row[v].webcam,
         row'[v].status = "ready" => ~row'[v].webcam
  PROVE  EditInv'
<1>1. ASSUME NEW u \in Tasks, task'[u].pc \in EditPcs
      PROVE  /\ task[u].pc \in EditPcs /\ task[u].video \in Videos
             /\ task'[u].video = task[u].video
             /\ task'[u].kind = task[u].kind
             /\ task'[u].age = task[u].age
  BY <1>1 DEF NoNewEditor, EditInv, TasksHaveVideos, EditPcs
<1>2. EditorOwnsRow'
  <2> SUFFICES ASSUME NEW u \in Tasks, task'[u].pc \in EditPcs
               PROVE  LET r == row'[task[u].video] IN
                        /\ r.status \in {"processing", "deleted"}
                        /\ r.status = "processing" => r.started = task[u].age
                        /\ task[u].age \in 0 .. JobTimeout
                        /\ r.webcam => task[u].kind = "composite"
    BY <1>1 DEF EditorOwnsRow
  <2>1. CASE task[u].video = v
    BY <1>1, <2>1 DEF EditInv, EditorOwnsRow
  <2>2. CASE task[u].video # v
    BY <1>1, <2>2 DEF EditInv, EditorOwnsRow
  <2> QED
    BY <2>1, <2>2
<1>3. OneEditor'
  BY <1>1 DEF EditInv, OneEditor, Editing
<1>4. ClaimsAreEdits' /\ ReadyHasNoWebcam'
  BY DEF EditInv, ClaimsAreEdits, ReadyHasNoWebcam, NoNewEditor
<1> QED
  BY <1>2, <1>3, <1>4 DEF EditInv, TypeInv

\* What Finalize leaves of the row.
LEMMA FinalizedRow ==
  ASSUME EditInv, NEW v \in Videos, Finalize(v)
  PROVE  /\ \A w \in Videos \ {v} : row'[w] = row[w]
         /\ row[v].webcam => row'[v].status = "processing" /\ row'[v].started = 0
         /\ ~row[v].webcam => row'[v].status = "ready" /\ row'[v].webcam = FALSE
         /\ row'[v].key = row[v].key
<1>0. row[v] \in Row
  BY DEF EditInv, TypeOK
<1>1. PICK queued \in {"none", "pending"} :
        row' = [row EXCEPT ![v] = [Finalized(row[v]) EXCEPT !.transcript = queued]]
  BY DEF Finalize
<1> DEFINE f == Finalized(row[v])
<1>2. /\ f \in Row /\ f.key = row[v].key
      /\ row[v].webcam => f.status = "processing" /\ f.started = 0
      /\ ~row[v].webcam => f.status = "ready" /\ f.webcam = FALSE
  BY <1>0, ClaimedType, FreedType DEF Finalized
<1> HIDE DEF f
<1>3. /\ row' = [row EXCEPT ![v] = [f EXCEPT !.transcript = queued]]
      /\ [f EXCEPT !.transcript = queued].status = f.status
      /\ [f EXCEPT !.transcript = queued].started = f.started
      /\ [f EXCEPT !.transcript = queued].webcam = f.webcam
      /\ [f EXCEPT !.transcript = queued].key = f.key
  BY <1>1, <1>2 DEF f, Row
<1> QED
  BY <1>2, <1>3 DEF EditInv, TypeOK

LEMMA FinalizeStep ==
  ASSUME EditInv, TypeInv', NEW v \in Videos, Finalize(v)
  PROVE  EditInv'
<1>0. row[v] \in Row /\ row[v].status = "uploading"
  BY DEF Finalize, EditInv, TypeOK
<1>1. PICK started \in SUBSET {t \in Tasks : task[t].pc = "idle"} :
        \E kind \in [started -> JobsOf(v)] :
          /\ \A t, u \in started : kind[t] = kind[u] => t = u
          /\ task' = [t \in Tasks |->
               IF t \in started THEN NewTask(kind[t], v, FirstPc(kind[t])) ELSE task[t]]
  BY DEF Finalize
<1>2. PICK kind \in [started -> JobsOf(v)] :
        /\ \A t, u \in started : kind[t] = kind[u] => t = u
        /\ task' = [t \in Tasks |->
             IF t \in started THEN NewTask(kind[t], v, FirstPc(kind[t])) ELSE task[t]]
  BY <1>1
<1>3. \A j \in JobsOf(v) :
        /\ j \in Kinds /\ FirstPc(j) \in Pcs /\ FirstPc(j) # "claim"
        /\ FirstPc(j) \in EditPcs => j = "composite" /\ row[v].webcam
  BY DEF JobsOf, Kinds, FirstPc, Pcs, EditPcs
<1>4. \A t \in started :
        /\ task'[t].video = v /\ task'[t].age = 0 /\ task'[t].kind = kind[t]
        /\ task'[t].pc = FirstPc(kind[t])
  BY <1>2, <1>3, NewTaskType DEF EditInv
<1>5. \A t \in Tasks \ started : task'[t] = task[t]
  BY <1>2
<1>9. /\ \A w \in Videos \ {v} : row'[w] = row[w]
      /\ row[v].webcam => row'[v].status = "processing" /\ row'[v].started = 0
      /\ ~row[v].webcam => row'[v].status = "ready" /\ row'[v].webcam = FALSE
  BY FinalizedRow
<1>10. \A u \in Tasks : task[u].pc \in EditPcs => task[u].video \in Videos \ {v}
  <2>1. \A u \in Tasks : task[u].pc \in EditPcs => task[u].video # v
    BY <1>0 DEF EditInv, EditorOwnsRow
  <2> QED
    BY <2>1 DEF EditInv, TasksHaveVideos, EditPcs
<1>11. ASSUME NEW u \in Tasks, task'[u].pc \in EditPcs
       PROVE  \/ /\ u \in started /\ kind[u] = "composite" /\ row[v].webcam
                 /\ task'[u].video = v /\ task'[u].kind = "composite"
                 /\ task'[u].age = 0
              \/ /\ u \notin started /\ task'[u] = task[u]
                 /\ task[u].video \in Videos \ {v}
  BY <1>3, <1>4, <1>5, <1>10, <1>11
<1>12. EditorOwnsRow'
  <2> SUFFICES ASSUME NEW u \in Tasks, task'[u].pc \in EditPcs
               PROVE  LET r == row'[task'[u].video] IN
                        /\ r.status \in {"processing", "deleted"}
                        /\ r.status = "processing" => r.started = task'[u].age
                        /\ task'[u].age \in 0 .. JobTimeout
                        /\ r.webcam => task'[u].kind = "composite"
    BY DEF EditorOwnsRow
  <2>1. CASE u \in started
    <3>1. 0 \in 0 .. JobTimeout
      OBVIOUS
    <3> QED
      BY <1>9, <1>11, <2>1, <3>1
  <2>2. CASE u \notin started
    BY <1>9, <1>11, <2>2 DEF EditInv, EditorOwnsRow
  <2> QED
    BY <2>1, <2>2
<1>13. OneEditor'
  <2> SUFFICES ASSUME NEW w \in Videos, NEW t \in Tasks, NEW u \in Tasks,
                      Editing(t, w)', Editing(u, w)'
               PROVE  t = u
    BY DEF OneEditor
  <2>1. CASE w = v
    BY <1>2, <1>11, <2>1 DEF Editing
  <2>2. CASE w # v
    <3>1. Editing(t, w) /\ Editing(u, w)
      BY <1>11, <2>2 DEF Editing
    <3> QED
      BY <3>1 DEF EditInv, OneEditor
  <2> QED
    BY <2>1, <2>2
<1>14. ClaimsAreEdits' /\ ReadyHasNoWebcam'
  <2>1. \A u \in Tasks : task'[u].pc = "claim" => task'[u] = task[u]
    BY <1>3, <1>4, <1>5
  <2> QED
    BY <1>9, <2>1 DEF EditInv, ClaimsAreEdits, ReadyHasNoWebcam
<1> QED
  BY <1>12, <1>13, <1>14 DEF EditInv, TypeInv

LEMMA RequestStep ==
  ASSUME EditInv, TypeInv', NEW v \in Videos, Request(v)
  PROVE  EditInv'
<1>t. TypeInv
  BY DEF EditInv, TypeInv
<1>1. ASSUME NEW key \in Formats, NEW webcam \in BOOLEAN, NEW cut \in Int,
             Insert(v, key, webcam, cut)
      PROVE  EditInv'
  <2> DEFINE r == [NoRow EXCEPT !.status = "uploading", !.key = key,
                                !.webcam = webcam, !.cut = cut]
  <2>1. r.status = "uploading"
    BY Zenon DEF NoRow
  <2>2. row' = [row EXCEPT ![v] = r] /\ row[v].status = "none"
    BY <1>1 DEF Insert
  <2> HIDE DEF r
  <2>3. /\ \A w \in Videos \ {v} : row'[w] = row[w]
        /\ row'[v].status = "uploading"
    BY <2>1, <2>2 DEF EditInv, TypeOK
  <2>4. NoNewEditor
    BY <1>1, NoNewEditorSame DEF Insert
  <2> QED
    BY <2>2, <2>3, <2>4, UnclaimedRowStep
<1>2. CASE Create(v) \/ Upload(v)
  <2>1. 0 \in Int /\ Nil \in Int /\ FALSE \in BOOLEAN
    BY DEF Nil
  <2> QED
    BY <1>1, <1>2, <2>1 DEF Create, Upload
<1>3. CASE Finalize(v)
  BY <1>3, FinalizeStep
<1>4. ASSUME NEW k \in Formats \cup {"cam"}, ClientPut(v, k)
      PROVE  EditInv'
  <2>1. KeepsClaim /\ NoNewEditor
    BY <1>t, <1>4, KeepsClaimSame, NoNewEditorSame DEF ClientPut
  <2> QED
    BY <2>1, QuietStep
<1>5. ASSUME NEW t \in Tasks, RequestEdit(t, v)
      PROVE  EditInv'
  <2> DEFINE n == NewTask("edit", v, "claim")
  <2>1. /\ n \in Task /\ n.video = v /\ n.pc = "claim" /\ n.kind = "edit" /\ n.age = 0
    BY <1>t, NewTaskType DEF TypeInv, Kinds, Pcs
  <2>2. /\ [n EXCEPT !.length = row[v].cut + 1].pc = "claim"
        /\ [n EXCEPT !.length = row[v].cut + 1].kind = "edit"
        /\ [n EXCEPT !.length = row[v].cut + 1].age = 0
    BY <2>1 DEF Task
  <2>3. task' = [task EXCEPT ![t] = [n EXCEPT !.length = row[v].cut + 1]]
    BY <1>5 DEF RequestEdit
  <2> HIDE DEF n
  <2>4. /\ \A u \in Tasks \ {t} : task'[u] = task[u]
        /\ task'[t].pc = "claim" /\ task'[t].kind = "edit" /\ task'[t].age = 0
    BY <2>2, <2>3 DEF EditInv, TypeOK
  <2>5. row' = row /\ "claim" \notin EditPcs
    BY <1>5 DEF RequestEdit, EditPcs
  <2>6. EditorOwnsRow' /\ OneEditor'
    BY <2>4, <2>5 DEF EditInv, EditorOwnsRow, OneEditor, Editing
  <2>7. ClaimsAreEdits' /\ ReadyHasNoWebcam'
    BY <2>4, <2>5 DEF EditInv, ClaimsAreEdits, ReadyHasNoWebcam
  <2> QED
    BY <2>6, <2>7 DEF EditInv, TypeInv
<1>6. ASSUME NEW t \in Tasks, ResetThumbnail(t, v)
      PROVE  EditInv'
  <2>1. "thumb" \in Kinds /\ "thumb" \in Pcs /\ "thumb" \notin EditPcs \cup {"claim"}
    BY DEF Kinds, Pcs, EditPcs
  <2>2. /\ \A u \in Tasks \ {t} : task'[u] = task[u]
        /\ task'[t] = NewTask("thumb", v, "thumb")
    BY <1>t, <1>6, <2>1, StartType DEF ResetThumbnail
  <2>3. task'[t].pc = "thumb"
    BY <1>t, <2>1, <2>2, NewTaskType DEF TypeInv
  <2>4. NoNewEditor
    BY <2>1, <2>2, <2>3, NoNewEditorBy
  <2>5. KeepsClaim
    BY <1>t, <1>6, KeepsClaimSame DEF ResetThumbnail
  <2> QED
    BY <2>4, <2>5, QuietStep
<1>7. ASSUME NEW t \in Tasks, NEW kind \in {"purge", "batch"}, MarkDeleted(t, v, kind)
      PROVE  EditInv'
  <2>1. NoNewEditor
    <3>1. StartPurge(t, v, kind, KnownExtras(v)) /\ KnownExtras(v) \in SUBSET Extras
      BY <1>7 DEF MarkDeleted, KnownExtras
    <3>2. "purgeFile" \notin EditPcs \cup {"claim"}
      BY DEF EditPcs
    <3> QED
      BY <1>t, <3>1, <3>2, PurgeStartType, NoNewEditorBy
  <2>2. /\ \A w \in Videos \ {v} : row'[w] = row[w]
        /\ row'[v].status = "deleted" /\ row'[v].webcam = row[v].webcam
    BY <1>t, <1>7, StatusUpdateType DEF MarkDeleted
  <2> QED
    BY <2>1, <2>2, UnclaimedRowStep
<1> QED
  BY <1>2, <1>3, <1>4, <1>5, <1>6, <1>7 DEF Request, Delete, BatchDelete

LEMMA WorkerStartQuiet ==
  ASSUME TypeInv, NEW v \in Videos,
         \E t \in Tasks : \/ PurgeOrphan(t, v)
                          \/ \E kind \in EncodeKinds : EncodeScan(t, v, kind)
  PROVE  KeepsClaim /\ KeepsKey /\ NoNewEditor
<1>1. ASSUME NEW t \in Tasks, PurgeOrphan(t, v)
      PROVE  KeepsClaim /\ KeepsKey /\ NoNewEditor
  <2>1. NoNewEditor
    <3>1. /\ StartPurge(t, v, "clean", KnownExtras(v) \ {"cam"})
          /\ KnownExtras(v) \ {"cam"} \in SUBSET Extras
      BY <1>1 DEF PurgeOrphan, KnownExtras
    <3>2. "purgeFile" \notin EditPcs \cup {"claim"}
      BY DEF EditPcs
    <3> QED
      BY <3>1, <3>2, PurgeStartType, NoNewEditorBy
  <2>2. KeepsClaim /\ KeepsKey
    BY <1>1, KeepsClaimSame DEF PurgeOrphan
  <2> QED
    BY <2>1, <2>2
<1>2. ASSUME NEW t \in Tasks, NEW kind \in EncodeKinds, EncodeScan(t, v, kind)
      PROVE  KeepsClaim /\ KeepsKey /\ NoNewEditor
  <2>1. /\ kind \in Kinds /\ "check" \in Pcs
        /\ "check" \notin EditPcs \cup {"claim"}
    BY DEF EncodeKinds, Kinds, Pcs, EditPcs
  <2>2. /\ \A u \in Tasks \ {t} : task'[u] = task[u]
        /\ task'[t] = NewTask(kind, v, "check")
    BY <1>2, <2>1, StartType DEF EncodeScan
  <2>3. task'[t].pc = "check"
    BY <2>1, <2>2, NewTaskType DEF TypeInv
  <2>4. NoNewEditor
    BY <2>1, <2>2, <2>3, NoNewEditorBy
  <2>5. KeepsClaim /\ KeepsKey
    BY <1>2, KeepsClaimSame DEF EncodeScan
  <2> QED
    BY <2>4, <2>5
<1> QED
  BY <1>1, <1>2

LEMMA WorkerStep ==
  ASSUME EditInv, TypeInv', NEW v \in Videos, Worker(v)
  PROVE  EditInv'
<1>t. TypeInv
  BY DEF EditInv, TypeInv
<1>1. CASE AbandonStaleUpload(v)
  <2>1. NoNewEditor
    BY <1>1, NoNewEditorSame DEF AbandonStaleUpload
  <2>2. /\ \A w \in Videos \ {v} : row'[w] = row[w]
        /\ row'[v].status = "deleted" /\ row'[v].webcam = row[v].webcam
    BY <1>t, <1>1, StatusUpdateType DEF AbandonStaleUpload
  <2> QED
    BY <2>1, <2>2, UnclaimedRowStep
<1>2. CASE \E t \in Tasks : \/ PurgeOrphan(t, v)
                            \/ \E kind \in EncodeKinds : EncodeScan(t, v, kind)
  BY <1>t, <1>2, WorkerStartQuiet, QuietStep
<1> QED
  BY <1>1, <1>2 DEF Worker

\* The sweep presumes no live editor dead, since the editor's context expires first.
LEMMA SweepSparesEditors ==
  ASSUME EditInv, NEW t \in Tasks, task[t].pc \in EditPcs
  PROVE  ~Stuck(task[t].video)
<1>1. /\ task[t].age \in 0 .. JobTimeout
      /\ row[task[t].video].status = "processing"
           => row[task[t].video].started = task[t].age
  BY DEF EditInv, EditorOwnsRow
<1> QED
  BY <1>1 DEF Stuck, Nil

LEMMA SweepStep ==
  ASSUME EditInv, TypeInv', ResetStuckProcessing
  PROVE  EditInv'
<1>1. \A v \in Videos : Freed(row[v], FALSE).status = "ready"
                        /\ Freed(row[v], FALSE).webcam = FALSE
  BY FreedType DEF EditInv, TypeOK
<1>2. \A v \in Videos : row'[v] = IF Stuck(v) THEN Freed(row[v], FALSE) ELSE row[v]
  BY DEF ResetStuckProcessing
<1>3. \A t \in Tasks : task[t].pc \in EditPcs =>
        task[t].video \in Videos /\ row'[task[t].video] = row[task[t].video]
  BY <1>2, SweepSparesEditors DEF EditInv, TasksHaveVideos, EditPcs
<1>4. task' = task
  BY DEF ResetStuckProcessing
<1>5. EditorOwnsRow'
  BY <1>3, <1>4 DEF EditInv, EditorOwnsRow
<1>6. OneEditor' /\ ClaimsAreEdits'
  BY <1>4 DEF EditInv, OneEditor, Editing, ClaimsAreEdits
<1>7. ReadyHasNoWebcam'
  BY <1>1, <1>2 DEF EditInv, ReadyHasNoWebcam
<1> QED
  BY <1>5, <1>6, <1>7 DEF EditInv, TypeInv

LEMMA TickStep ==
  ASSUME EditInv, TypeInv', Tick
  PROVE  EditInv'
<1>1. ASSUME NEW v \in Videos
      PROVE  /\ row'[v].status = row[v].status /\ row'[v].webcam = row[v].webcam
             /\ row[v].status = "processing" /\ row[v].started \in 0 .. StuckAfter - 1
                  => row'[v].started = row[v].started + 1
  <2> DEFINE r == [row[v] EXCEPT !.started = @ + 1]
  <2>1. /\ r.status = row[v].status /\ r.webcam = row[v].webcam
        /\ r.started = row[v].started + 1
    BY DEF EditInv, TypeOK, Row
  <2>2. row'[v] = IF row[v].status = "processing" /\ row[v].started \in 0 .. StuckAfter - 1
                  THEN r ELSE row[v]
    BY DEF Tick
  <2> HIDE DEF r
  <2> QED
    BY <2>1, <2>2
<1>2. ASSUME NEW t \in Tasks
      PROVE  /\ task'[t].video = task[t].video /\ task'[t].pc = task[t].pc
             /\ task'[t].kind = task[t].kind
             /\ task[t].pc \in EditPcs => task'[t].age = task[t].age + 1
             /\ task[t].pc \notin EditPcs => task'[t].age = task[t].age
  <2> DEFINE n == [task[t] EXCEPT !.age = @ + 1]
  <2>1. /\ n.video = task[t].video /\ n.pc = task[t].pc /\ n.kind = task[t].kind
        /\ n.age = task[t].age + 1
    BY DEF EditInv, TypeOK, Task
  <2>2. task'[t] = IF task[t].pc \in EditPcs THEN n ELSE task[t]
    BY DEF Tick
  <2> HIDE DEF n
  <2> QED
    BY <2>1, <2>2
<1>3. EditorOwnsRow'
  <2> SUFFICES ASSUME NEW t \in Tasks, task[t].pc \in EditPcs
               PROVE  LET r == row'[task[t].video] IN
                        /\ r.status \in {"processing", "deleted"}
                        /\ r.status = "processing" => r.started = task'[t].age
                        /\ task'[t].age \in 0 .. JobTimeout
                        /\ r.webcam => task[t].kind = "composite"
    BY <1>2 DEF EditorOwnsRow
  <2>1. task[t].video \in Videos
    BY DEF EditInv, TasksHaveVideos, EditPcs
  <2>2. task[t].age \in 0 .. JobTimeout /\ task[t].age < JobTimeout
    BY DEF EditInv, EditorOwnsRow, Tick, InTime
  <2>3. task'[t].age = task[t].age + 1 /\ task'[t].age \in 0 .. JobTimeout
        /\ task[t].age \in 0 .. StuckAfter - 1
    BY <1>2, <2>2
  <2> QED
    BY <1>1, <2>1, <2>3 DEF EditInv, EditorOwnsRow
<1>4. OneEditor' /\ ClaimsAreEdits'
  BY <1>2 DEF EditInv, OneEditor, Editing, ClaimsAreEdits, EditPcs
<1>5. ReadyHasNoWebcam'
  BY <1>1 DEF EditInv, ReadyHasNoWebcam
<1> QED
  BY <1>3, <1>4, <1>5 DEF EditInv, TypeInv

LEMMA CrashStep ==
  ASSUME EditInv, TypeInv', NEW t \in Tasks, Crash(t)
  PROVE  EditInv'
<1>1. TypeInv /\ "idle" \notin EditPcs \cup {"claim"}
  BY DEF EditInv, TypeInv, EditPcs
<1>2. NoNewEditor
  BY <1>1, EndType, NoNewEditorBy DEF Crash
<1>3. KeepsClaim
  BY <1>1, KeepsClaimSame DEF Crash
<1> QED
  BY <1>2, <1>3, QuietStep

LEMMA EditInvInit == Init => EditInv
<1> SUFFICES ASSUME Init PROVE EditInv
  OBVIOUS
<1>1. TypeOK /\ TasksHaveVideos
  BY TypeInit DEF TypeInv
<1>2. \A t \in Tasks : task[t].pc = "idle"
  BY DEF Init, StoreInit, IdleTask
<1>3. \A v \in Videos : row[v].status = "none"
  BY DEF Init, StoreInit, NoRow
<1> QED
  BY <1>1, <1>2, <1>3 DEF EditInv, EditorOwnsRow, ClaimsAreEdits, OneEditor,
     Editing, ReadyHasNoWebcam, EditPcs

LEMMA EditInvStep == EditInv /\ [Next]_vars => EditInv'
<1> SUFFICES ASSUME EditInv, [Next]_vars PROVE EditInv'
  OBVIOUS
<1>t. TypeInv /\ TypeInv'
  BY TypeStep DEF EditInv, TypeInv
<1>1. ASSUME NEW v \in Videos, Request(v) \/ Worker(v) PROVE EditInv'
  BY <1>t, <1>1, RequestStep, WorkerStep
<1>2. ASSUME NEW t \in Tasks, EditStep(t) PROVE EditInv'
  <2>1. CASE ClaimEdit(t) \/ Publish(t) \/ Fallback(t)
    BY <1>t, <2>1, ClaimEditStep, PublishStep, FallbackStep
  <2>2. CASE ~(ClaimEdit(t) \/ Publish(t) \/ Fallback(t))
    BY <1>t, <1>2, <2>2, EditStepQuiet, QuietStep DEF EditStep
  <2> QED
    BY <2>1, <2>2
<1>3. ASSUME NEW t \in Tasks, TaskStep(t) PROVE EditInv'
  BY <1>t, <1>2, <1>3, EncodeStepQuiet, PurgeStepQuiet, QuietStep DEF TaskStep
<1>4. ASSUME NEW t \in Tasks, Crash(t) PROVE EditInv'
  BY <1>t, <1>4, CrashStep
<1>5. CASE ResetStuckProcessing
  BY <1>t, <1>5, SweepStep
<1>6. CASE Tick
  BY <1>t, <1>6, TickStep
<1>7. CASE UNCHANGED vars
  BY <1>t, <1>7, KeepsClaimSame, NoNewEditorSame, QuietStep DEF vars
<1> QED
  BY <1>1, <1>3, <1>4, <1>5, <1>6, <1>7 DEF Next

\* Composite, trim and remove-segments never work on one video together.
THEOREM EditorsExclusive == Spec => []OneEditor
<1>1. Spec => []EditInv
  BY EditInvInit, EditInvStep, PTL DEF Spec
<1>2. EditInv => OneEditor
  BY DEF EditInv
<1> QED
  BY <1>1, <1>2, PTL

\* A ready video has no webcam_key.
THEOREM ReadyWithoutWebcam == Spec => []ReadyHasNoWebcam
<1>1. Spec => []EditInv
  BY EditInvInit, EditInvStep, PTL DEF Spec
<1>2. EditInv => ReadyHasNoWebcam
  BY DEF EditInv
<1> QED
  BY <1>1, <1>2, PTL
=============================================================================
