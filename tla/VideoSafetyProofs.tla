--------------------------- MODULE VideoSafetyProofs ---------------------------
(***************************************************************************)
(* What rests on the types and invariants of VideoLifecycleProofs: the     *)
(* jobs, the clock, the sweep and the deletions implement EditLease; the   *)
(* file a ready video points to is stored until the video is deleted; the  *)
(* attempts to encode a video are bounded; each goroutine goes forward to  *)
(* its end, and rows in processing run out.                                *)
(***************************************************************************)
EXTENDS VideoLifecycleProofs, FiniteSetTheorems

\* The refinement mapping, by name.
shown   == [v \in Videos |-> row[v].status]
holders == [v \in Videos |-> {t \in Tasks : Editing(t, v)}]

LeaseStep == [Lease!LeaseNext]_<<shown, holders>>

LEMMA LeaseStepIs == LeaseStep <=> [Lease!LeaseNext]_(Lease!lease)
BY DEF LeaseStep, shown, holders, Lease!lease

\* What happens to the two abstract variables.
LEMMA SameShown ==
  ASSUME \A v \in Videos : row'[v].status = row[v].status
  PROVE  shown' = shown
BY DEF shown

LEMMA SameHolders ==
  ASSUME \A u \in Tasks : /\ task'[u].pc \in EditPcs <=> task[u].pc \in EditPcs
                          /\ task[u].pc \in EditPcs => task'[u].video = task[u].video
  PROVE  holders' = holders
<1>1. \A v \in Videos, u \in Tasks : Editing(u, v)' <=> Editing(u, v)
  BY DEF Editing
<1> QED
  BY <1>1 DEF holders

LEMMA EditorGone ==
  ASSUME EditInv, NEW t \in Tasks, task[t].pc \in EditPcs, task'[t].pc \notin EditPcs,
         \A u \in Tasks \ {t} : task'[u] = task[u]
  PROVE  /\ task[t].video \in Videos
         /\ holders[task[t].video] = {t}
         /\ holders' = [holders EXCEPT ![task[t].video] = {}]
<1>1. task[t].video \in Videos
  BY DEF EditInv, TasksHaveVideos, EditPcs
<1>2. \A u \in Tasks : Editing(u, task[t].video) <=> u = t
  BY <1>1 DEF EditInv, OneEditor, Editing
<1>3. \A v \in Videos, u \in Tasks :
        Editing(u, v)' <=> v # task[t].video /\ Editing(u, v)
  BY <1>2 DEF Editing
<1>4. holders[task[t].video] = {t}
  BY <1>1, <1>2 DEF holders
<1>5. holders' = [holders EXCEPT ![task[t].video] = {}]
  BY <1>1, <1>3 DEF holders
<1> QED
  BY <1>1, <1>4, <1>5

LEMMA EditorNew ==
  ASSUME EditInv, NEW v \in Videos, NEW t \in Tasks,
         row[v].status \notin {"processing", "deleted"},
         task[t].pc \notin EditPcs, task'[t].pc \in EditPcs, task'[t].video = v,
         \A u \in Tasks \ {t} : task'[u] = task[u]
  PROVE  holders[v] = {} /\ holders' = [holders EXCEPT ![v] = {t}]
<1>1. \A u \in Tasks : ~Editing(u, v)
  BY DEF EditInv, EditorOwnsRow, Editing
<1>2. \A w \in Videos, u \in Tasks :
        Editing(u, w)' <=> (u = t /\ w = v) \/ Editing(u, w)
  BY <1>1 DEF Editing
<1>3. \A w \in Videos : {u \in Tasks : Editing(u, w)'} =
        IF w = v THEN {t} ELSE {u \in Tasks : Editing(u, w)}
  BY <1>1, <1>2
<1> QED
  BY <1>1, <1>3 DEF holders

LEMMA NoHolders ==
  ASSUME EditInv, NEW v \in Videos, row[v].status \notin {"processing", "deleted"}
  PROVE  holders[v] = {}
BY DEF holders, EditInv, EditorOwnsRow, Editing

LEMMA ShownUpdate ==
  ASSUME NEW v \in Videos, NEW s, row'[v].status = s,
         \A w \in Videos \ {v} : row'[w] = row[w]
  PROVE  shown' = [shown EXCEPT ![v] = s] /\ shown[v] = row[v].status
BY DEF shown

\* A quiet step leaves the lease alone, or its holder vanishes.
LEMMA QuietLease ==
  ASSUME EditInv, KeepsClaim, NoNewEditor
  PROVE  LeaseStep
<1>1. shown' = shown
  BY SameShown DEF KeepsClaim
<1>2. CASE \E t \in Tasks : task[t].pc \in EditPcs /\ task'[t].pc \notin EditPcs
  <2>1. PICK t \in Tasks : task[t].pc \in EditPcs /\ task'[t].pc \notin EditPcs
    BY <1>2
  <2>2. \A u \in Tasks \ {t} : task'[u] = task[u]
    BY <2>1 DEF NoNewEditor
  <2>3. /\ task[t].video \in Videos /\ holders[task[t].video] = {t}
        /\ holders' = [holders EXCEPT ![task[t].video] = {}]
    BY <2>1, <2>2, EditorGone
  <2>4. Lease!Vanish(task[t].video, t)
    BY <1>1, <2>3 DEF Lease!Vanish, Lease!Hold, shown, holders
  <2> QED
    BY <2>3, <2>4 DEF LeaseStep, Lease!LeaseNext
<1>3. CASE \A t \in Tasks : task[t].pc \in EditPcs => task'[t].pc \in EditPcs
  <2>1. holders' = holders
    BY <1>3, SameHolders DEF NoNewEditor
  <2> QED
    BY <1>1, <2>1 DEF LeaseStep
<1> QED
  BY <1>2, <1>3

LEMMA ReleaseLease ==
  ASSUME EditInv, NEW t \in Tasks, task[t].pc \in EditPcs, task'[t].pc \notin EditPcs,
         \A u \in Tasks \ {t} : task'[u] = task[u],
         \A w \in Videos \ {task[t].video} : row'[w] = row[w],
         row'[task[t].video].status = "ready"
  PROVE  LeaseStep
<1>0. PICK held \in Videos : held = task[t].video
  BY EditorGone
<1>1. holders[held] = {t} /\ holders' = [holders EXCEPT ![held] = {}]
  BY <1>0, EditorGone
<1>2. shown' = [shown EXCEPT ![held] = "ready"] /\ shown[held] = row[held].status
  BY <1>0, ShownUpdate
<1>3. shown[held] \in {"processing", "deleted"}
  BY <1>0, <1>2 DEF EditInv, EditorOwnsRow
<1>4. Lease!Release(held, t)
  BY <1>1, <1>2, <1>3 DEF Lease!Release, Lease!Hold, Lease!Show, shown, holders
<1> QED
  BY <1>0, <1>4 DEF LeaseStep, Lease!LeaseNext

\* A row that nobody edits is marked deleted, or one that somebody does.
LEMMA DiscardLease ==
  ASSUME NEW v \in Videos, row[v].status \notin {"none", "deleted"},
         row'[v].status = "deleted", \A w \in Videos \ {v} : row'[w] = row[w],
         holders' = holders
  PROVE  LeaseStep
<1>1. shown' = [shown EXCEPT ![v] = "deleted"] /\ shown[v] = row[v].status
  BY ShownUpdate
<1>2. Lease!Discard(v)
  BY <1>1 DEF Lease!Discard, Lease!Show, shown, holders
<1> QED
  BY <1>2 DEF LeaseStep, Lease!LeaseNext

LEMMA EditLeaseSteps ==
  ASSUME EditInv, TypeInv', NEW t \in Tasks, EditStep(t)
  PROVE  LeaseStep
<1>t. TypeInv
  BY DEF EditInv, TypeInv
<1> DEFINE held == task[t].video
<1>0. task[t].pc # "idle" => held \in Videos /\ row[held] \in Row /\ task[t] \in Task
  BY DEF EditInv, TypeOK, TasksHaveVideos
<1>1. CASE ClaimEdit(t)
  <2>1. held \in Videos /\ row[held] \in Row /\ task[t].pc = "claim" /\ row[held].status = "ready"
    BY <1>0, <1>1 DEF ClaimEdit, At
  <2>2. row' = [row EXCEPT ![held] = Claimed(row[held])]
    BY <1>1 DEF ClaimEdit, ClaimRow
  <2>3. /\ \A w \in Videos \ {held} : row'[w] = row[w]
        /\ row'[held].status = "processing"
    BY <1>t, <2>1, <2>2, ClaimedType, RowUpdateType
  <2>4. "download" \in Pcs /\ "download" \in EditPcs /\ "claim" \notin EditPcs
    BY DEF Pcs, EditPcs
  <2>5. /\ \A u \in Tasks \ {t} : task'[u] = task[u]
        /\ task'[t].pc = "download" /\ task'[t].video = held
    BY <1>t, <1>1, <2>1, <2>4, GotoType DEF ClaimEdit
  <2>6. holders[held] = {} /\ holders' = [holders EXCEPT ![held] = {t}]
    BY <2>1, <2>4, <2>5, EditorNew
  <2>7. shown' = [shown EXCEPT ![held] = "processing"] /\ shown[held] = "ready"
    BY <2>1, <2>3, ShownUpdate
  <2>8. PICK v \in Videos : v = held
    BY <2>1
  <2>9. Lease!Acquire(v, t)
    BY <2>6, <2>7, <2>8 DEF Lease!Acquire, Lease!Hold, Lease!Show, shown, holders
  <2> QED
    BY <2>8, <2>9 DEF LeaseStep, Lease!LeaseNext
<1>2. CASE Publish(t)
  <2>1. /\ task[t].pc \in EditPcs /\ held \in Videos /\ row[held] \in Row
        /\ task[t] \in Task
    BY <1>0, <1>2 DEF Publish, At, EditPcs
  <2> DEFINE r == [Freed(row[held], FALSE) EXCEPT !.cut = CutAfter(t)]
  <2>2. row' = [row EXCEPT ![held] = r]
    BY <1>2, <2>1, EditorClearsWebcam DEF Publish
  <2>3. r \in Row /\ r.status = "ready"
    BY <2>1, PublishedType
  <2> HIDE DEF r
  <2>4. /\ \A w \in Videos \ {held} : row'[w] = row[w]
        /\ row'[held].status = "ready"
    BY <1>t, <2>1, <2>2, <2>3, RowUpdateType
  <2>5. /\ \A u \in Tasks \ {t} : task'[u] = task[u]
        /\ task'[t].pc \notin EditPcs
    BY <1>2, <2>1, ThumbnailingType DEF Publish, EditInv, TypeOK, EditPcs
  <2> QED
    BY <2>1, <2>4, <2>5, ReleaseLease
<1>3. CASE Fallback(t)
  <2>1. task[t].pc \in EditPcs /\ held \in Videos /\ row[held] \in Row
    BY <1>0, <1>3 DEF Fallback, At, EditPcs
  <2>2. /\ \A u \in Tasks \ {t} : task'[u] = task[u]
        /\ task'[t].pc \notin EditPcs \cup {"claim"}
    BY <1>t, <1>3, EndType DEF Fallback, EditPcs
  <2>3. CASE row' = [row EXCEPT ![held] = Freed(row[held], WebcamAfter(t))]
    <3>1. row' = [row EXCEPT ![held] = Freed(row[held], FALSE)]
      BY <2>1, <2>3, EditorClearsWebcam
    <3>2. /\ \A w \in Videos \ {held} : row'[w] = row[w]
          /\ row'[held].status = "ready"
      BY <1>t, <2>1, <3>1, FreedType, RowUpdateType
    <3> QED
      BY <2>1, <2>2, <3>2, ReleaseLease
  <2>4. CASE row' = row
    <3>1. NoNewEditor
      BY <2>2, NoNewEditorBy
    <3> QED
      BY <1>t, <2>4, <3>1, KeepsClaimSame, QuietLease
  <2> QED
    BY <1>3, <2>3, <2>4 DEF Fallback
<1>4. CASE ~(ClaimEdit(t) \/ Publish(t) \/ Fallback(t))
  BY <1>t, <1>4, EditStepQuiet, QuietLease DEF EditStep
<1> QED
  BY <1>1, <1>2, <1>3, <1>4

LEMMA FinalizeLease ==
  ASSUME EditInv, TypeInv', NEW v \in Videos, Finalize(v)
  PROVE  LeaseStep
<1>0. row[v] \in Row /\ row[v].status = "uploading"
  BY DEF Finalize, EditInv, TypeOK
<1>1. PICK started \in SUBSET {t \in Tasks : task[t].pc = "idle"} :
        \E kind \in [started -> JobsOf(v)] :
          /\ \A t, u \in started : kind[t] = kind[u] => t = u
          /\ task' = [t \in Tasks |->
               IF t \in started THEN NewTask(kind[t], v, FirstPc(kind[t])) ELSE task[t]]
  BY DEF Finalize
<1>2. PICK kind \in [started -> JobsOf(v)] :
        /\ \A t, u \in started : kind[t] = kind[u] => t = u
        /\ task' = [t \in Tasks |->
             IF t \in started THEN NewTask(kind[t], v, FirstPc(kind[t])) ELSE task[t]]
  BY <1>1
<1>3. \A j \in JobsOf(v) :
        /\ j \in Kinds /\ FirstPc(j) \in Pcs
        /\ FirstPc(j) \in EditPcs <=> row[v].webcam
        /\ row[v].webcam => j = "composite"
  BY DEF JobsOf, Kinds, FirstPc, Pcs, EditPcs
<1>4. \A t \in started :
        task'[t].video = v /\ (task'[t].pc \in EditPcs <=> row[v].webcam)
  BY <1>2, <1>3, NewTaskType DEF EditInv
<1>5. \A t \in Tasks \ started : task'[t] = task[t]
  BY <1>2
<1>6. "idle" \notin EditPcs
  BY DEF EditPcs
<1>7. /\ row[v].webcam => row'[v].status = "processing"
      /\ ~row[v].webcam => row'[v].status = "ready"
      /\ \A w \in Videos \ {v} : row'[w] = row[w]
  BY FinalizedRow
<1>8. holders[v] = {}
  BY <1>0, NoHolders
<1>9. CASE ~row[v].webcam
  <2>1. holders' = holders
    BY <1>4, <1>5, <1>6, <1>9, SameHolders
  <2>2. shown' = [shown EXCEPT ![v] = "ready"] /\ shown[v] = "uploading"
    BY <1>0, <1>7, <1>9, ShownUpdate
  <2>3. Lease!Offer(v)
    BY <2>1, <2>2 DEF Lease!Offer, Lease!Show, shown, holders
  <2> QED
    BY <2>3 DEF LeaseStep, Lease!LeaseNext
<1>10. CASE row[v].webcam /\ started = {}
  <2>1. holders' = holders
    BY <1>5, <1>10, SameHolders
  <2>2. shown' = [shown EXCEPT ![v] = "processing"] /\ shown[v] = "uploading"
    BY <1>0, <1>7, <1>10, ShownUpdate
  <2>3. Lease!AcquireInVain(v)
    BY <1>8, <2>1, <2>2 DEF Lease!AcquireInVain, Lease!Show, shown, holders
  <2> QED
    BY <2>3 DEF LeaseStep, Lease!LeaseNext
<1>11. CASE row[v].webcam /\ started # {}
  <2>1. PICK t \in started : TRUE
    BY <1>11
  <2>2. started = {t}
    BY <1>2, <1>3, <1>11
  <2>3. /\ task[t].pc \notin EditPcs /\ task'[t].pc \in EditPcs /\ task'[t].video = v
        /\ t \in Tasks /\ \A u \in Tasks \ {t} : task'[u] = task[u]
    BY <1>4, <1>5, <1>6, <1>11, <2>2
  <2>4. holders' = [holders EXCEPT ![v] = {t}]
    BY <1>0, <2>3, EditorNew
  <2>5. shown' = [shown EXCEPT ![v] = "processing"] /\ shown[v] = "uploading"
    BY <1>0, <1>7, <1>11, ShownUpdate
  <2>6. Lease!Acquire(v, t)
    BY <1>8, <2>4, <2>5 DEF Lease!Acquire, Lease!Hold, Lease!Show, shown, holders
  <2> QED
    BY <2>3, <2>6 DEF LeaseStep, Lease!LeaseNext
<1> QED
  BY <1>9, <1>10, <1>11

LEMMA RequestLease ==
  ASSUME EditInv, TypeInv', NEW v \in Videos, Request(v)
  PROVE  LeaseStep
<1>t. TypeInv
  BY DEF EditInv, TypeInv
<1>1. ASSUME NEW key \in Formats, NEW webcam \in BOOLEAN, NEW cut \in Int,
             Insert(v, key, webcam, cut)
      PROVE  LeaseStep
  <2> DEFINE r == [NoRow EXCEPT !.status = "uploading", !.key = key,
                                !.webcam = webcam, !.cut = cut]
  <2>1. r.status = "uploading"
    BY Zenon DEF NoRow
  <2>2. row' = [row EXCEPT ![v] = r] /\ row[v].status = "none"
    BY <1>1 DEF Insert
  <2> HIDE DEF r
  <2>3. /\ \A w \in Videos \ {v} : row'[w] = row[w]
        /\ row'[v].status = "uploading"
    BY <2>1, <2>2 DEF EditInv, TypeOK
  <2>4. shown' = [shown EXCEPT ![v] = "uploading"] /\ shown[v] = "none"
    BY <2>2, <2>3, ShownUpdate
  <2>5. holders' = holders
    BY <1>1, SameHolders DEF Insert
  <2>6. Lease!Begin(v)
    BY <2>4, <2>5 DEF Lease!Begin, Lease!Show, shown, holders
  <2> QED
    BY <2>6 DEF LeaseStep, Lease!LeaseNext
<1>2. CASE Create(v) \/ Upload(v)
  <2>1. 0 \in Int /\ Nil \in Int /\ FALSE \in BOOLEAN
    BY DEF Nil
  <2> QED
    BY <1>1, <1>2, <2>1 DEF Create, Upload
<1>3. CASE Finalize(v)
  BY <1>3, FinalizeLease
<1>4. ASSUME NEW k \in Formats \cup {"cam"}, ClientPut(v, k)
      PROVE  LeaseStep
  <2>1. KeepsClaim /\ NoNewEditor
    BY <1>t, <1>4, KeepsClaimSame, NoNewEditorSame DEF ClientPut
  <2> QED
    BY <2>1, QuietLease
<1>5. ASSUME NEW t \in Tasks, RequestEdit(t, v)
      PROVE  LeaseStep
  <2> DEFINE n == NewTask("edit", v, "claim")
  <2>1. n \in Task /\ n.pc = "claim"
    BY <1>t, NewTaskType DEF TypeInv, Kinds, Pcs
  <2>2. [n EXCEPT !.length = row[v].cut + 1].pc = "claim"
    BY <2>1 DEF Task
  <2>3. task' = [task EXCEPT ![t] = [n EXCEPT !.length = row[v].cut + 1]]
    BY <1>5 DEF RequestEdit
  <2> HIDE DEF n
  <2>4. /\ \A u \in Tasks \ {t} : task'[u] = task[u]
        /\ task'[t].pc = "claim" /\ task[t].pc = "idle"
    BY <1>5, <2>2, <2>3 DEF EditInv, TypeOK, RequestEdit
  <2>5. holders' = holders
    BY <2>4, SameHolders DEF EditPcs
  <2>6. shown' = shown
    BY <1>5, SameShown DEF RequestEdit
  <2> QED
    BY <2>5, <2>6 DEF LeaseStep
<1>6. ASSUME NEW t \in Tasks, ResetThumbnail(t, v)
      PROVE  LeaseStep
  <2>1. "thumb" \in Kinds /\ "thumb" \in Pcs /\ "thumb" \notin EditPcs \cup {"claim"}
    BY DEF Kinds, Pcs, EditPcs
  <2>2. /\ \A u \in Tasks \ {t} : task'[u] = task[u]
        /\ task'[t] = NewTask("thumb", v, "thumb")
    BY <1>t, <1>6, <2>1, StartType DEF ResetThumbnail
  <2>3. task'[t].pc = "thumb"
    BY <1>t, <2>1, <2>2, NewTaskType DEF TypeInv
  <2>4. NoNewEditor
    BY <2>1, <2>2, <2>3, NoNewEditorBy
  <2>5. KeepsClaim
    BY <1>t, <1>6, KeepsClaimSame DEF ResetThumbnail
  <2> QED
    BY <2>4, <2>5, QuietLease
<1>7. ASSUME NEW t \in Tasks, NEW kind \in {"purge", "batch"}, MarkDeleted(t, v, kind)
      PROVE  LeaseStep
  <2>1. holders' = holders
    <3>1. StartPurge(t, v, kind, KnownExtras(v)) /\ KnownExtras(v) \in SUBSET Extras
      BY <1>7 DEF MarkDeleted, KnownExtras
    <3>2. \A u \in Tasks \ {t} : task'[u] = task[u]
      BY <1>t, <3>1, PurgeStartType
    <3>3. task'[t].pc = "purgeFile"
      BY <1>t, <3>1, PurgeStartType
    <3>4. task[t].pc = "idle"
      BY <3>1 DEF StartPurge
    <3> QED
      BY <3>2, <3>3, <3>4, SameHolders DEF EditPcs
  <2>2. /\ \A w \in Videos \ {v} : row'[w] = row[w]
        /\ row'[v].status = "deleted" /\ row[v].status \notin {"none", "deleted"}
    BY <1>t, <1>7, StatusUpdateType DEF MarkDeleted
  <2> QED
    BY <2>1, <2>2, DiscardLease
<1> QED
  BY <1>2, <1>3, <1>4, <1>5, <1>6, <1>7 DEF Request, Delete, BatchDelete

LEMMA WorkerLease ==
  ASSUME EditInv, TypeInv', NEW v \in Videos, Worker(v)
  PROVE  LeaseStep
<1>t. TypeInv
  BY DEF EditInv, TypeInv
<1>1. CASE AbandonStaleUpload(v)
  <2>1. holders' = holders
    BY <1>1, SameHolders DEF AbandonStaleUpload
  <2>2. /\ \A w \in Videos \ {v} : row'[w] = row[w]
        /\ row'[v].status = "deleted" /\ row[v].status \notin {"none", "deleted"}
    BY <1>t, <1>1, StatusUpdateType DEF AbandonStaleUpload
  <2> QED
    BY <2>1, <2>2, DiscardLease
<1>2. CASE \E t \in Tasks : PurgeOrphan(t, v) \/ \E kind \in EncodeKinds : EncodeScan(t, v, kind)
  BY <1>t, <1>2, WorkerStartQuiet, QuietLease
<1> QED
  BY <1>1, <1>2 DEF Worker

LEMMA SweepLease ==
  ASSUME EditInv, ResetStuckProcessing
  PROVE  LeaseStep
<1>0. PICK stuck \in SUBSET Videos : \A v \in Videos : v \in stuck <=> Stuck(v)
  <2>1. {v \in Videos : Stuck(v)} \in SUBSET Videos
    OBVIOUS
  <2> QED
    BY <2>1
<1>1. \A v \in Videos : Freed(row[v], FALSE).status = "ready"
  BY FreedType DEF EditInv, TypeOK
<1>2. shown' = [v \in Videos |-> IF v \in stuck THEN "ready" ELSE shown[v]]
  BY <1>0, <1>1 DEF ResetStuckProcessing, shown
<1>3. holders' = holders
  BY SameHolders DEF ResetStuckProcessing
<1>4. \A v \in stuck : shown[v] = "processing" /\ holders[v] = {}
  BY <1>0, SweepSparesEditors DEF Stuck, shown, holders, Editing
<1>5. Lease!Expire(stuck)
  BY <1>2, <1>3, <1>4 DEF Lease!Expire, shown, holders
<1> QED
  BY <1>5 DEF LeaseStep, Lease!LeaseNext

LEMMA TickLease ==
  ASSUME EditInv, Tick
  PROVE  LeaseStep
<1>1. ASSUME NEW v \in Videos PROVE row'[v].status = row[v].status
  <2>1. [row[v] EXCEPT !.started = @ + 1].status = row[v].status
    BY DEF EditInv, TypeOK, Row
  <2> QED
    BY <2>1 DEF Tick
<1>2. ASSUME NEW t \in Tasks
      PROVE  task'[t].video = task[t].video /\ task'[t].pc = task[t].pc
  <2>1. /\ [task[t] EXCEPT !.age = @ + 1].video = task[t].video
        /\ [task[t] EXCEPT !.age = @ + 1].pc = task[t].pc
    BY DEF EditInv, TypeOK, Task
  <2> QED
    BY <2>1 DEF Tick
<1> QED
  BY <1>1, <1>2, SameShown, SameHolders DEF LeaseStep

LEMMA LeaseInit == Init => Lease!LeaseInit
<1> SUFFICES ASSUME Init PROVE Lease!LeaseInit
  OBVIOUS
<1>1. \A t \in Tasks : task[t].pc \notin EditPcs
  BY DEF Init, StoreInit, IdleTask, EditPcs
<1>2. \A v \in Videos : row[v].status = "none"
  BY DEF Init, StoreInit, NoRow
<1> QED
  BY <1>1, <1>2 DEF Lease!LeaseInit, Editing

LEMMA NextLease == EditInv /\ [Next]_vars => [Lease!LeaseNext]_(Lease!lease)
<1> SUFFICES ASSUME EditInv, [Next]_vars PROVE LeaseStep
  BY LeaseStepIs
<1>t. TypeInv /\ TypeInv'
  BY TypeStep DEF EditInv, TypeInv
<1>1. ASSUME NEW v \in Videos, Request(v) \/ Worker(v) PROVE LeaseStep
  BY <1>t, <1>1, RequestLease, WorkerLease
<1>2. ASSUME NEW t \in Tasks, TaskStep(t) PROVE LeaseStep
  BY <1>t, <1>2, EditLeaseSteps, EncodeStepQuiet, PurgeStepQuiet, QuietLease DEF TaskStep
<1>3. ASSUME NEW t \in Tasks, Crash(t) PROVE LeaseStep
  <2>1. NoNewEditor
    BY <1>t, <1>3, EndType, NoNewEditorBy DEF Crash, EditPcs
  <2> QED
    BY <1>t, <1>3, <2>1, KeepsClaimSame, QuietLease DEF Crash
<1>4. CASE ResetStuckProcessing
  BY <1>4, SweepLease
<1>5. CASE Tick
  BY <1>5, TickLease
<1>6. CASE UNCHANGED vars
  BY <1>t, <1>6, KeepsClaimSame, NoNewEditorSame, QuietLease DEF vars
<1> QED
  BY <1>1, <1>2, <1>3, <1>4, <1>5, <1>6 DEF Next

\* The status column and the live editors implement the lease of EditLease.
THEOREM LeaseImplemented == Spec => ImplementsLease
<1>1. Spec => []EditInv
  BY EditInvInit, EditInvStep, PTL DEF Spec
<1> QED
  BY <1>1, LeaseInit, NextLease, PTL DEF Spec, ImplementsLease, Lease!Spec

-----------------------------------------------------------------------------
(***************************************************************************)
(* The file of a ready video.  The invariant FileInv is stated per row and *)
(* per goroutine: a step moves one goroutine and disturbs the others only  *)
(* through what EnvStep allows.                                            *)
(***************************************************************************)

EncodePcs == {"check", "fetch", "put", "repoint", "dropOld", "clear"}
PurgePcs  == {"purgeFile", "purgeExtras", "purgeMark"}

RowOK(v) ==
  /\ row[v].status \in {"processing", "ready"} /\ ~retired[v] => Stored(v, row[v].key)
  /\ \A k \in Formats : object[v][k] \in Nat \cup {Nil}
  /\ row[v].status = "deleted" => retired[v]

TaskOK(t) ==
  /\ task[t].pc = "repoint" /\ ~retired[task[t].video] => Stored(task[t].video, "mp4")
  /\ task[t].pc = "dropOld" => task[t].key = "webm" /\ row[task[t].video].key = "mp4"
  /\ task[t].kind = "transcode" => task[t].key = "webm"
  /\ task[t].pc \in {"upload", "put"} => task[t].cut \in Nat
  /\ task[t].pc \in PurgePcs => retired[task[t].video]
  /\ task[t].pc \in EncodePcs => row[task[t].video].status \notin {"uploading", "none"}

LEMMA FileInvIs ==
  FileInv <=> (\A v \in Videos : RowOK(v)) /\ (\A t \in Tasks : TaskOK(t))
BY DEF FileInv, RowFileStored, RepointsToStored, DropsUnused, TranscodesWebM,
       ContentIsNat, DeletedAreRetired, RowOK, TaskOK, PurgePcs, EncodePcs

LEMMA FileInvPrimed ==
  ASSUME \A v \in Videos : RowOK(v)', \A t \in Tasks : TaskOK(t)'
  PROVE  FileInv'
BY DEF FileInv, RowFileStored, RepointsToStored, DropsUnused, TranscodesWebM,
       ContentIsNat, DeletedAreRetired, RowOK, TaskOK, PurgePcs, EncodePcs

\* What any step may do to the video of a goroutine that it does not move.
EnvStep ==
  \A v \in Videos :
    /\ retired[v] => retired'[v]
    /\ row[v].status \notin {"uploading", "none"}
         => /\ row'[v].status \notin {"uploading", "none"}
            /\ row[v].key = "mp4" => row'[v].key = "mp4"
    /\ Stored(v, "mp4") /\ ~retired'[v] => Stored(v, "mp4")'

LEMMA OtherTask ==
  ASSUME EnvStep, NEW u \in Tasks, task'[u] = task[u], TaskOK(u),
         task[u].pc # "idle" => task[u].video \in Videos
  PROVE  TaskOK(u)'
<1>1. CASE task[u].pc = "idle"
  BY <1>1 DEF TaskOK, PurgePcs, EncodePcs
<1>2. CASE task[u].pc # "idle"
  BY <1>2 DEF TaskOK, EnvStep, PurgePcs, EncodePcs
<1> QED
  BY <1>1, <1>2

\* One goroutine moves, or none.
LEMMA FileStep ==
  ASSUME TypeInv, FileInv, EnvStep, \A v \in Videos : RowOK(v)', NEW t \in Tasks,
         \A u \in Tasks \ {t} : task'[u] = task[u], TaskOK(t)'
  PROVE  FileInv'
<1>1. ASSUME NEW u \in Tasks \ {t} PROVE TaskOK(u)'
  BY FileInvIs, OtherTask DEF TypeInv, TasksHaveVideos
<1>2. \A u \in Tasks : TaskOK(u)'
  BY <1>1
<1> QED
  BY <1>2, FileInvPrimed

LEMMA FileStepSameTasks ==
  ASSUME TypeInv, FileInv, EnvStep, \A v \in Videos : RowOK(v)', task' = task
  PROVE  FileInv'
<1>1. ASSUME NEW u \in Tasks PROVE TaskOK(u)'
  BY FileInvIs, OtherTask DEF TypeInv, TasksHaveVideos
<1>2. \A u \in Tasks : TaskOK(u)'
  BY <1>1
<1> QED
  BY <1>2, FileInvPrimed

\* A step that leaves status, key and deletion alone and loses no file that a
\* row could point to.
KeepsFiles ==
  \A v \in Videos, k \in Formats :
    /\ object'[v][k] \in Nat \cup {Nil}
    /\ ~retired[v] /\ object[v][k] # Nil => object'[v][k] # Nil

LEMMA KeepsFilesSame ==
  ASSUME FileInv, object' = object
  PROVE  KeepsFiles
BY FileInvIs DEF KeepsFiles, RowOK

LEMMA KeepsFilesPut ==
  ASSUME TypeInv, FileInv, NEW v \in Videos, NEW k \in Formats \cup Extras,
         NEW c \in Nat, Put(v, k, c)
  PROVE  KeepsFiles
<1>1. c \in Int /\ c # Nil
  BY DEF Nil
<1> QED
  BY <1>1, PutType, FileInvIs DEF KeepsFiles, RowOK

LEMMA KeepsFilesRemove ==
  ASSUME TypeInv, FileInv, NEW v \in Videos, NEW ks, Remove(v, ks),
         retired[v] \/ \A k \in Formats : k \notin ks
  PROVE  KeepsFiles
BY RemoveType, FileInvIs DEF KeepsFiles, RowOK

LEMMA CalmStep ==
  ASSUME TypeInv, FileInv, KeepsClaim, KeepsKey, KeepsFiles, retired' = retired
  PROVE  EnvStep /\ \A v \in Videos : RowOK(v)'
<1>1. \A v \in Videos : row[v].key \in Formats /\ "mp4" \in Formats
  BY DEF TypeInv, TypeOK, Row, Formats
<1>2. EnvStep
  BY <1>1 DEF EnvStep, KeepsClaim, KeepsKey, KeepsFiles, Stored
<1>3. \A v \in Videos : RowOK(v)'
  BY <1>1, FileInvIs DEF RowOK, KeepsClaim, KeepsKey, KeepsFiles, Stored
<1> QED
  BY <1>2, <1>3

\* What a goroutine that moves needs.
LEMMA TaskOKEnd ==
  ASSUME TypeInv, NEW t \in Tasks, End(t)
  PROVE  (\A u \in Tasks \ {t} : task'[u] = task[u]) /\ TaskOK(t)'
BY EndType DEF TaskOK, PurgePcs, EncodePcs

LEMMA TaskOKGoto ==
  ASSUME TypeInv, FileInv, NEW t \in Tasks, NEW pc \in Pcs, Goto(t, pc),
         task[t].pc # "idle", pc \notin {"upload", "put", "repoint", "dropOld"},
         pc \in PurgePcs => retired'[task[t].video],
         pc \in EncodePcs => row'[task[t].video].status \notin {"uploading", "none"}
  PROVE  (\A u \in Tasks \ {t} : task'[u] = task[u]) /\ TaskOK(t)'
BY GotoType, FileInvIs DEF TaskOK

LEMMA TaskOKTake ==
  ASSUME TypeInv, FileInv, NEW t \in Tasks, NEW pc \in Pcs, NEW c \in Nat, Take(t, pc, c),
         task[t].pc # "idle", pc \notin {"repoint", "dropOld"}, pc \notin PurgePcs,
         pc \in EncodePcs => row'[task[t].video].status \notin {"uploading", "none"}
  PROVE  (\A u \in Tasks \ {t} : task'[u] = task[u]) /\ TaskOK(t)'
<1>1. c \in Int
  OBVIOUS
<1> QED
  BY <1>1, TakeType, FileInvIs DEF TaskOK
-----------------------------------------------------------------------------
LEMMA EditFile ==
  ASSUME EditInv, FileInv, TypeInv', NEW t \in Tasks, EditStep(t)
  PROVE  FileInv'
<1> DEFINE v == task[t].video
<1>t. TypeInv
  BY DEF EditInv, TypeInv
<1>0. /\ task[t] \in Task
      /\ task[t].pc # "idle" => v \in Videos /\ row[v] \in Row
  BY <1>t DEF TypeInv, TypeOK, TasksHaveVideos
<1>p. /\ EditPcs \subseteq Pcs /\ {"thumbRow", "enqueue"} \subseteq Pcs
      /\ \A pc \in EditPcs \cup {"thumbRow", "enqueue"} :
           pc \notin PurgePcs /\ pc \notin EncodePcs
      /\ EditPcs = {"download", "upload", "dropCam", "publish", "fallback"}
  BY DEF Pcs, EditPcs, PurgePcs, EncodePcs
\* The quiet steps.
<1>1. ASSUME KeepsClaim, KeepsKey, KeepsFiles, retired' = retired,
             \A u \in Tasks \ {t} : task'[u] = task[u], TaskOK(t)'
      PROVE  FileInv'
  BY <1>t, <1>1, CalmStep, FileStep
<1>2. CASE RefuseEdit(t) \/ PublishFail(t) \/ EditEnqueue(t)
  <2>1. KeepsClaim /\ KeepsKey
    BY <1>t, <1>2, EditStepQuiet
  <2>2. object' = object /\ retired' = retired /\ End(t)
    BY <1>2 DEF RefuseEdit, PublishFail, EditEnqueue
  <2> QED
    BY <1>t, <1>1, <2>1, <2>2, KeepsFilesSame, TaskOKEnd
<1>3. CASE EditDownload(t)
  <2>1. KeepsClaim /\ KeepsKey
    BY <1>t, <1>3, EditStepQuiet
  <2>2. /\ object' = object /\ retired' = retired /\ task[t].pc # "idle"
        /\ Take(t, "upload", object[v][task[t].key]) /\ Stored(v, task[t].key)
    BY <1>3 DEF EditDownload, At
  <2>3. object[v][task[t].key] \in Nat
    BY <1>0, <2>2, FileInvIs DEF RowOK, Stored, Task
  <2>4. (\A u \in Tasks \ {t} : task'[u] = task[u]) /\ TaskOK(t)'
    BY <1>t, <1>p, <2>2, <2>3, TaskOKTake
  <2> QED
    BY <1>1, <2>1, <2>2, <2>4, KeepsFilesSame
<1>4. CASE EditUpload(t)
  <2>1. KeepsClaim /\ KeepsKey
    BY <1>t, <1>4, EditStepQuiet
  <2>2. /\ retired' = retired /\ task[t].pc = "upload" /\ v \in Videos
        /\ task[t].key \in Formats \cup Extras
    BY <1>0, <1>4 DEF EditUpload, At, Task
  <2>3. task[t].cut \in Nat /\ task[t].cut + 1 \in Nat
    BY <2>2, FileInvIs DEF TaskOK
  <2>4. KeepsFiles
    BY <1>t, <1>4, <2>2, <2>3, KeepsFilesPut DEF EditUpload
  <2>5. (\A u \in Tasks \ {t} : task'[u] = task[u]) /\ TaskOK(t)'
    BY <1>t, <1>p, <1>4, <2>2, TaskOKGoto DEF EditUpload
  <2> QED
    BY <1>1, <2>1, <2>2, <2>4, <2>5
<1>5. CASE EditFail(t)
  <2>1. KeepsClaim /\ KeepsKey
    BY <1>t, <1>5, EditStepQuiet
  <2>2. /\ object' = object /\ retired' = retired /\ task[t].pc # "idle"
        /\ Goto(t, "fallback")
    BY <1>5 DEF EditFail, At
  <2> QED
    BY <1>t, <1>p, <1>1, <2>1, <2>2, KeepsFilesSame, TaskOKGoto
<1>6. CASE DropWebcam(t)
  <2>1. KeepsClaim /\ KeepsKey
    BY <1>t, <1>6, EditStepQuiet
  <2>2. /\ retired' = retired /\ task[t].pc # "idle" /\ v \in Videos
        /\ Goto(t, "publish")
        /\ Remove(v, {"cam"}) \/ object' = object
    BY <1>0, <1>6 DEF DropWebcam, At
  <2>3. KeepsFiles
    BY <1>t, <2>2, KeepsFilesSame, KeepsFilesRemove DEF Formats
  <2> QED
    BY <1>t, <1>p, <1>1, <2>1, <2>2, <2>3, TaskOKGoto
<1>7. ASSUME AfterThumbnail(t), task[t].pc # "idle"
      PROVE  (\A u \in Tasks \ {t} : task'[u] = task[u]) /\ TaskOK(t)'
  BY <1>t, <1>p, <1>7, TaskOKEnd, TaskOKGoto DEF AfterThumbnail
<1>8. CASE ThumbnailUpload(t)
  <2>1. KeepsClaim /\ KeepsKey
    BY <1>t, <1>8, EditStepQuiet
  <2>2. /\ retired' = retired /\ task[t].pc # "idle" /\ v \in Videos
        /\ Goto(t, "thumbRow") /\ Put(v, "thumb", 0)
        /\ "thumb" \in Formats \cup Extras /\ 0 \in Nat
    BY <1>0, <1>8 DEF ThumbnailUpload, At, Extras
  <2>3. KeepsFiles
    BY <1>t, <2>2, KeepsFilesPut
  <2> QED
    BY <1>t, <1>p, <1>1, <2>1, <2>2, <2>3, TaskOKGoto
<1>9. CASE ThumbnailRow(t) \/ ThumbnailFail(t)
  <2>1. KeepsClaim /\ KeepsKey
    BY <1>t, <1>9, EditStepQuiet
  <2>2. /\ object' = object /\ retired' = retired /\ task[t].pc # "idle"
        /\ AfterThumbnail(t)
    BY <1>9 DEF ThumbnailRow, ThumbnailFail, At
  <2> QED
    BY <1>1, <1>7, <2>1, <2>2, KeepsFilesSame
\* The steps that claim the row or give it back: an editor's row is processing,
\* with a file, or deleted.
<1>10. ASSUME v \in Videos, row[v].status \in {"processing", "ready", "deleted"},
              \A w \in Videos \ {v} : row'[w] = row[w],
              row'[v].status \in {"processing", "ready"}, row'[v].key = row[v].key,
              object' = object, retired' = retired
       PROVE  EnvStep /\ \A w \in Videos : RowOK(w)'
  <2>1. EnvStep
    BY <1>10 DEF EnvStep, Stored
  <2>2. ASSUME NEW w \in Videos PROVE RowOK(w)'
    BY <1>10, FileInvIs DEF RowOK, Stored
  <2> QED
    BY <2>1, <2>2
<1>11. CASE ClaimEdit(t)
  <2>1. /\ v \in Videos /\ row[v] \in Row /\ task[t].pc = "claim" /\ row[v].status = "ready"
        /\ row' = [row EXCEPT ![v] = Claimed(row[v])] /\ Goto(t, "download")
        /\ object' = object /\ retired' = retired
    BY <1>0, <1>11 DEF ClaimEdit, ClaimRow, At
  <2>2. /\ \A w \in Videos \ {v} : row'[w] = row[w]
        /\ row'[v].status = "processing" /\ row'[v].key = row[v].key
    BY <1>t, <2>1, ClaimedType, RowUpdateType
  <2>3. EnvStep /\ \A w \in Videos : RowOK(w)'
    BY <1>10, <2>1, <2>2
  <2>4. (\A u \in Tasks \ {t} : task'[u] = task[u]) /\ TaskOK(t)'
    BY <1>t, <1>p, <2>1, TaskOKGoto
  <2> QED
    BY <1>t, <2>3, <2>4, FileStep
<1>12. CASE Publish(t)
  <2>1. /\ task[t].pc \in EditPcs /\ v \in Videos /\ row[v] \in Row
        /\ task[t] \in Task /\ object' = object /\ retired' = retired
    BY <1>0, <1>12 DEF Publish, At, EditPcs
  <2> DEFINE r == [Freed(row[v], FALSE) EXCEPT !.cut = CutAfter(t)]
  <2>2. row' = [row EXCEPT ![v] = r]
    BY <1>12, <2>1, EditorClearsWebcam DEF Publish
  <2>3. r \in Row /\ r.status = "ready" /\ r.key = row[v].key
    BY <2>1, PublishedType
  <2> HIDE DEF r
  <2>4. /\ \A w \in Videos \ {v} : row'[w] = row[w]
        /\ row'[v].status = "ready" /\ row'[v].key = row[v].key
    BY <1>t, <2>1, <2>2, <2>3, RowUpdateType
  <2>5. row[v].status \in {"processing", "deleted"}
    BY <2>1 DEF EditInv, EditorOwnsRow
  <2>6. EnvStep /\ \A w \in Videos : RowOK(w)'
    BY <1>10, <2>1, <2>4, <2>5
  <2>7. /\ \A u \in Tasks \ {t} : task'[u] = task[u]
        /\ task'[t] = Thumbnailing(task[t])
    BY <1>t, <1>12 DEF Publish, TypeInv, TypeOK
  <2>8. TaskOK(t)'
    <3>1. /\ task'[t].pc = "thumb" /\ task'[t].kind = task[t].kind
          /\ task'[t].key = task[t].key
      BY <2>1, <2>7, ThumbnailingType
    <3> QED
      BY <3>1, FileInvIs DEF TaskOK, PurgePcs, EncodePcs
  <2> QED
    BY <1>t, <2>6, <2>7, <2>8, FileStep
<1>13. CASE Fallback(t)
  <2>1. /\ task[t].pc \in EditPcs /\ v \in Videos /\ row[v] \in Row
        /\ End(t) /\ object' = object /\ retired' = retired
    BY <1>0, <1>13 DEF Fallback, At, EditPcs
  <2>2. (\A u \in Tasks \ {t} : task'[u] = task[u]) /\ TaskOK(t)'
    BY <1>t, <2>1, TaskOKEnd
  <2>3. CASE row' = [row EXCEPT ![v] = Freed(row[v], WebcamAfter(t))]
    <3>1. row' = [row EXCEPT ![v] = Freed(row[v], FALSE)]
      BY <2>1, <2>3, EditorClearsWebcam
    <3>2. /\ \A w \in Videos \ {v} : row'[w] = row[w]
          /\ row'[v].status = "ready" /\ row'[v].key = row[v].key
      BY <1>t, <2>1, <3>1, FreedType, RowUpdateType
    <3>3. row[v].status \in {"processing", "deleted"}
      BY <2>1 DEF EditInv, EditorOwnsRow
    <3>4. EnvStep /\ \A w \in Videos : RowOK(w)'
      BY <1>10, <2>1, <3>2, <3>3
    <3> QED
      BY <1>t, <2>2, <3>4, FileStep
  <2>4. CASE row' = row
    BY <1>t, <1>1, <2>1, <2>2, <2>4, KeepsClaimSame, KeepsFilesSame
  <2> QED
    BY <1>13, <2>3, <2>4 DEF Fallback
<1> QED
  BY <1>2, <1>3, <1>4, <1>5, <1>6, <1>8, <1>9, <1>11, <1>12, <1>13 DEF EditStep

LEMMA EncodeFile ==
  ASSUME EditInv, FileInv, TypeInv', NEW t \in Tasks, EncodeStep(t)
  PROVE  FileInv'
<1> DEFINE v == task[t].video
<1>t. TypeInv
  BY DEF EditInv, TypeInv
<1>0. /\ task[t] \in Task
      /\ task[t].pc # "idle" => v \in Videos /\ row[v] \in Row
  BY <1>t DEF TypeInv, TypeOK, TasksHaveVideos
<1>p. /\ {"fetch", "put", "repoint", "dropOld", "clear", "record",
           "recordPermanent", "probeRow"} \subseteq Pcs
      /\ \A pc \in {"fetch", "put", "repoint", "dropOld", "clear", "record",
                     "recordPermanent", "probeRow"} : pc \notin PurgePcs
      /\ \A pc \in {"record", "recordPermanent", "probeRow"} : pc \notin EncodePcs
      /\ {"webm", "mp4"} = Formats /\ "mp4" \in Formats \cup Extras
  BY DEF Pcs, PurgePcs, EncodePcs, Formats
<1>q. KeepsClaim /\ (EncodeRow(t) \/ KeepsKey)
  BY <1>t, EncodeStepQuiet
<1>1. ASSUME KeepsKey, KeepsFiles, retired' = retired,
             \A u \in Tasks \ {t} : task'[u] = task[u], TaskOK(t)'
      PROVE  FileInv'
  BY <1>t, <1>q, <1>1, CalmStep, FileStep
\* A goroutine at one of the steps of an encode sees a finalized video.
<1>2. task[t].pc \in EncodePcs =>
        v \in Videos /\ row'[v].status \notin {"uploading", "none"}
  BY <1>0, <1>q, FileInvIs DEF TaskOK, KeepsClaim, EncodePcs
<1>3. CASE EncodeCheck(t)
  <2>1. /\ task[t].pc = "check" /\ row' = row /\ object' = object /\ retired' = retired
        /\ Goto(t, "fetch") \/ End(t)
    BY <1>3 DEF EncodeCheck, At
  <2>2. KeepsKey /\ KeepsFiles
    BY <1>t, <2>1, KeepsClaimSame, KeepsFilesSame
  <2>3. (\A u \in Tasks \ {t} : task'[u] = task[u]) /\ TaskOK(t)'
    BY <1>t, <1>p, <1>2, <2>1, TaskOKGoto, TaskOKEnd DEF EncodePcs
  <2> QED
    BY <1>1, <2>1, <2>2, <2>3
<1>4. CASE EncodeFetch(t)
  <2>1. /\ task[t].pc = "fetch" /\ row' = row /\ object' = object /\ retired' = retired
        /\ Take(t, "put", object[v][task[t].key]) /\ Stored(v, task[t].key)
    BY <1>4 DEF EncodeFetch, At
  <2>2. object[v][task[t].key] \in Nat
    BY <1>0, <2>1, FileInvIs DEF RowOK, Stored, Task
  <2>3. KeepsKey /\ KeepsFiles
    BY <1>t, <2>1, KeepsClaimSame, KeepsFilesSame
  <2>4. (\A u \in Tasks \ {t} : task'[u] = task[u]) /\ TaskOK(t)'
    BY <1>t, <1>p, <1>2, <2>1, <2>2, TaskOKTake DEF EncodePcs
  <2> QED
    BY <1>1, <2>1, <2>3, <2>4
<1>5. CASE MarkNormalized(t)
  <2>1. /\ v \in Videos /\ row' = [row EXCEPT ![v].normalized = TRUE]
        /\ object' = object /\ retired' = retired /\ End(t)
    BY <1>0, <1>5 DEF MarkNormalized, At
  <2>2. KeepsKey /\ KeepsFiles
    BY <1>t, <2>1, NormalizedUpdate, KeepsFilesSame
  <2> QED
    BY <1>t, <1>1, <2>1, <2>2, TaskOKEnd
<1>6. CASE EncodeUpload(t)
  <2>1. /\ task[t].pc = "put" /\ v \in Videos /\ row' = row /\ retired' = retired
        /\ Put(v, "mp4", task[t].cut) /\ Goto(t, "repoint")
    BY <1>0, <1>6 DEF EncodeUpload, At
  <2>2. task[t].cut \in Nat
    BY <2>1, FileInvIs DEF TaskOK
  <2>3. KeepsKey /\ KeepsFiles
    BY <1>t, <1>p, <2>1, <2>2, KeepsClaimSame, KeepsFilesPut
  <2>4. object'[v]["mp4"] # Nil
    BY <1>t, <1>p, <2>1, <2>2, PutType DEF Nil
  <2>5. /\ \A u \in Tasks \ {t} : task'[u] = task[u]
        /\ task'[t].pc = "repoint" /\ task'[t].kind = task[t].kind
        /\ task'[t].video = v /\ task'[t].key = task[t].key
    BY <1>t, <1>p, <2>1, GotoType
  <2>6. TaskOK(t)'
    BY <1>2, <2>1, <2>4, <2>5, FileInvIs DEF TaskOK, Stored, PurgePcs, EncodePcs
  <2> QED
    BY <1>1, <2>1, <2>3, <2>5, <2>6
<1>7. CASE EncodeRow(t)
  <2>1. /\ task[t].pc = "repoint" /\ v \in Videos /\ row[v] \in Row
        /\ object' = object /\ retired' = retired
        /\ ~retired[v] => Stored(v, "mp4")
        /\ task[t].kind = "transcode" => task[t].key = "webm"
    BY <1>0, <1>7, FileInvIs DEF EncodeRow, At, TaskOK
  <2>2. CASE task[t].kind # "transcode"
    <3>1. row' = [row EXCEPT ![v].normalized = TRUE] /\ Goto(t, "clear")
      BY <1>7, <2>2 DEF EncodeRow
    <3>2. KeepsKey /\ KeepsFiles
      BY <1>t, <2>1, <3>1, NormalizedUpdate, KeepsFilesSame
    <3>3. (\A u \in Tasks \ {t} : task'[u] = task[u]) /\ TaskOK(t)'
      BY <1>t, <1>p, <1>2, <2>1, <3>1, TaskOKGoto DEF EncodePcs
    <3> QED
      BY <1>1, <2>1, <3>2, <3>3
  <2>3. CASE task[t].kind = "transcode"
    <3>1. row' = [row EXCEPT ![v] = Repointed(row[v])] /\ Goto(t, "dropOld")
      BY <1>7, <2>3 DEF EncodeRow
    <3>2. /\ \A w \in Videos \ {v} : row'[w] = row[w]
          /\ row'[v].status = row[v].status /\ row'[v].key = "mp4"
      BY <1>t, <2>1, <3>1, RepointedType, RowUpdateType
    <3>3. EnvStep
      BY <2>1, <3>2 DEF EnvStep, Stored
    <3>4. ASSUME NEW w \in Videos PROVE RowOK(w)'
      BY <2>1, <3>2, FileInvIs DEF RowOK, Stored
    <3>5. /\ \A u \in Tasks \ {t} : task'[u] = task[u]
          /\ task'[t].pc = "dropOld" /\ task'[t].kind = task[t].kind
          /\ task'[t].video = v /\ task'[t].key = task[t].key
      BY <1>t, <1>p, <2>1, <3>1, GotoType
    <3>6. TaskOK(t)'
      BY <1>2, <2>1, <2>3, <3>2, <3>5 DEF TaskOK, PurgePcs, EncodePcs
    <3> QED
      BY <1>t, <3>3, <3>4, <3>5, <3>6, FileStep
  <2> QED
    BY <2>2, <2>3
<1>8. CASE DropWebM(t)
  <2>1. /\ task[t].pc = "dropOld" /\ v \in Videos /\ row' = row /\ retired' = retired
        /\ Remove(v, {task[t].key}) \/ object' = object
        /\ Goto(t, "clear")
    BY <1>0, <1>8 DEF DropWebM, At
  <2>2. task[t].key = "webm" /\ row[v].key = "mp4"
    BY <2>1, FileInvIs DEF TaskOK
  <2>3. (\A u \in Tasks \ {t} : task'[u] = task[u]) /\ TaskOK(t)'
    BY <1>t, <1>p, <1>2, <2>1, TaskOKGoto DEF EncodePcs
  <2>4. \A w \in Videos, k \in Formats :
          object'[w][k] = object[w][k] \/ (w = v /\ k = "webm" /\ object'[w][k] = Nil)
    BY <1>t, <2>1, <2>2, RemoveType
  <2>5. \A w \in Videos : row[w].key \in Formats /\ "mp4" \in Formats
    BY <1>t, <1>p DEF TypeInv, TypeOK, Row
  <2>6. EnvStep
    BY <2>1, <2>4, <2>5 DEF EnvStep, Stored
  <2>7. ASSUME NEW w \in Videos PROVE RowOK(w)'
    BY <2>1, <2>2, <2>4, <2>5, FileInvIs DEF RowOK, Stored
  <2> QED
    BY <1>t, <2>3, <2>6, <2>7, FileStep
<1>9. CASE ClearTranscodeFailure(t) \/ RecordTranscodeFailure(t) \/ ProbeRow(t)
  <2>1. /\ object' = object /\ retired' = retired /\ End(t) /\ ~EncodeRow(t)
    BY <1>9 DEF ClearTranscodeFailure, RecordTranscodeFailure, ProbeRow, EncodeRow, At
  <2> QED
    BY <1>t, <1>q, <1>1, <2>1, KeepsFilesSame, TaskOKEnd
<1>10. CASE EncodeFail(t)
  <2>1. /\ task[t].pc # "idle" /\ row' = row /\ object' = object /\ retired' = retired
        /\ Goto(t, "record") \/ Goto(t, "recordPermanent")
    BY <1>10 DEF EncodeFail, At
  <2>2. KeepsKey /\ KeepsFiles
    BY <1>t, <2>1, KeepsClaimSame, KeepsFilesSame
  <2>3. (\A u \in Tasks \ {t} : task'[u] = task[u]) /\ TaskOK(t)'
    BY <1>t, <1>p, <2>1, TaskOKGoto
  <2> QED
    BY <1>1, <2>1, <2>2, <2>3
<1>11. CASE ProbeFile(t)
  <2>1. /\ task[t].pc = "probe" /\ row' = row /\ object' = object /\ retired' = retired
        /\ \/ Take(t, "probeRow", object[v][task[t].key]) /\ Stored(v, task[t].key)
           \/ End(t)
    BY <1>11 DEF ProbeFile, At
  <2>2. Stored(v, task[t].key) => object[v][task[t].key] \in Nat
    BY <1>0, <2>1, FileInvIs DEF RowOK, Stored, Task
  <2>3. KeepsKey /\ KeepsFiles
    BY <1>t, <2>1, KeepsClaimSame, KeepsFilesSame
  <2>4. (\A u \in Tasks \ {t} : task'[u] = task[u]) /\ TaskOK(t)'
    <3>1. CASE Take(t, "probeRow", object[v][task[t].key]) /\ Stored(v, task[t].key)
      BY <1>t, <1>p, <2>1, <2>2, <3>1, TaskOKTake
    <3>2. CASE End(t)
      BY <1>t, <3>2, TaskOKEnd
    <3> QED
      BY <2>1, <3>1, <3>2
  <2> QED
    BY <1>1, <2>1, <2>3, <2>4
<1> QED
  BY <1>3, <1>4, <1>5, <1>6, <1>7, <1>8, <1>9, <1>10, <1>11 DEF EncodeStep

LEMMA PurgeFileSteps ==
  ASSUME EditInv, FileInv, TypeInv', NEW t \in Tasks, PurgeStep(t)
  PROVE  FileInv'
<1> DEFINE v == task[t].video
<1>t. TypeInv
  BY DEF EditInv, TypeInv
<1>0. /\ task[t] \in Task
      /\ task[t].pc # "idle" => v \in Videos
  BY <1>t DEF TypeInv, TypeOK, TasksHaveVideos
<1>p. /\ {"purgeExtras", "purgeMark"} \subseteq Pcs
      /\ \A pc \in {"purgeExtras", "purgeMark"} : pc \notin EncodePcs
  BY DEF Pcs, EncodePcs
<1>q. KeepsClaim /\ KeepsKey
  BY <1>t, PurgeStepQuiet
<1>1. ASSUME KeepsFiles, retired' = retired,
             \A u \in Tasks \ {t} : task'[u] = task[u], TaskOK(t)'
      PROVE  FileInv'
  BY <1>t, <1>q, <1>1, CalmStep, FileStep
<1>2. task[t].pc \in PurgePcs => v \in Videos /\ retired[v]
  BY <1>0, FileInvIs DEF TaskOK, PurgePcs
<1>3. CASE PurgeFile(t)
  <2>1. /\ task[t].pc = "purgeFile" /\ retired' = retired
        /\ Remove(v, {task[t].key}) /\ Goto(t, "purgeExtras")
    BY <1>3 DEF PurgeFile, At
  <2>2. KeepsFiles
    BY <1>t, <1>2, <2>1, KeepsFilesRemove DEF PurgePcs
  <2>3. (\A u \in Tasks \ {t} : task'[u] = task[u]) /\ TaskOK(t)'
    BY <1>t, <1>p, <1>2, <2>1, TaskOKGoto DEF PurgePcs
  <2> QED
    BY <1>1, <2>1, <2>2, <2>3
<1>4. CASE PurgeFail(t) \/ PurgeMark(t)
  <2>1. object' = object /\ retired' = retired /\ End(t)
    BY <1>4 DEF PurgeFail, PurgeMark
  <2> QED
    BY <1>t, <1>1, <2>1, KeepsFilesSame, TaskOKEnd
<1>5. CASE PurgeExtras(t)
  <2>1. /\ task[t].pc = "purgeExtras" /\ retired' = retired /\ Goto(t, "purgeMark")
    BY <1>5 DEF PurgeExtras, At
  <2>2. PICK gone \in SUBSET task[t].extras : Remove(v, gone)
    BY <1>5 DEF PurgeExtras
  <2>3. KeepsFiles
    BY <1>t, <1>2, <2>1, <2>2, KeepsFilesRemove DEF PurgePcs
  <2>4. (\A u \in Tasks \ {t} : task'[u] = task[u]) /\ TaskOK(t)'
    BY <1>t, <1>p, <1>2, <2>1, TaskOKGoto DEF PurgePcs
  <2> QED
    BY <1>1, <2>1, <2>3, <2>4
<1> QED
  BY <1>3, <1>4, <1>5 DEF PurgeStep

\* A row is marked deleted: nothing is asked of it any more.
LEMMA RetiredStep ==
  ASSUME FileInv, NEW v \in Videos, row[v].status # "none",
         row'[v].status = "deleted", row'[v].key = row[v].key,
         \A w \in Videos \ {v} : row'[w] = row[w],
         retired'[v], \A w \in Videos \ {v} : retired'[w] = retired[w],
         object' = object
  PROVE  EnvStep /\ \A w \in Videos : RowOK(w)'
<1>1. EnvStep
  BY DEF EnvStep, Stored
<1>2. ASSUME NEW w \in Videos PROVE RowOK(w)'
  BY FileInvIs DEF RowOK, Stored
<1> QED
  BY <1>1, <1>2

LEMMA FinalizeFile ==
  ASSUME EditInv, FileInv, TypeInv', NEW v \in Videos, Finalize(v)
  PROVE  FileInv'
<1>t. TypeInv
  BY DEF EditInv, TypeInv
<1>0. /\ row[v].status = "uploading" /\ Stored(v, row[v].key)
      /\ object' = object /\ retired' = retired
  BY DEF Finalize
<1>1. /\ \A w \in Videos \ {v} : row'[w] = row[w]
      /\ row'[v].status \in {"processing", "ready"} /\ row'[v].key = row[v].key
  <2>1. row[v].webcam \in BOOLEAN
    BY <1>t DEF TypeInv, TypeOK, Row
  <2> QED
    BY <2>1, FinalizedRow
<1>2. EnvStep
  BY <1>0, <1>1 DEF EnvStep, Stored
<1>3. ASSUME NEW w \in Videos PROVE RowOK(w)'
  BY <1>0, <1>1, FileInvIs DEF RowOK, Stored
<1>4. PICK started \in SUBSET {t \in Tasks : task[t].pc = "idle"} :
        \E kind \in [started -> JobsOf(v)] : task' = [t \in Tasks |->
          IF t \in started THEN NewTask(kind[t], v, FirstPc(kind[t])) ELSE task[t]]
  BY DEF Finalize
<1>5. PICK kind \in [started -> JobsOf(v)] : task' = [t \in Tasks |->
        IF t \in started THEN NewTask(kind[t], v, FirstPc(kind[t])) ELSE task[t]]
  BY <1>4
<1>6. \A j \in JobsOf(v) :
        /\ j \in Kinds /\ FirstPc(j) \in {"download", "thumb", "probe", "check"}
        /\ j = "transcode" => row[v].key = "webm"
  BY DEF JobsOf, Kinds, FirstPc
<1>7. {"download", "thumb", "probe", "check"} \subseteq Pcs
  BY DEF Pcs, EditPcs
<1>8. ASSUME NEW u \in Tasks PROVE TaskOK(u)'
  <2>1. CASE u \in started
    <3>1. kind[u] \in JobsOf(v) /\ task'[u] = NewTask(kind[u], v, FirstPc(kind[u]))
      BY <1>5, <2>1
    <3>2. /\ task'[u].kind = kind[u] /\ task'[u].pc = FirstPc(kind[u])
          /\ task'[u].key = row[v].key /\ task'[u].video = v
      BY <1>t, <1>6, <1>7, <3>1, NewTaskType DEF TypeInv
    <3> QED
      BY <1>1, <1>6, <3>1, <3>2 DEF TaskOK, PurgePcs
  <2>2. CASE u \notin started
    <3>1. task'[u] = task[u]
      BY <1>5, <2>2
    <3> QED
      BY <1>t, <1>2, <3>1, FileInvIs, OtherTask DEF TypeInv, TasksHaveVideos
  <2> QED
    BY <2>1, <2>2
<1> QED
  BY <1>3, <1>8, FileInvPrimed

LEMMA RequestFile ==
  ASSUME EditInv, FileInv, TypeInv', NEW v \in Videos, Request(v)
  PROVE  FileInv'
<1>t. TypeInv
  BY DEF EditInv, TypeInv
<1>1. ASSUME NEW key \in Formats, NEW webcam \in BOOLEAN, NEW cut \in Int,
             Insert(v, key, webcam, cut)
      PROVE  FileInv'
  <2> DEFINE r == [NoRow EXCEPT !.status = "uploading", !.key = key,
                                !.webcam = webcam, !.cut = cut]
  <2>1. r.status = "uploading"
    BY Zenon DEF NoRow
  <2>2. /\ row' = [row EXCEPT ![v] = r] /\ row[v].status = "none"
        /\ object' = object /\ retired' = retired /\ task' = task
    BY <1>1 DEF Insert
  <2> HIDE DEF r
  <2>3. /\ \A w \in Videos \ {v} : row'[w] = row[w]
        /\ row'[v].status = "uploading"
    BY <1>t, <2>1, <2>2 DEF TypeInv, TypeOK
  <2>4. EnvStep
    BY <2>2, <2>3 DEF EnvStep, Stored
  <2>5. ASSUME NEW w \in Videos PROVE RowOK(w)'
    BY <2>2, <2>3, FileInvIs DEF RowOK, Stored
  <2> QED
    BY <1>t, <2>2, <2>4, <2>5, FileStepSameTasks
<1>2. CASE Create(v) \/ Upload(v)
  <2>1. 0 \in Int /\ Nil \in Int /\ FALSE \in BOOLEAN
    BY DEF Nil
  <2> QED
    BY <1>1, <1>2, <2>1 DEF Create, Upload
<1>3. CASE Finalize(v)
  BY <1>3, FinalizeFile
<1>4. ASSUME NEW k \in Formats \cup {"cam"}, ClientPut(v, k)
      PROVE  FileInv'
  <2>1. /\ row' = row /\ retired' = retired /\ task' = task /\ Put(v, k, 0)
        /\ k \in Formats \cup Extras /\ 0 \in Nat
    BY <1>4 DEF ClientPut, Extras
  <2>2. KeepsClaim /\ KeepsKey /\ KeepsFiles
    BY <1>t, <2>1, KeepsClaimSame, KeepsFilesPut
  <2> QED
    BY <1>t, <2>1, <2>2, CalmStep, FileStepSameTasks
<1>5. ASSUME NEW t \in Tasks, RequestEdit(t, v)
      PROVE  FileInv'
  <2> DEFINE n == NewTask("edit", v, "claim")
  <2>1. n \in Task /\ n.pc = "claim" /\ n.kind = "edit"
    BY <1>t, NewTaskType DEF TypeInv, Kinds, Pcs
  <2>2. /\ [n EXCEPT !.length = row[v].cut + 1].pc = "claim"
        /\ [n EXCEPT !.length = row[v].cut + 1].kind = "edit"
    BY <2>1 DEF Task
  <2>3. task' = [task EXCEPT ![t] = [n EXCEPT !.length = row[v].cut + 1]]
    BY <1>5 DEF RequestEdit
  <2> HIDE DEF n
  <2>4. /\ \A u \in Tasks \ {t} : task'[u] = task[u]
        /\ task'[t].pc = "claim" /\ task'[t].kind = "edit"
    BY <1>t, <2>2, <2>3 DEF TypeInv, TypeOK
  <2>5. TaskOK(t)'
    BY <2>4 DEF TaskOK, PurgePcs, EncodePcs
  <2>6. KeepsClaim /\ KeepsKey /\ KeepsFiles /\ retired' = retired
    BY <1>t, <1>5, KeepsClaimSame, KeepsFilesSame DEF RequestEdit
  <2> QED
    BY <1>t, <2>4, <2>5, <2>6, CalmStep, FileStep
<1>6. ASSUME NEW t \in Tasks, ResetThumbnail(t, v)
      PROVE  FileInv'
  <2>1. "thumb" \in Kinds /\ "thumb" \in Pcs
    BY DEF Kinds, Pcs
  <2>2. /\ \A u \in Tasks \ {t} : task'[u] = task[u]
        /\ task'[t] = NewTask("thumb", v, "thumb")
    BY <1>t, <1>6, <2>1, StartType DEF ResetThumbnail
  <2>3. task'[t].pc = "thumb" /\ task'[t].kind = "thumb"
    BY <1>t, <2>1, <2>2, NewTaskType DEF TypeInv
  <2>4. TaskOK(t)'
    BY <2>3 DEF TaskOK, PurgePcs, EncodePcs
  <2>5. KeepsClaim /\ KeepsKey /\ KeepsFiles /\ retired' = retired
    BY <1>t, <1>6, KeepsClaimSame, KeepsFilesSame DEF ResetThumbnail
  <2> QED
    BY <1>t, <2>2, <2>4, <2>5, CalmStep, FileStep
<1>7. ASSUME NEW t \in Tasks, NEW kind \in {"purge", "batch"}, MarkDeleted(t, v, kind)
      PROVE  FileInv'
  <2>1. /\ \A w \in Videos \ {v} : row'[w] = row[w]
        /\ row'[v].status = "deleted" /\ row[v].status # "none"
        /\ row'[v].key = row[v].key
    BY <1>t, <1>7, StatusUpdateType DEF MarkDeleted
  <2>2. /\ retired'[v] /\ \A w \in Videos \ {v} : retired'[w] = retired[w]
        /\ object' = object
    BY <1>t, <1>7 DEF MarkDeleted, TypeInv, TypeOK
  <2>3. EnvStep /\ \A w \in Videos : RowOK(w)'
    BY <2>1, <2>2, RetiredStep
  <2>4. StartPurge(t, v, kind, KnownExtras(v)) /\ KnownExtras(v) \in SUBSET Extras
    BY <1>7 DEF MarkDeleted, KnownExtras
  <2>5. /\ \A u \in Tasks \ {t} : task'[u] = task[u]
        /\ task'[t].pc = "purgeFile" /\ task'[t].kind = kind
        /\ task'[t].video = v
    BY <1>t, <2>4, PurgeStartType
  <2>6. TaskOK(t)'
    BY <2>2, <2>5 DEF TaskOK, PurgePcs, EncodePcs
  <2> QED
    BY <1>t, <2>3, <2>5, <2>6, FileStep
<1> QED
  BY <1>2, <1>3, <1>4, <1>5, <1>6, <1>7 DEF Request, Delete, BatchDelete

LEMMA WorkerFile ==
  ASSUME EditInv, FileInv, TypeInv', NEW v \in Videos, Worker(v)
  PROVE  FileInv'
<1>t. TypeInv
  BY DEF EditInv, TypeInv
<1>1. CASE AbandonStaleUpload(v)
  <2>1. /\ \A w \in Videos \ {v} : row'[w] = row[w]
        /\ row'[v].status = "deleted" /\ row[v].status # "none"
        /\ row'[v].key = row[v].key
    BY <1>t, <1>1, StatusUpdateType DEF AbandonStaleUpload
  <2>2. /\ retired'[v] /\ \A w \in Videos \ {v} : retired'[w] = retired[w]
        /\ object' = object /\ task' = task
    BY <1>t, <1>1 DEF AbandonStaleUpload, TypeInv, TypeOK
  <2>3. EnvStep /\ \A w \in Videos : RowOK(w)'
    BY <2>1, <2>2, RetiredStep
  <2> QED
    BY <1>t, <2>2, <2>3, FileStepSameTasks
<1>2. ASSUME NEW t \in Tasks, PurgeOrphan(t, v)
      PROVE  FileInv'
  <2>1. KeepsClaim /\ KeepsKey /\ KeepsFiles /\ retired' = retired
    BY <1>t, <1>2, KeepsClaimSame, KeepsFilesSame DEF PurgeOrphan
  <2>2. retired'[v]
    BY <1>2, FileInvIs DEF PurgeOrphan, RowOK
  <2>3. /\ StartPurge(t, v, "clean", KnownExtras(v) \ {"cam"})
        /\ KnownExtras(v) \ {"cam"} \in SUBSET Extras
    BY <1>2 DEF PurgeOrphan, KnownExtras
  <2>4. /\ \A u \in Tasks \ {t} : task'[u] = task[u]
        /\ task'[t].pc = "purgeFile" /\ task'[t].kind = "clean"
        /\ task'[t].video = v
    BY <1>t, <2>3, PurgeStartType
  <2>5. TaskOK(t)'
    BY <2>2, <2>4 DEF TaskOK, PurgePcs, EncodePcs
  <2> QED
    BY <1>t, <2>1, <2>4, <2>5, CalmStep, FileStep
<1>3. ASSUME NEW t \in Tasks, NEW kind \in EncodeKinds, EncodeScan(t, v, kind)
      PROVE  FileInv'
  <2>1. kind \in Kinds /\ "check" \in Pcs
    BY DEF EncodeKinds, Kinds, Pcs
  <2>2. /\ row[v].status = "ready" /\ row' = row
        /\ kind = "transcode" => row[v].key = "webm"
    BY <1>3 DEF EncodeScan, Wants
  <2>3. /\ \A u \in Tasks \ {t} : task'[u] = task[u]
        /\ task'[t] = NewTask(kind, v, "check")
    BY <1>t, <1>3, <2>1, StartType DEF EncodeScan
  <2>4. /\ task'[t].pc = "check" /\ task'[t].kind = kind /\ task'[t].video = v
        /\ task'[t].key = row[v].key
    BY <1>t, <2>1, <2>3, NewTaskType DEF TypeInv
  <2>5. TaskOK(t)'
    BY <2>2, <2>4 DEF TaskOK, PurgePcs
  <2>6. KeepsClaim /\ KeepsKey /\ KeepsFiles /\ retired' = retired
    BY <1>t, <1>3, KeepsClaimSame, KeepsFilesSame DEF EncodeScan
  <2> QED
    BY <1>t, <2>3, <2>5, <2>6, CalmStep, FileStep
<1> QED
  BY <1>1, <1>2, <1>3 DEF Worker

LEMMA SweepFile ==
  ASSUME EditInv, FileInv, ResetStuckProcessing
  PROVE  FileInv'
<1>t. TypeInv
  BY DEF EditInv, TypeInv
<1>1. \A v \in Videos : /\ Freed(row[v], FALSE).status = "ready"
                        /\ Freed(row[v], FALSE).key = row[v].key
  BY <1>t, FreedType DEF TypeInv, TypeOK
<1>2. \A v \in Videos :
        \/ row'[v] = row[v]
        \/ /\ row[v].status = "processing" /\ row'[v].status = "ready"
           /\ row'[v].key = row[v].key
  BY <1>1 DEF ResetStuckProcessing, Stuck
<1>3. object' = object /\ retired' = retired /\ task' = task
  BY DEF ResetStuckProcessing
<1>4. EnvStep
  BY <1>2, <1>3 DEF EnvStep, Stored
<1>5. ASSUME NEW v \in Videos PROVE RowOK(v)'
  BY <1>2, <1>3, FileInvIs DEF RowOK, Stored
<1> QED
  BY <1>t, <1>3, <1>4, <1>5, FileStepSameTasks

LEMMA TickFile ==
  ASSUME EditInv, FileInv, Tick
  PROVE  FileInv'
<1>t. TypeInv
  BY DEF EditInv, TypeInv
<1>1. ASSUME NEW v \in Videos
      PROVE  row'[v].status = row[v].status /\ row'[v].key = row[v].key
  <2>1. /\ [row[v] EXCEPT !.started = @ + 1].status = row[v].status
        /\ [row[v] EXCEPT !.started = @ + 1].key = row[v].key
    BY <1>t DEF TypeInv, TypeOK, Row
  <2> QED
    BY <2>1 DEF Tick
<1>2. ASSUME NEW t \in Tasks
      PROVE  /\ task'[t].video = task[t].video /\ task'[t].pc = task[t].pc
             /\ task'[t].kind = task[t].kind /\ task'[t].key = task[t].key
             /\ task'[t].cut = task[t].cut
  <2> DEFINE n == [task[t] EXCEPT !.age = @ + 1]
  <2>1. /\ n.video = task[t].video /\ n.pc = task[t].pc
        /\ n.kind = task[t].kind /\ n.key = task[t].key /\ n.cut = task[t].cut
    BY <1>t DEF TypeInv, TypeOK, Task
  <2>2. task'[t] = n \/ task'[t] = task[t]
    BY DEF Tick
  <2> HIDE DEF n
  <2> QED
    BY <2>1, <2>2
<1>3. object' = object /\ retired' = retired
  BY DEF Tick
<1>4. ASSUME NEW v \in Videos PROVE RowOK(v)'
  BY <1>1, <1>3, FileInvIs DEF RowOK, Stored
<1>5. ASSUME NEW t \in Tasks PROVE TaskOK(t)'
  <2>1. task[t].pc = "idle" \/ task[t].video \in Videos
    BY <1>t DEF TypeInv, TasksHaveVideos
  <2> QED
    BY <1>1, <1>2, <1>3, <2>1, FileInvIs DEF TaskOK, Stored, PurgePcs, EncodePcs
<1> QED
  BY <1>4, <1>5, FileInvPrimed

LEMMA FileInit == Init => FileInv
<1> SUFFICES ASSUME Init PROVE FileInv
  OBVIOUS
<1>1. \A t \in Tasks : task[t].pc = "idle" /\ task[t].kind = "idle"
  BY DEF Init, StoreInit, IdleTask
<1>2. \A v \in Videos : row[v].status = "none"
  BY DEF Init, StoreInit, NoRow
<1>3. \A v \in Videos, k \in Formats : object[v][k] = Nil
  BY DEF Init, StoreInit
<1> QED
  BY <1>1, <1>2, <1>3, FileInvIs DEF RowOK, TaskOK, PurgePcs, EncodePcs

LEMMA FileNext == EditInv /\ FileInv /\ [Next]_vars => FileInv'
<1> SUFFICES ASSUME EditInv, FileInv, [Next]_vars PROVE FileInv'
  OBVIOUS
<1>t. TypeInv /\ TypeInv'
  BY TypeStep DEF EditInv, TypeInv
<1>1. ASSUME NEW v \in Videos, Request(v) \/ Worker(v) PROVE FileInv'
  BY <1>t, <1>1, RequestFile, WorkerFile
<1>2. ASSUME NEW t \in Tasks, TaskStep(t) PROVE FileInv'
  BY <1>t, <1>2, EditFile, EncodeFile, PurgeFileSteps DEF TaskStep
<1>3. ASSUME NEW t \in Tasks, Crash(t) PROVE FileInv'
  <2>1. KeepsClaim /\ KeepsKey /\ KeepsFiles /\ retired' = retired
    BY <1>t, <1>3, KeepsClaimSame, KeepsFilesSame DEF Crash
  <2>2. (\A u \in Tasks \ {t} : task'[u] = task[u]) /\ TaskOK(t)'
    BY <1>t, <1>3, TaskOKEnd DEF Crash
  <2> QED
    BY <1>t, <2>1, <2>2, CalmStep, FileStep
<1>4. CASE ResetStuckProcessing
  BY <1>4, SweepFile
<1>5. CASE Tick
  BY <1>5, TickFile
<1>6. CASE UNCHANGED vars
  BY <1>t, <1>6, KeepsClaimSame, KeepsFilesSame, CalmStep, FileStepSameTasks DEF vars
<1> QED
  BY <1>1, <1>2, <1>3, <1>4, <1>5, <1>6 DEF Next

\* A ready video that nobody deleted has its file.
THEOREM ReadyIsPlayable == Spec => []PlayableUntilDeleted
<1>1. Init => EditInv /\ FileInv
  BY EditInvInit, FileInit
<1>2. EditInv /\ FileInv /\ [Next]_vars => (EditInv /\ FileInv)'
  BY EditInvStep, FileNext
<1>3. FileInv => PlayableUntilDeleted
  BY DEF FileInv, RowFileStored, PlayableUntilDeleted
<1> QED
  BY <1>1, <1>2, <1>3, PTL DEF Spec
-----------------------------------------------------------------------------
(***************************************************************************)
(* The budget of attempts.  A goroutine that has passed the check is as    *)
(* good as a failure: AttemptsCounted counts it with the failures that the *)
(* row counts, and the check only lets it in below the budget.             *)
(***************************************************************************)

\* A step that counts no failure, and one that no attempt begins in.
AttemptsKept == \A w \in Videos : row'[w].attempts \in {row[w].attempts, 0}

NoNewAttempt ==
  \A u \in Tasks : task'[u].pc \in AttemptPcs =>
    task[u].pc \in AttemptPcs /\ task'[u].video = task[u].video

LEMMA AttemptingFinite ==
  ASSUME NEW jobs, NEW v
  PROVE  /\ IsFiniteSet(Attempting(jobs, v))
         /\ Cardinality(Attempting(jobs, v)) \in Nat /\ Cardinality(Tasks) \in Nat
         /\ Cardinality(Attempting(jobs, v)) <= Cardinality(Tasks)
<1>1. Attempting(jobs, v) \in SUBSET Tasks
  BY DEF Attempting
<1> QED
  BY <1>1, TasksAssumption, FS_Subset, FS_CardinalityType

LEMMA AttemptsNat ==
  ASSUME TypeInv
  PROVE  \A v \in Videos : row[v].attempts \in Nat
BY DEF TypeInv, TypeOK, Row

LEMMA FewerAttempting ==
  ASSUME NoNewAttempt, NEW v
  PROVE  /\ Attempting(task', v) \subseteq Attempting(task, v)
         /\ Cardinality(Attempting(task', v)) <= Cardinality(Attempting(task, v))
<1>1. Attempting(task', v) \in SUBSET Attempting(task, v)
  BY DEF Attempting, NoNewAttempt
<1> QED
  BY <1>1, AttemptingFinite, FS_Subset

LEMMA AttemptsBy ==
  ASSUME \A v \in Videos :
           row'[v].attempts + Cardinality(Attempting(task', v))
             <= MaxTranscodeAttempts + Cardinality(Tasks) - 1
  PROVE  AttemptsCounted'
BY DEF AttemptsCounted, Attempting

\* No failure is counted and no attempt begins.
LEMMA CalmAttempts ==
  ASSUME TypeInv, AttemptsCounted, AttemptsKept, NoNewAttempt
  PROVE  AttemptsCounted'
<1>1. ASSUME NEW v \in Videos
      PROVE  row'[v].attempts + Cardinality(Attempting(task', v))
               <= MaxTranscodeAttempts + Cardinality(Tasks) - 1
  <2>1. row[v].attempts \in Nat /\ MaxTranscodeAttempts \in Nat \ {0}
    BY AttemptsNat, BoundAssumption
  <2>2. /\ Cardinality(Attempting(task, v)) \in Nat
        /\ Cardinality(Attempting(task', v)) \in Nat
        /\ Cardinality(Tasks) \in Nat
        /\ Cardinality(Attempting(task', v)) <= Cardinality(Tasks)
        /\ Cardinality(Attempting(task', v)) <= Cardinality(Attempting(task, v))
    BY AttemptingFinite, FewerAttempting
  <2>3. /\ row'[v].attempts \in {row[v].attempts, 0}
        /\ row[v].attempts + Cardinality(Attempting(task, v))
             <= MaxTranscodeAttempts + Cardinality(Tasks) - 1
    BY DEF AttemptsKept, AttemptsCounted
  <2> QED
    BY <2>1, <2>2, <2>3
<1> QED
  BY <1>1, AttemptsBy

LEMMA AttemptsKeptSame ==
  ASSUME row' = row
  PROVE  AttemptsKept
BY DEF AttemptsKept

LEMMA AttemptsKeptUpdate ==
  ASSUME TypeInv, NEW v \in Videos, NEW r, row' = [row EXCEPT ![v] = r],
         r.attempts \in {row[v].attempts, 0}
  PROVE  AttemptsKept
BY DEF TypeInv, TypeOK, AttemptsKept

LEMMA ColumnsKept ==
  ASSUME NEW r \in Row, NEW c, NEW d
  PROVE  /\ [r EXCEPT !.status = c].attempts = r.attempts
         /\ [r EXCEPT !.started = c].attempts = r.attempts
         /\ [r EXCEPT !.cut = c].attempts = r.attempts
         /\ [r EXCEPT !.thumb = c].attempts = r.attempts
         /\ [r EXCEPT !.transcript = c].attempts = r.attempts
         /\ [r EXCEPT !.normalized = c].attempts = r.attempts
         /\ [r EXCEPT !.purged = c].attempts = r.attempts
         /\ Claimed(r).attempts = r.attempts
         /\ Freed(r, c).attempts = r.attempts
         /\ [Freed(r, c) EXCEPT !.cut = d].attempts = r.attempts
         /\ Repointed(r).attempts = r.attempts
BY Zenon DEF Row, Claimed, Freed, Repointed

LEMMA OneMoves ==
  ASSUME NEW t \in Tasks, \A u \in Tasks \ {t} : task'[u] = task[u],
         task'[t].pc \notin AttemptPcs
  PROVE  NoNewAttempt
BY DEF NoNewAttempt

LEMMA Moves ==
  ASSUME TypeInv, NEW t \in Tasks, NEW pc, NEW c, Take(t, pc, c)
  PROVE  /\ \A u \in Tasks \ {t} : task'[u] = task[u]
         /\ task'[t].pc = pc /\ task'[t].video = task[t].video
<1>1. task[t] \in Task
  BY DEF TypeInv, TypeOK
<1>2. Moved(task[t], pc, c).pc = pc /\ Moved(task[t], pc, c).video = task[t].video
  BY <1>1, Zenon DEF Moved, Task
<1>3. task' = [task EXCEPT ![t] = Moved(task[t], pc, c)]
  BY DEF Take
<1> QED
  BY <1>2, <1>3 DEF TypeInv, TypeOK

LEMMA Ends ==
  ASSUME TypeInv, NEW t \in Tasks, End(t)
  PROVE  /\ \A u \in Tasks \ {t} : task'[u] = task[u]
         /\ task'[t].pc \notin AttemptPcs
BY EndType DEF AttemptPcs

LEMMA NoAttemptAt ==
  ASSUME TypeInv, NEW t \in Tasks, NEW pc, pc \notin AttemptPcs,
         \/ Goto(t, pc) \/ End(t)
         \/ \E c : Take(t, pc, c)
  PROVE  NoNewAttempt
BY Moves, Ends, OneMoves DEF Goto

\* An attempt that goes on.
LEMMA AttemptGoesOn ==
  ASSUME TypeInv, NEW t \in Tasks, NEW pc, NEW c, Take(t, pc, c),
         task[t].pc \in AttemptPcs
  PROVE  NoNewAttempt
BY Moves DEF NoNewAttempt

\* What an edit, its thumbnail and its transcription write of a row.
LEMMA EditAttempts ==
  ASSUME TypeInv, NEW t \in Tasks, EditStep(t)
  PROVE  AttemptsKept /\ NoNewAttempt
<1> DEFINE v == task[t].video
<1>0. /\ task[t] \in Task
      /\ task[t].pc # "idle" => v \in Videos /\ row[v] \in Row
  BY DEF TypeInv, TypeOK, TasksHaveVideos
<1>1. ASSUME v \in Videos, row[v] \in Row, NEW r, row' = [row EXCEPT ![v] = r],
             r.attempts = row[v].attempts
      PROVE  AttemptsKept
  BY <1>1, AttemptsKeptUpdate
<1>2. \A pc \in {"download", "upload", "dropCam", "publish", "fallback", "thumbRow", "enqueue"} :
        pc \notin AttemptPcs
  BY DEF AttemptPcs
<1>3. CASE row' = row /\ ~Publish(t)
  <2>1. AttemptsKept
    BY <1>3, AttemptsKeptSame
  <2>2. NoNewAttempt
    BY <1>2, <1>3, NoAttemptAt DEF EditStep, ClaimEdit, RefuseEdit, EditDownload, EditUpload,
       EditFail, DropWebcam, PublishFail, Fallback, ThumbnailUpload, ThumbnailRow,
       ThumbnailFail, AfterThumbnail, EditEnqueue
  <2> QED
    BY <2>1, <2>2
<1>4. CASE ClaimEdit(t)
  <2>1. v \in Videos /\ row[v] \in Row
    BY <1>0, <1>4 DEF ClaimEdit, At
  <2>2. AttemptsKept
    BY <1>1, <1>4, <2>1, ColumnsKept DEF ClaimEdit, ClaimRow
  <2> QED
    BY <1>2, <1>4, <2>2, NoAttemptAt DEF ClaimEdit
<1>5. CASE Publish(t)
  <2>1. v \in Videos /\ row[v] \in Row
    BY <1>0, <1>5 DEF Publish, At
  <2> DEFINE r == [Freed(row[v], WebcamAfter(t)) EXCEPT !.cut = CutAfter(t)]
  <2>0. row' = [row EXCEPT ![v] = r] /\ r.attempts = row[v].attempts
    BY <1>5, <2>1, ColumnsKept DEF Publish
  <2> HIDE DEF r
  <2>2. AttemptsKept
    BY <1>1, <2>0, <2>1
  <2>3. Thumbnailing(task[t]).pc = "thumb"
    BY <1>0, ThumbnailingType
  <2>4. task' = [task EXCEPT ![t] = Thumbnailing(task[t])]
    BY <1>5 DEF Publish
  <2>5. (\A u \in Tasks \ {t} : task'[u] = task[u]) /\ task'[t].pc \notin AttemptPcs
    BY <2>3, <2>4 DEF TypeInv, TypeOK, AttemptPcs
  <2> QED
    BY <2>2, <2>5, OneMoves
<1>6. CASE Fallback(t)
  <2>1. v \in Videos /\ row[v] \in Row
    BY <1>0, <1>6 DEF Fallback, At
  <2>2. AttemptsKept
    BY <1>1, <1>6, <2>1, ColumnsKept, AttemptsKeptSame DEF Fallback
  <2> QED
    BY <1>2, <1>6, <2>2, NoAttemptAt DEF Fallback
<1>7. CASE ThumbnailRow(t)
  <2>1. v \in Videos /\ row[v] \in Row
    BY <1>0, <1>7 DEF ThumbnailRow, At
  <2>2. row' = [row EXCEPT ![v] = [row[v] EXCEPT !.thumb = TRUE]]
    BY <1>7 DEF ThumbnailRow
  <2>3. AttemptsKept
    BY <1>1, <2>1, <2>2, ColumnsKept
  <2> QED
    BY <1>2, <1>7, <2>3, NoAttemptAt DEF ThumbnailRow, AfterThumbnail
<1>8. CASE EditEnqueue(t)
  <2>1. v \in Videos /\ row[v] \in Row
    BY <1>0, <1>8 DEF EditEnqueue, At
  <2> DEFINE c == IF row[v].status # "deleted" THEN "pending" ELSE row[v].transcript
  <2>2. row' = row \/ row' = [row EXCEPT ![v] = [row[v] EXCEPT !.transcript = c]]
    BY <1>8 DEF EditEnqueue, EnqueueTranscription
  <2> HIDE DEF c
  <2>3. AttemptsKept
    BY <1>1, <2>1, <2>2, ColumnsKept, AttemptsKeptSame
  <2> QED
    BY <1>2, <1>8, <2>3, NoAttemptAt DEF EditEnqueue
<1>9. row' = row \/ ClaimEdit(t) \/ Publish(t) \/ Fallback(t) \/ ThumbnailRow(t) \/ EditEnqueue(t)
  BY DEF EditStep, RefuseEdit, EditDownload, EditUpload, EditFail, DropWebcam,
     PublishFail, ThumbnailUpload, ThumbnailFail
<1> QED
  BY <1>3, <1>4, <1>5, <1>6, <1>7, <1>8, <1>9

\* Below the budget, every goroutine may be at an attempt.
LEMMA AttemptBegins ==
  ASSUME TypeInv, AttemptsCounted, NEW t \in Tasks, EncodeCheck(t)
  PROVE  AttemptsCounted'
<1>1. CASE End(t)
  BY <1>1, NoAttemptAt, AttemptsKeptSame, CalmAttempts DEF EncodeCheck, AttemptPcs
<1>2. CASE Goto(t, "fetch") /\ StillNeeded(t)
  <2>1. row' = row /\ row[task[t].video].attempts < MaxTranscodeAttempts
    BY <1>2 DEF EncodeCheck, StillNeeded
  <2>2. task'[t].video = task[t].video /\ \A u \in Tasks \ {t} : task'[u] = task[u]
    BY <1>2, Moves DEF Goto
  <2>3. ASSUME NEW v \in Videos
        PROVE  row'[v].attempts + Cardinality(Attempting(task', v))
                 <= MaxTranscodeAttempts + Cardinality(Tasks) - 1
    <3>1. row[v].attempts \in Nat /\ MaxTranscodeAttempts \in Nat \ {0}
      BY AttemptsNat, BoundAssumption
    <3>2. /\ Cardinality(Attempting(task, v)) \in Nat
          /\ Cardinality(Attempting(task', v)) \in Nat
          /\ Cardinality(Tasks) \in Nat
          /\ Cardinality(Attempting(task', v)) <= Cardinality(Tasks)
      BY AttemptingFinite
    <3>3. CASE v = task[t].video
      BY <2>1, <3>1, <3>2, <3>3
    <3>4. CASE v # task[t].video
      <4>1. Attempting(task', v) \in SUBSET Attempting(task, v)
        BY <2>2, <3>4 DEF Attempting
      <4>2. Cardinality(Attempting(task', v)) <= Cardinality(Attempting(task, v))
        BY <4>1, AttemptingFinite, FS_Subset
      <4> QED
        BY <2>1, <3>1, <3>2, <4>2 DEF AttemptsCounted
    <3> QED
      BY <3>3, <3>4
  <2> QED
    BY <2>3, AttemptsBy
<1> QED
  BY <1>1, <1>2 DEF EncodeCheck

\* A failure that is counted is one attempt less.
LEMMA FailureCounted ==
  ASSUME TypeInv, AttemptsCounted, NEW t \in Tasks, RecordTranscodeFailure(t)
  PROVE  AttemptsCounted'
<1> DEFINE w == task[t].video
<1>0. w \in Videos /\ task[t].pc \in AttemptPcs
  BY DEF TypeInv, TasksHaveVideos, RecordTranscodeFailure, At, AttemptPcs
<1>1. (\A u \in Tasks \ {t} : task'[u] = task[u]) /\ task'[t].pc \notin AttemptPcs
  BY Ends DEF RecordTranscodeFailure
<1>2. NoNewAttempt
  BY <1>1, OneMoves
<1>3. CASE row' = row
  BY <1>2, <1>3, AttemptsKeptSame, CalmAttempts
<1>4. ASSUME NEW n \in {MaxTranscodeAttempts, row[w].attempts + 1},
             row' = [row EXCEPT ![w].attempts = n]
      PROVE  AttemptsCounted'
  <2> DEFINE r == [row[w] EXCEPT !.attempts = n]
  <2>1. row[w] \in Row /\ row' = [row EXCEPT ![w] = r]
    BY <1>0, <1>4 DEF TypeInv, TypeOK
  <2>2. r.attempts = n
    BY <2>1 DEF Row
  <2> HIDE DEF r
  <2>3. row'[w].attempts = n /\ \A v \in Videos \ {w} : row'[v] = row[v]
    BY <1>0, <2>1, <2>2 DEF TypeInv, TypeOK
  <2>4. ASSUME NEW v \in Videos
        PROVE  row'[v].attempts + Cardinality(Attempting(task', v))
                 <= MaxTranscodeAttempts + Cardinality(Tasks) - 1
    <3>1. row[v].attempts \in Nat /\ MaxTranscodeAttempts \in Nat \ {0}
      BY AttemptsNat, BoundAssumption
    <3>2. /\ Cardinality(Attempting(task, v)) \in Nat
          /\ Cardinality(Attempting(task', v)) \in Nat
          /\ Cardinality(Tasks) \in Nat
          /\ Cardinality(Attempting(task, v)) <= Cardinality(Tasks)
          /\ Cardinality(Attempting(task', v)) <= Cardinality(Attempting(task, v))
          /\ row[v].attempts + Cardinality(Attempting(task, v))
               <= MaxTranscodeAttempts + Cardinality(Tasks) - 1
      BY <1>2, AttemptingFinite, FewerAttempting DEF AttemptsCounted
    <3>3. CASE v = w
      <4>1. /\ t \in Attempting(task, v)
            /\ Attempting(task', v) \in SUBSET (Attempting(task, v) \ {t})
        BY <1>0, <1>1, <1>2, <3>3 DEF Attempting, NoNewAttempt
      <4>2. /\ IsFiniteSet(Attempting(task, v) \ {t})
            /\ Cardinality(Attempting(task, v) \ {t}) = Cardinality(Attempting(task, v)) - 1
        BY <4>1, AttemptingFinite, FS_RemoveElement
      <4>3. Cardinality(Attempting(task', v)) <= Cardinality(Attempting(task, v)) - 1
        BY <4>1, <4>2, FS_Subset
      <4> QED
        BY <2>3, <3>1, <3>2, <3>3, <4>3
    <3>4. CASE v # w
      BY <2>3, <3>1, <3>2, <3>4
    <3> QED
      BY <3>3, <3>4
  <2> QED
    BY <2>4, AttemptsBy
<1> QED
  BY <1>3, <1>4 DEF RecordTranscodeFailure

\* Every other step of an encoding or of a probe.
LEMMA EncodeAttempts ==
  ASSUME TypeInv, AttemptsCounted, NEW t \in Tasks, EncodeStep(t)
  PROVE  AttemptsCounted'
<1> DEFINE v == task[t].video
<1>0. task[t].pc # "idle" => v \in Videos /\ row[v] \in Row
  BY DEF TypeInv, TypeOK, TasksHaveVideos
<1>1. ASSUME v \in Videos, row[v] \in Row, NEW r, row' = [row EXCEPT ![v] = r],
             r.attempts \in {row[v].attempts, 0}
      PROVE  AttemptsKept
  BY <1>1, AttemptsKeptUpdate
<1>2. \A pc \in {"dropOld", "clear", "probeRow"} : pc \notin AttemptPcs
  BY DEF AttemptPcs
<1>3. CASE EncodeCheck(t)
  BY <1>3, AttemptBegins
<1>4. CASE RecordTranscodeFailure(t)
  BY <1>4, FailureCounted
<1>5. CASE EncodeFetch(t) \/ EncodeUpload(t) \/ EncodeFail(t)
  <2>1. task[t].pc \in AttemptPcs /\ row' = row
    BY <1>5 DEF EncodeFetch, EncodeUpload, EncodeFail, At, AttemptPcs
  <2>2. NoNewAttempt
    BY <1>5, <2>1, AttemptGoesOn DEF EncodeFetch, EncodeUpload, EncodeFail, Goto
  <2> QED
    BY <2>1, <2>2, AttemptsKeptSame, CalmAttempts
<1>6. CASE DropWebM(t) \/ ProbeFile(t)
  <2>1. NoNewAttempt /\ row' = row
    BY <1>2, <1>6, NoAttemptAt DEF DropWebM, ProbeFile
  <2> QED
    BY <2>1, AttemptsKeptSame, CalmAttempts
<1>7. CASE MarkNormalized(t)
  <2>1. v \in Videos /\ row[v] \in Row
    BY <1>0, <1>7 DEF MarkNormalized, At
  <2>2. row' = [row EXCEPT ![v] = [row[v] EXCEPT !.normalized = TRUE]] /\ End(t)
    BY <1>7 DEF MarkNormalized
  <2>3. AttemptsKept
    BY <1>1, <2>1, <2>2, ColumnsKept
  <2> QED
    BY <1>2, <2>2, <2>3, NoAttemptAt, CalmAttempts
<1>8. CASE EncodeRow(t)
  <2>1. v \in Videos /\ row[v] \in Row
    BY <1>0, <1>8 DEF EncodeRow, At
  <2>2. \/ row' = [row EXCEPT ![v] = Repointed(row[v])]
        \/ row' = [row EXCEPT ![v] = [row[v] EXCEPT !.normalized = TRUE]]
    BY <1>8 DEF EncodeRow
  <2>3. AttemptsKept
    BY <1>1, <2>1, <2>2, ColumnsKept
  <2>4. NoNewAttempt
    BY <1>2, <1>8, NoAttemptAt DEF EncodeRow
  <2> QED
    BY <2>3, <2>4, CalmAttempts
<1>9. CASE ClearTranscodeFailure(t)
  <2>1. v \in Videos /\ row[v] \in Row
    BY <1>0, <1>9 DEF ClearTranscodeFailure, At
  <2> DEFINE r == [row[v] EXCEPT !.attempts = 0]
  <2>2. row' = row \/ row' = [row EXCEPT ![v] = r]
    BY <1>9 DEF ClearTranscodeFailure
  <2>3. r.attempts = 0
    BY <2>1 DEF Row
  <2> HIDE DEF r
  <2>4. AttemptsKept
    BY <1>1, <2>1, <2>2, <2>3, AttemptsKeptSame
  <2>5. NoNewAttempt
    BY <1>2, <1>9, NoAttemptAt DEF ClearTranscodeFailure
  <2> QED
    BY <2>4, <2>5, CalmAttempts
<1>10. CASE ProbeRow(t)
  <2>1. v \in Videos /\ row[v] \in Row
    BY <1>0, <1>10 DEF ProbeRow, At
  <2>2. row' = row \/ row' = [row EXCEPT ![v] = [row[v] EXCEPT !.cut = task[t].cut]]
    BY <1>10 DEF ProbeRow
  <2>3. AttemptsKept
    BY <1>1, <2>1, <2>2, ColumnsKept, AttemptsKeptSame
  <2>4. NoNewAttempt
    BY <1>2, <1>10, NoAttemptAt DEF ProbeRow
  <2> QED
    BY <2>3, <2>4, CalmAttempts
<1> QED
  BY <1>3, <1>4, <1>5, <1>6, <1>7, <1>8, <1>9, <1>10 DEF EncodeStep

LEMMA PurgeAttempts ==
  ASSUME TypeInv, NEW t \in Tasks, PurgeStep(t)
  PROVE  AttemptsKept /\ NoNewAttempt
<1> DEFINE v == task[t].video
<1>1. \A pc \in {"purgeExtras", "purgeMark"} : pc \notin AttemptPcs
  BY DEF AttemptPcs
<1>2. NoNewAttempt
  BY <1>1, NoAttemptAt DEF PurgeStep, PurgeFile, PurgeFail, PurgeExtras, PurgeMark
<1>3. CASE row' = row
  BY <1>2, <1>3, AttemptsKeptSame
<1>4. CASE PurgeMark(t)
  <2>1. v \in Videos /\ row[v] \in Row
    BY <1>4 DEF TypeInv, TypeOK, TasksHaveVideos, PurgeMark, At
  <2> DEFINE c == row[v].purged \/ task[t].kind = "batch" \/ row[v].key = task[t].key
  <2>2. row' = [row EXCEPT ![v] = [row[v] EXCEPT !.purged = c]]
    BY <1>4 DEF PurgeMark
  <2> HIDE DEF c
  <2> DEFINE r == [row[v] EXCEPT !.purged = c]
  <2>3. r.attempts = row[v].attempts
    BY <2>1, ColumnsKept
  <2>4. row' = [row EXCEPT ![v] = r]
    BY <2>2
  <2> HIDE DEF r, v
  <2>5. AttemptsKept
    BY <2>1, <2>3, <2>4, AttemptsKeptUpdate
  <2> QED
    BY <1>2, <2>5
<1> QED
  BY <1>3, <1>4 DEF PurgeStep, PurgeFile, PurgeFail, PurgeExtras

\* A goroutine that is started is not at an attempt.
LEMMA StartedIdle ==
  ASSUME TypeInv, NEW t \in Tasks, NEW v \in Videos, NEW kind, NEW pc, pc \notin AttemptPcs,
         \/ Start(t, kind, v, pc)
         \/ pc = "purgeFile" /\ \E ks : StartPurge(t, v, kind, ks)
         \/ pc = "claim" /\ RequestEdit(t, v)
  PROVE  NoNewAttempt
<1> DEFINE n == NewTask(kind, v, pc)
           m == NewTask("edit", v, pc)
<1>1. \A c : /\ n.pc = pc /\ [n EXCEPT !.extras = c].pc = pc
             /\ [m EXCEPT !.length = c].pc = pc
  BY Zenon DEF NewTask, IdleTask
<1>2. \/ task' = [task EXCEPT ![t] = n]
      \/ \E c : task' = [task EXCEPT ![t] = [n EXCEPT !.extras = c]]
      \/ \E c : task' = [task EXCEPT ![t] = [m EXCEPT !.length = c]]
  BY DEF Start, StartPurge, RequestEdit
<1> HIDE DEF n, m
<1>3. \E job : task' = [task EXCEPT ![t] = job] /\ job.pc = pc
  <2>1. CASE task' = [task EXCEPT ![t] = n]
    <3>1. n.pc = pc
      BY <1>1
    <3> QED BY <2>1, <3>1
  <2>2. ASSUME NEW c, task' = [task EXCEPT ![t] = [n EXCEPT !.extras = c]]
        PROVE  \E job : task' = [task EXCEPT ![t] = job] /\ job.pc = pc
    <3>1. [n EXCEPT !.extras = c].pc = pc
      BY <1>1
    <3> QED BY <2>2, <3>1
  <2>3. ASSUME NEW c, task' = [task EXCEPT ![t] = [m EXCEPT !.length = c]]
        PROVE  \E job : task' = [task EXCEPT ![t] = job] /\ job.pc = pc
    <3>1. [m EXCEPT !.length = c].pc = pc
      BY <1>1
    <3> QED BY <2>3, <3>1
  <2> QED BY <1>2, <2>1, <2>2, <2>3
<1>4. PICK job : task' = [task EXCEPT ![t] = job] /\ job.pc = pc
  BY <1>3
<1>5. task = [u \in Tasks |-> task[u]]
  BY DEF TypeInv, TypeOK
<1>6. (\A u \in Tasks \ {t} : task'[u] = task[u]) /\ task'[t].pc = pc
  BY <1>4, <1>5
<1> QED
  BY <1>6, OneMoves

LEMMA FinalizeAttempts ==
  ASSUME TypeInv, NEW v \in Videos, Finalize(v)
  PROVE  AttemptsKept /\ NoNewAttempt
<1>0. row[v] \in Row
  BY DEF TypeInv, TypeOK
<1>1. PICK c : row' = [row EXCEPT ![v] = [Finalized(row[v]) EXCEPT !.transcript = c]]
  BY DEF Finalize
<1>2. [Finalized(row[v]) EXCEPT !.transcript = c].attempts = row[v].attempts
  <2> DEFINE r == row[v]
             f == Finalized(r)
  <2>1. r \in Row
    BY <1>0
  <2>2. f = Claimed(r) \/ f = Freed(r, FALSE)
    BY DEF Finalized
  <2> HIDE DEF f, r
  <2>3. Claimed(r) \in Row /\ Freed(r, FALSE) \in Row
    BY <2>1, ClaimedType, FreedType
  <2>4. Claimed(r).attempts = r.attempts /\ Freed(r, FALSE).attempts = r.attempts
    BY <2>1, ColumnsKept
  <2>5. f \in Row /\ f.attempts = r.attempts
    BY <2>2, <2>3, <2>4
  <2>6. [f EXCEPT !.transcript = c].attempts = f.attempts
    BY <2>5, ColumnsKept
  <2> QED
    BY <2>5, <2>6 DEF f, r
<1>3. AttemptsKept
  BY <1>1, <1>2, AttemptsKeptUpdate
<1>4. PICK started \in SUBSET Tasks : \E kind \in [started -> JobsOf(v)] :
        task' = [t \in Tasks |->
          IF t \in started THEN NewTask(kind[t], v, FirstPc(kind[t])) ELSE task[t]]
  BY DEF Finalize
<1>5. PICK kind \in [started -> JobsOf(v)] : task' = [t \in Tasks |->
        IF t \in started THEN NewTask(kind[t], v, FirstPc(kind[t])) ELSE task[t]]
  BY <1>4
<1>6. ASSUME NEW u \in started PROVE task'[u].pc \notin AttemptPcs
  <2>1. FirstPc(kind[u]) \notin AttemptPcs
    BY DEF FirstPc, AttemptPcs
  <2>2. NewTask(kind[u], v, FirstPc(kind[u])).pc = FirstPc(kind[u])
    BY Zenon DEF NewTask, IdleTask
  <2> QED
    BY <1>4, <1>5, <2>1, <2>2
<1>7. \A u \in Tasks \ started : task'[u] = task[u]
  BY <1>5
<1> QED
  BY <1>3, <1>6, <1>7 DEF NoNewAttempt

LEMMA RequestAttempts ==
  ASSUME TypeInv, NEW v \in Videos, Request(v) \/ Worker(v)
  PROVE  AttemptsKept /\ NoNewAttempt
<1>0. row[v] \in Row /\ \A pc \in {"thumb", "claim", "purgeFile", "check"} : pc \notin AttemptPcs
  BY DEF TypeInv, TypeOK, AttemptPcs
<1>1. task' = task => NoNewAttempt
  BY DEF NoNewAttempt
<1>2. ASSUME NEW key, NEW webcam, NEW cut, Insert(v, key, webcam, cut)
      PROVE  AttemptsKept /\ NoNewAttempt
  <2> DEFINE r == [NoRow EXCEPT !.status = "uploading", !.key = key,
                                !.webcam = webcam, !.cut = cut]
  <2>1. r.attempts = 0
    BY Zenon DEF NoRow
  <2>2. row' = [row EXCEPT ![v] = r] /\ task' = task
    BY <1>2 DEF Insert
  <2> HIDE DEF r
  <2> QED
    BY <1>1, <2>1, <2>2, AttemptsKeptUpdate
<1>3. CASE Finalize(v)
  BY <1>3, FinalizeAttempts
<1>4. ASSUME NEW k, ClientPut(v, k)
      PROVE  AttemptsKept /\ NoNewAttempt
  BY <1>1, <1>4, AttemptsKeptSame DEF ClientPut
<1>5. ASSUME NEW t \in Tasks, RequestEdit(t, v) \/ ResetThumbnail(t, v)
      PROVE  AttemptsKept /\ NoNewAttempt
  BY <1>0, <1>5, StartedIdle, AttemptsKeptSame DEF ResetThumbnail, RequestEdit
<1>6. row' = [row EXCEPT ![v].status = "deleted"] => AttemptsKept
  <2> DEFINE r == [row[v] EXCEPT !.status = "deleted"]
  <2>1. r.attempts = row[v].attempts
    BY <1>0, ColumnsKept
  <2>2. row' = [row EXCEPT ![v].status = "deleted"] => row' = [row EXCEPT ![v] = r]
    OBVIOUS
  <2> HIDE DEF r
  <2> QED
    BY <2>1, <2>2, AttemptsKeptUpdate
<1>7. ASSUME NEW t \in Tasks, Delete(t, v) \/ BatchDelete(t, v)
      PROVE  AttemptsKept /\ NoNewAttempt
  BY <1>0, <1>6, <1>7, StartedIdle DEF Delete, BatchDelete, MarkDeleted
<1>8. CASE AbandonStaleUpload(v)
  BY <1>1, <1>6, <1>8 DEF AbandonStaleUpload
<1>9. ASSUME NEW t \in Tasks, PurgeOrphan(t, v)
      PROVE  AttemptsKept /\ NoNewAttempt
  BY <1>0, <1>9, StartedIdle, AttemptsKeptSame DEF PurgeOrphan
<1>10. ASSUME NEW t \in Tasks, NEW kind, EncodeScan(t, v, kind)
       PROVE  AttemptsKept /\ NoNewAttempt
  BY <1>0, <1>10, StartedIdle, AttemptsKeptSame DEF EncodeScan
<1> QED
  BY <1>2, <1>3, <1>4, <1>5, <1>7, <1>8, <1>9, <1>10 DEF Request, Worker, Create, Upload

\* The sweep and the clock count nothing.
LEMMA ClockAttempts ==
  ASSUME TypeInv, ResetStuckProcessing \/ Tick
  PROVE  AttemptsKept /\ NoNewAttempt
<1>1. \A v \in Videos : /\ Freed(row[v], FALSE).attempts = row[v].attempts
                        /\ [row[v] EXCEPT !.started = @ + 1].attempts = row[v].attempts
  BY ColumnsKept DEF TypeInv, TypeOK
<1>2. \A u \in Tasks : /\ [task[u] EXCEPT !.age = @ + 1].pc = task[u].pc
                       /\ [task[u] EXCEPT !.age = @ + 1].video = task[u].video
  BY DEF TypeInv, TypeOK, Task
<1>3. AttemptsKept
  BY <1>1 DEF ResetStuckProcessing, Tick, AttemptsKept
<1>4. NoNewAttempt
  BY <1>2 DEF ResetStuckProcessing, Tick, NoNewAttempt
<1> QED
  BY <1>3, <1>4

LEMMA AttemptsInit == Init => AttemptsCounted
<1> SUFFICES ASSUME Init, NEW v \in Videos
             PROVE  row[v].attempts + Cardinality(Attempting(task, v))
                      <= MaxTranscodeAttempts + Cardinality(Tasks) - 1
  BY DEF AttemptsCounted
<1>1. row[v].attempts = 0
  BY DEF Init, StoreInit, NoRow
<1>2. Cardinality(Attempting(task, v)) \in Nat /\ Cardinality(Tasks) \in Nat
  BY AttemptingFinite
<1>3. Attempting(task, v) = {}
  BY DEF Init, StoreInit, IdleTask, Attempting, AttemptPcs
<1>4. Cardinality(Attempting(task, v)) = 0
  BY <1>3, FS_EmptySet
<1> QED
  BY <1>1, <1>2, <1>4, BoundAssumption

LEMMA AttemptsNext == TypeInv /\ AttemptsCounted /\ [Next]_vars => AttemptsCounted'
<1> SUFFICES ASSUME TypeInv, AttemptsCounted, [Next]_vars PROVE AttemptsCounted'
  OBVIOUS
<1>1. ASSUME NEW v \in Videos, Request(v) \/ Worker(v) PROVE AttemptsCounted'
  BY <1>1, RequestAttempts, CalmAttempts
<1>2. ASSUME NEW t \in Tasks, TaskStep(t) PROVE AttemptsCounted'
  BY <1>2, EditAttempts, EncodeAttempts, PurgeAttempts, CalmAttempts DEF TaskStep
<1>3. ASSUME NEW t \in Tasks, Crash(t) PROVE AttemptsCounted'
  <2>1. NoNewAttempt
    BY <1>3, Ends, OneMoves DEF Crash
  <2> QED
    BY <1>3, <2>1, AttemptsKeptSame, CalmAttempts DEF Crash
<1>4. CASE ResetStuckProcessing \/ Tick
  BY <1>4, ClockAttempts, CalmAttempts
<1>5. CASE UNCHANGED vars
  BY <1>5, AttemptsKeptSame, CalmAttempts DEF vars, NoNewAttempt
<1> QED
  BY <1>1, <1>2, <1>3, <1>4, <1>5 DEF Next

\* Goroutines that attempt the same video together overshoot the budget of attempts by
\* one each at most, whatever number of them there is.
THEOREM AttemptsStayBounded == Spec => []AttemptsBounded
<1>1. Init => TypeInv /\ AttemptsCounted
  BY TypeInit, AttemptsInit
<1>2. TypeInv /\ AttemptsCounted /\ [Next]_vars => (TypeInv /\ AttemptsCounted)'
  BY TypeStep, AttemptsNext
<1>3. TypeInv /\ AttemptsCounted => AttemptsBounded
  <2> SUFFICES ASSUME TypeInv, AttemptsCounted, NEW v \in Videos
               PROVE  row[v].attempts <= MaxTranscodeAttempts + Cardinality(Tasks) - 1
    BY DEF AttemptsBounded
  <2>1. /\ row[v].attempts \in Nat /\ MaxTranscodeAttempts \in Nat
        /\ Cardinality(Attempting(task, v)) \in Nat /\ Cardinality(Tasks) \in Nat
    BY AttemptsNat, AttemptingFinite, BoundAssumption
  <2> QED
    BY <2>1 DEF AttemptsCounted
<1> QED
  BY <1>1, <1>2, <1>3, PTL DEF Spec
-----------------------------------------------------------------------------
(***************************************************************************)
(* What the liveness of the videos rests on, besides fairness: goroutines  *)
(* return, and the age of a row in processing runs out.                    *)
(***************************************************************************)
\* How far in its handler a goroutine stands; the end of every handler is "idle".
Stage == [pc \in Pcs |->
  CASE pc \in {"claim", "check", "probe", "purgeFile"}          -> 1
    [] pc \in {"download", "fetch", "probeRow", "purgeExtras"}  -> 2
    [] pc \in {"upload", "put", "purgeMark"}                    -> 3
    [] pc \in {"dropCam", "repoint"}                            -> 4
    [] pc \in {"publish", "dropOld"}                            -> 5
    [] pc \in {"fallback", "thumb", "clear"}                    -> 6
    [] pc \in {"thumbRow", "record", "recordPermanent"}         -> 7
    [] pc = "enqueue"                                           -> 8
    [] OTHER                                                    -> 9]

\* A goroutine's own steps only bring it forward in its handler, whatever fails, and no
\* other step moves it: it returns after at most eight of its own.
StepsGoForward ==
  [][\A t \in Tasks : task[t].pc # "idle" =>
       IF TaskStep(t) \/ Crash(t)
       THEN Stage[task'[t].pc] > Stage[task[t].pc]
       ELSE task'[t].pc = task[t].pc]_vars

LEMMA Stages ==
  /\ Stage["claim"] = 1 /\ Stage["check"] = 1 /\ Stage["probe"] = 1 /\ Stage["purgeFile"] = 1
  /\ Stage["download"] = 2 /\ Stage["fetch"] = 2 /\ Stage["probeRow"] = 2
  /\ Stage["purgeExtras"] = 2 /\ Stage["upload"] = 3 /\ Stage["put"] = 3
  /\ Stage["purgeMark"] = 3 /\ Stage["dropCam"] = 4 /\ Stage["repoint"] = 4
  /\ Stage["publish"] = 5 /\ Stage["dropOld"] = 5 /\ Stage["fallback"] = 6
  /\ Stage["thumb"] = 6 /\ Stage["clear"] = 6 /\ Stage["thumbRow"] = 7
  /\ Stage["record"] = 7 /\ Stage["recordPermanent"] = 7 /\ Stage["enqueue"] = 8
  /\ Stage["idle"] = 9
<1>1. {"claim", "check", "probe", "purgeFile", "download", "fetch", "probeRow", "purgeExtras",
       "upload", "put", "purgeMark", "dropCam", "repoint", "publish", "dropOld", "fallback",
       "thumb", "clear", "thumbRow", "record", "recordPermanent", "enqueue", "idle"} \subseteq Pcs
  BY DEF Pcs, EditPcs
<1>2. /\ Stage["claim"] = 1 /\ Stage["check"] = 1 /\ Stage["probe"] = 1 /\ Stage["purgeFile"] = 1
  BY <1>1 DEF Stage
<1>3. /\ Stage["download"] = 2 /\ Stage["fetch"] = 2 /\ Stage["probeRow"] = 2
      /\ Stage["purgeExtras"] = 2
  BY <1>1 DEF Stage
<1>4. /\ Stage["upload"] = 3 /\ Stage["put"] = 3 /\ Stage["purgeMark"] = 3
      /\ Stage["dropCam"] = 4 /\ Stage["repoint"] = 4
  BY <1>1 DEF Stage
<1>5. /\ Stage["publish"] = 5 /\ Stage["dropOld"] = 5 /\ Stage["fallback"] = 6
      /\ Stage["thumb"] = 6 /\ Stage["clear"] = 6
  BY <1>1 DEF Stage
<1>6. /\ Stage["thumbRow"] = 7 /\ Stage["record"] = 7 /\ Stage["recordPermanent"] = 7
      /\ Stage["enqueue"] = 8 /\ Stage["idle"] = 9
  BY <1>1 DEF Stage
<1> QED
  BY <1>2, <1>3, <1>4, <1>5, <1>6

LEMMA StagesBeforeEnd == \A pc \in Pcs \ {"idle"} : Stage[pc] \in 1 .. 8
<1>1. Pcs \ {"idle"} =
        {"claim", "check", "probe", "purgeFile", "download", "fetch", "probeRow", "purgeExtras",
         "upload", "put", "purgeMark", "dropCam", "repoint", "publish", "dropOld", "fallback",
         "thumb", "clear", "thumbRow", "record", "recordPermanent", "enqueue"}
  BY DEF Pcs, EditPcs
<1> QED
  BY <1>1, Stages

\* One goroutine goes on, and the others stand.
Forward(t) ==
  /\ \A u \in Tasks \ {t} : task'[u] = task[u]
  /\ Stage[task'[t].pc] > Stage[task[t].pc]

LEMMA GoesForward ==
  ASSUME TypeInv, NEW t \in Tasks, NEW pc, Stage[pc] > Stage[task[t].pc],
         Goto(t, pc) \/ \E c : Take(t, pc, c)
  PROVE  Forward(t)
BY Moves DEF Forward, Goto

LEMMA EndsForward ==
  ASSUME TypeInv, NEW t \in Tasks, task[t].pc # "idle", End(t)
  PROVE  Forward(t)
<1>1. task[t].pc \in Pcs
  BY DEF TypeInv, TypeOK, Task
<1>2. Stage[task[t].pc] \in 1 .. 8 /\ Stage["idle"] = 9
  BY <1>1, StagesBeforeEnd, Stages
<1>3. (\A u \in Tasks \ {t} : task'[u] = task[u]) /\ task'[t].pc = "idle"
  BY EndType
<1> QED
  BY <1>2, <1>3 DEF Forward

LEMMA EditForward ==
  ASSUME TypeInv, NEW t \in Tasks, EditStep(t)
  PROVE  Forward(t)
<1>1. CASE ClaimEdit(t)
  BY <1>1, GoesForward, Stages DEF ClaimEdit, At
<1>2. CASE RefuseEdit(t) \/ PublishFail(t) \/ Fallback(t) \/ EditEnqueue(t)
  BY <1>2, EndsForward DEF RefuseEdit, PublishFail, Fallback, EditEnqueue, At
<1>3. CASE EditDownload(t)
  BY <1>3, GoesForward, Stages DEF EditDownload, At
<1>4. CASE EditUpload(t)
  BY <1>4, GoesForward, Stages DEF EditUpload, At
<1>5. CASE EditFail(t)
  BY <1>5, GoesForward, Stages DEF EditFail, At
<1>6. CASE DropWebcam(t)
  BY <1>6, GoesForward, Stages DEF DropWebcam, At
<1>7. CASE Publish(t)
  <2>1. Thumbnailing(task[t]).pc = "thumb"
    BY ThumbnailingType DEF TypeInv, TypeOK
  <2>2. task' = [task EXCEPT ![t] = Thumbnailing(task[t])] /\ task[t].pc = "publish"
    BY <1>7 DEF Publish, At
  <2>3. (\A u \in Tasks \ {t} : task'[u] = task[u]) /\ task'[t].pc = "thumb"
    BY <2>1, <2>2 DEF TypeInv, TypeOK
  <2> QED
    BY <2>2, <2>3, Stages DEF Forward
<1>8. CASE ThumbnailUpload(t)
  BY <1>8, GoesForward, Stages DEF ThumbnailUpload, At
<1>9. CASE ThumbnailRow(t) \/ ThumbnailFail(t)
  <2>1. AfterThumbnail(t) /\ task[t].pc \in {"thumb", "thumbRow"}
    BY <1>9 DEF ThumbnailRow, ThumbnailFail, At
  <2>2. CASE End(t)
    BY <2>1, <2>2, EndsForward
  <2>3. CASE Goto(t, "enqueue")
    BY <2>1, <2>3, GoesForward, Stages
  <2> QED
    BY <2>1, <2>2, <2>3 DEF AfterThumbnail
<1> QED
  BY <1>1, <1>2, <1>3, <1>4, <1>5, <1>6, <1>7, <1>8, <1>9 DEF EditStep

LEMMA EncodeForward ==
  ASSUME TypeInv, NEW t \in Tasks, EncodeStep(t)
  PROVE  Forward(t)
<1>1. CASE EncodeCheck(t)
  BY <1>1, GoesForward, EndsForward, Stages DEF EncodeCheck, At
<1>2. CASE EncodeFetch(t)
  BY <1>2, GoesForward, Stages DEF EncodeFetch, At
<1>3. CASE EncodeUpload(t)
  BY <1>3, GoesForward, Stages DEF EncodeUpload, At
<1>4. CASE EncodeRow(t)
  BY <1>4, GoesForward, Stages DEF EncodeRow, At
<1>5. CASE DropWebM(t)
  BY <1>5, GoesForward, Stages DEF DropWebM, At
<1>6. CASE MarkNormalized(t) \/ ClearTranscodeFailure(t) \/ RecordTranscodeFailure(t) \/ ProbeRow(t)
  BY <1>6, EndsForward DEF MarkNormalized, ClearTranscodeFailure, RecordTranscodeFailure,
     ProbeRow, At
<1>7. CASE EncodeFail(t)
  BY <1>7, GoesForward, Stages DEF EncodeFail, At
<1>8. CASE ProbeFile(t)
  BY <1>8, GoesForward, EndsForward, Stages DEF ProbeFile, At
<1> QED
  BY <1>1, <1>2, <1>3, <1>4, <1>5, <1>6, <1>7, <1>8 DEF EncodeStep

LEMMA PurgeForward ==
  ASSUME TypeInv, NEW t \in Tasks, PurgeStep(t)
  PROVE  Forward(t)
<1>1. CASE PurgeFile(t)
  BY <1>1, GoesForward, Stages DEF PurgeFile, At
<1>2. CASE PurgeExtras(t)
  BY <1>2, GoesForward, Stages DEF PurgeExtras, At
<1>3. CASE PurgeFail(t) \/ PurgeMark(t)
  BY <1>3, EndsForward DEF PurgeFail, PurgeMark, At
<1> QED
  BY <1>1, <1>2, <1>3 DEF PurgeStep

LEMMA OwnStep ==
  ASSUME TypeInv, NEW t \in Tasks, TaskStep(t) \/ Crash(t)
  PROVE  Forward(t)
BY EditForward, EncodeForward, PurgeForward, EndsForward DEF TaskStep, Crash

\* Requests and workers only start goroutines in free slots.
LEMMA StartsInFreeSlots ==
  ASSUME TypeInv, NEW v \in Videos, Request(v) \/ Worker(v), NEW t \in Tasks,
         task[t].pc # "idle"
  PROVE  task'[t] = task[t]
<1>0. task = [u \in Tasks |-> task[u]]
  BY DEF TypeInv, TypeOK
<1>1. ASSUME NEW u \in Tasks, NEW job, task[u].pc = "idle", task' = [task EXCEPT ![u] = job]
      PROVE  task'[t] = task[t]
  BY <1>0, <1>1
<1>2. CASE task' = task
  BY <1>2
<1>3. CASE Finalize(v)
  BY <1>3 DEF Finalize
<1>4. ASSUME NEW u \in Tasks, \/ RequestEdit(u, v) \/ ResetThumbnail(u, v) \/ PurgeOrphan(u, v)
                              \/ Delete(u, v) \/ BatchDelete(u, v)
                              \/ \E kind \in EncodeKinds : EncodeScan(u, v, kind)
      PROVE  task'[t] = task[t]
  <2>1. task[u].pc = "idle" /\ \E job : task' = [task EXCEPT ![u] = job]
    BY <1>4 DEF RequestEdit, ResetThumbnail, PurgeOrphan, Delete, BatchDelete, MarkDeleted,
       EncodeScan, Start, StartPurge
  <2> QED
    BY <1>1, <2>1
<1> QED
  BY <1>2, <1>3, <1>4 DEF Request, Worker, Create, Upload, Insert, ClientPut, AbandonStaleUpload

LEMMA OthersStep ==
  ASSUME TypeInv, [Next]_vars, NEW t \in Tasks, task[t].pc # "idle",
         ~(TaskStep(t) \/ Crash(t))
  PROVE  task'[t].pc = task[t].pc
<1>1. ASSUME NEW v \in Videos, Request(v) \/ Worker(v)
      PROVE  task'[t] = task[t]
  BY <1>1, StartsInFreeSlots
<1>2. ASSUME NEW u \in Tasks, TaskStep(u) \/ Crash(u)
      PROVE  task'[t] = task[t]
  BY <1>2, OwnStep DEF Forward
<1>3. CASE Tick
  <2>1. [task[t] EXCEPT !.age = @ + 1].pc = task[t].pc
    BY DEF TypeInv, TypeOK, Task
  <2> QED
    BY <1>3, <2>1 DEF Tick
<1>4. CASE ResetStuckProcessing \/ UNCHANGED vars
  BY <1>4 DEF ResetStuckProcessing, vars
<1> QED
  BY <1>1, <1>2, <1>3, <1>4 DEF Next

\* Every goroutine of the videos goes forward through its handler with each of its own
\* steps: for any number of goroutines, each returns after at most eight.
THEOREM GoroutinesReturn == Spec => StepsGoForward
<1>1. TypeInv /\ [Next]_vars => \A t \in Tasks : task[t].pc # "idle" =>
        IF TaskStep(t) \/ Crash(t)
        THEN Stage[task'[t].pc] > Stage[task[t].pc]
        ELSE task'[t].pc = task[t].pc
  BY OwnStep, OthersStep DEF Forward
<1>2. Spec => []TypeInv
  BY TypeInit, TypeStep, PTL DEF Spec
<1> QED
  BY <1>1, <1>2, PTL DEF Spec, StepsGoForward

\* A row in processing has an age the sweep can read, since every claim sets it.
AgesKnown == \A v \in Videos :
  row[v].status = "processing" => row[v].started \in 0 .. StuckAfter

\* Nobody sets the age of a row back that stays in processing: each tick adds to it until
\* the sweep takes the row, which frees every row whose age has run out.
ClockStep == \A v \in Videos :
  row[v].status = "processing" /\ row'[v].status = "processing" =>
    /\ row'[v].started =
         IF Tick /\ row[v].started < StuckAfter THEN row[v].started + 1 ELSE row[v].started
    /\ ResetStuckProcessing => row[v].started < StuckAfter

ProcessingIsTimed == []AgesKnown /\ [][ClockStep]_vars

\* Whatever is no tick leaves the age of a row in processing alone, or starts it.
Aged(v) ==
  row'[v].status = "processing" =>
    row'[v].started = IF row[v].status = "processing" THEN row[v].started ELSE 0

LEMMA SameAge ==
  ASSUME NEW v \in Videos, KeepsClaim \/ row'[v] = row[v]
  PROVE  Aged(v)
BY DEF Aged, KeepsClaim

\* An UPDATE of one row that leaves it out of processing.
LEMMA OneRowAges ==
  ASSUME NEW v \in Videos, \A w \in Videos \ {v} : row'[w] = row[w],
         row'[v].status # "processing"
  PROVE  \A w \in Videos : Aged(w)
BY DEF Aged

LEMMA RequestAges ==
  ASSUME EditInv, NEW v \in Videos, Request(v) \/ Worker(v)
  PROVE  \A w \in Videos : Aged(w)
<1>0. TypeInv
  BY DEF EditInv, TypeInv
<1>1. ASSUME row' = row PROVE \A w \in Videos : Aged(w)
  BY <1>1, SameAge
<1>2. ASSUME NEW key, NEW webcam, NEW cut, Insert(v, key, webcam, cut)
      PROVE  \A w \in Videos : Aged(w)
  <2> DEFINE r == [NoRow EXCEPT !.status = "uploading", !.key = key,
                                !.webcam = webcam, !.cut = cut]
  <2>1. r.status = "uploading"
    BY Zenon DEF NoRow
  <2>2. row' = [row EXCEPT ![v] = r]
    BY <1>2 DEF Insert
  <2> HIDE DEF r
  <2>3. (\A w \in Videos \ {v} : row'[w] = row[w]) /\ row'[v].status # "processing"
    BY <1>0, <2>1, <2>2 DEF TypeInv, TypeOK
  <2> QED
    BY <2>3, OneRowAges
<1>3. CASE Finalize(v)
  <2>1. /\ \A w \in Videos \ {v} : row'[w] = row[w]
        /\ row[v].webcam => row'[v].started = 0
        /\ ~row[v].webcam => row'[v].status = "ready"
        /\ row[v].status = "uploading"
    BY <1>3, FinalizedRow DEF Finalize
  <2>2. Aged(v)
    BY <2>1 DEF Aged
  <2> QED
    BY <2>1, <2>2, SameAge
<1>4. ASSUME row' = [row EXCEPT ![v].status = "deleted"]
      PROVE  \A w \in Videos : Aged(w)
  <2>1. (\A w \in Videos \ {v} : row'[w] = row[w]) /\ row'[v].status # "processing"
    BY <1>0, <1>4, StatusUpdateType
  <2> QED
    BY <2>1, OneRowAges
<1>5. ASSUME NEW t \in Tasks, Delete(t, v) \/ BatchDelete(t, v)
      PROVE  \A w \in Videos : Aged(w)
  BY <1>4, <1>5 DEF Delete, BatchDelete, MarkDeleted
<1>6. CASE AbandonStaleUpload(v)
  BY <1>4, <1>6 DEF AbandonStaleUpload
<1>7. ASSUME NEW t \in Tasks, \/ RequestEdit(t, v) \/ ResetThumbnail(t, v) \/ PurgeOrphan(t, v)
                              \/ \E kind \in EncodeKinds : EncodeScan(t, v, kind)
      PROVE  \A w \in Videos : Aged(w)
  BY <1>1, <1>7 DEF RequestEdit, ResetThumbnail, PurgeOrphan, EncodeScan
<1>8. ASSUME NEW k, ClientPut(v, k)
      PROVE  \A w \in Videos : Aged(w)
  BY <1>1, <1>8 DEF ClientPut
<1> QED
  BY <1>2, <1>3, <1>5, <1>6, <1>7, <1>8 DEF Request, Worker, Create, Upload

LEMMA TaskAges ==
  ASSUME EditInv, NEW t \in Tasks, TaskStep(t)
  PROVE  \A w \in Videos : Aged(w)
<1> DEFINE v == task[t].video
<1>0. TypeInv /\ (task[t].pc # "idle" => v \in Videos /\ row[v] \in Row)
  BY DEF EditInv, TypeInv, TypeOK, TasksHaveVideos
<1>1. ASSUME KeepsClaim PROVE \A w \in Videos : Aged(w)
  BY <1>1, SameAge
<1>2. CASE ClaimEdit(t)
  <2>1. v \in Videos /\ row[v] \in Row /\ row[v].status = "ready"
    BY <1>0, <1>2 DEF ClaimEdit, At
  <2>2. Claimed(row[v]) \in Row /\ Claimed(row[v]).started = 0
    BY <2>1, ClaimedType
  <2>3. row' = [row EXCEPT ![v] = Claimed(row[v])]
    BY <1>2 DEF ClaimEdit, ClaimRow
  <2>4. (\A w \in Videos \ {v} : row'[w] = row[w]) /\ row'[v].started = 0
    BY <1>0, <2>1, <2>2, <2>3, RowUpdateType
  <2>5. Aged(v)
    BY <2>1, <2>4 DEF Aged
  <2> QED
    BY <2>4, <2>5, SameAge
<1>3. ASSUME NEW r \in Row, v \in Videos, row' = [row EXCEPT ![v] = r], r.status = "ready"
      PROVE  \A w \in Videos : Aged(w)
  <2>1. (\A w \in Videos \ {v} : row'[w] = row[w]) /\ row'[v].status # "processing"
    BY <1>0, <1>3, RowUpdateType
  <2> HIDE DEF v
  <2> QED
    BY <1>3, <2>1, OneRowAges
<1>4. CASE Publish(t)
  <2>1. task[t] \in Task /\ v \in Videos /\ row[v] \in Row /\ task[t].pc \in EditPcs
    BY <1>0, <1>4 DEF Publish, At, TypeInv, TypeOK, EditPcs
  <2> DEFINE r == [Freed(row[v], FALSE) EXCEPT !.cut = CutAfter(t)]
  <2>2. r \in Row /\ r.status = "ready"
    BY <2>1, PublishedType
  <2>3. row' = [row EXCEPT ![v] = r]
    BY <1>4, <2>1, EditorClearsWebcam DEF Publish
  <2> HIDE DEF r
  <2> QED
    BY <1>3, <2>1, <2>2, <2>3
<1>5. CASE Fallback(t)
  <2>1. v \in Videos /\ row[v] \in Row /\ task[t].pc \in EditPcs
    BY <1>0, <1>5 DEF Fallback, At, EditPcs
  <2>2. Freed(row[v], FALSE) \in Row /\ Freed(row[v], FALSE).status = "ready"
    BY <2>1, FreedType
  <2>3. row' = row \/ row' = [row EXCEPT ![v] = Freed(row[v], FALSE)]
    BY <1>5, <2>1, EditorClearsWebcam DEF Fallback
  <2>4. CASE row' = row
    BY <2>4, SameAge
  <2> QED
    BY <1>3, <2>1, <2>2, <2>3, <2>4
<1>6. CASE EditStep(t) /\ ~(ClaimEdit(t) \/ Publish(t) \/ Fallback(t))
  <2>1. KeepsClaim
    BY <1>0, <1>6, EditStepQuiet DEF EditStep
  <2> QED
    BY <1>1, <2>1
<1>7. CASE EncodeStep(t) \/ PurgeStep(t)
  <2>1. KeepsClaim
    BY <1>0, <1>7, EncodeStepQuiet, PurgeStepQuiet
  <2> QED
    BY <1>1, <2>1
<1> QED
  BY <1>2, <1>4, <1>5, <1>6, <1>7 DEF TaskStep

\* The sweep leaves in processing only what is younger than it looks for.
LEMMA SweepAges ==
  ASSUME EditInv, ResetStuckProcessing, NEW v \in Videos, row'[v].status = "processing"
  PROVE  row'[v] = row[v] /\ ~Stuck(v)
<1>1. Freed(row[v], FALSE).status = "ready"
  BY FreedType DEF EditInv, TypeOK
<1>2. row'[v] = IF Stuck(v) THEN Freed(row[v], FALSE) ELSE row[v]
  BY DEF ResetStuckProcessing
<1> QED
  BY <1>1, <1>2

LEMMA TickAges ==
  ASSUME EditInv, Tick, NEW v \in Videos
  PROVE  /\ row'[v].status = row[v].status
         /\ row'[v].started =
              IF row[v].status = "processing" /\ row[v].started \in 0 .. StuckAfter - 1
              THEN row[v].started + 1 ELSE row[v].started
<1> DEFINE r == [row[v] EXCEPT !.started = @ + 1]
<1>1. r.status = row[v].status /\ r.started = row[v].started + 1
  BY DEF EditInv, TypeOK, Row
<1>2. row'[v] = IF row[v].status = "processing" /\ row[v].started \in 0 .. StuckAfter - 1
                THEN r ELSE row[v]
  BY DEF Tick
<1> HIDE DEF r
<1> QED
  BY <1>1, <1>2

LEMMA OtherAges ==
  ASSUME EditInv, [Next]_vars, ~Tick, NEW v \in Videos
  PROVE  Aged(v)
<1>1. ASSUME NEW w \in Videos, Request(w) \/ Worker(w) PROVE Aged(v)
  BY <1>1, RequestAges
<1>2. ASSUME NEW t \in Tasks, TaskStep(t) PROVE Aged(v)
  BY <1>2, TaskAges
<1>3. ASSUME NEW t \in Tasks, Crash(t) PROVE Aged(v)
  <2>1. row'[v] = row[v]
    BY <1>3 DEF Crash
  <2> QED
    BY <2>1, SameAge
<1>4. CASE ResetStuckProcessing
  <2>1. row'[v].status = "processing" => row'[v] = row[v]
    BY <1>4, SweepAges
  <2> QED
    BY <2>1 DEF Aged
<1>5. CASE UNCHANGED vars
  <2>1. row'[v] = row[v]
    BY <1>5 DEF vars
  <2> QED
    BY <2>1, SameAge
<1> QED
  BY <1>1, <1>2, <1>3, <1>4, <1>5 DEF Next

LEMMA AgesNext == EditInv /\ AgesKnown /\ [Next]_vars => ClockStep /\ AgesKnown'
<1> SUFFICES ASSUME EditInv, AgesKnown, [Next]_vars PROVE ClockStep /\ AgesKnown'
  OBVIOUS
<1>1. \A v \in Videos : row[v].status = "processing" => row[v].started \in 0 .. StuckAfter
  BY DEF AgesKnown
<1>2. \A v \in Videos : ~Tick => Aged(v)
  BY OtherAges
<1>3. \A v \in Videos : ResetStuckProcessing /\ row'[v].status = "processing" =>
        row'[v] = row[v] /\ ~Stuck(v)
  BY SweepAges
<1>4. AgesKnown'
  <2> SUFFICES ASSUME NEW v \in Videos, row'[v].status = "processing"
               PROVE  row'[v].started \in 0 .. StuckAfter
    BY DEF AgesKnown
  <2>0. StuckAfter \in Nat
    BY TimeoutAssumption
  <2>1. CASE Tick
    <3>1. row[v].status = "processing"
      BY <2>1, TickAges
    <3>2. row'[v].started = IF row[v].started \in 0 .. StuckAfter - 1
                            THEN row[v].started + 1 ELSE row[v].started
      BY <2>1, <3>1, TickAges
    <3> QED
      BY <1>1, <2>0, <3>1, <3>2
  <2>2. CASE ~Tick
    <3>1. row'[v].started = IF row[v].status = "processing" THEN row[v].started ELSE 0
      BY <1>2, <2>2 DEF Aged
    <3> QED
      BY <1>1, <2>0, <3>1
  <2> QED
    BY <2>1, <2>2
<1>5. ClockStep
  <2> SUFFICES ASSUME NEW v \in Videos, row[v].status = "processing", row'[v].status = "processing"
               PROVE  /\ row'[v].started =
                           IF Tick /\ row[v].started < StuckAfter
                           THEN row[v].started + 1 ELSE row[v].started
                      /\ ResetStuckProcessing => row[v].started < StuckAfter
    BY DEF ClockStep
  <2>1. row[v].started \in 0 .. StuckAfter /\ StuckAfter \in Nat
    BY <1>1, TimeoutAssumption
  <2>4. ResetStuckProcessing => row[v].started < StuckAfter
    <3>1. ResetStuckProcessing => ~(row[v].started >= StuckAfter)
      BY <1>3 DEF Stuck
    <3> QED
      BY <2>1, <3>1
  <2>2. CASE Tick
    <3>1. row'[v].started = IF row[v].started \in 0 .. StuckAfter - 1
                            THEN row[v].started + 1 ELSE row[v].started
      BY <2>2, TickAges
    <3>2. row'[v].started = IF Tick /\ row[v].started < StuckAfter
                            THEN row[v].started + 1 ELSE row[v].started
      BY <2>1, <2>2, <3>1
    <3> QED
      BY <2>4, <3>2
  <2>3. CASE ~Tick
    <3>1. row'[v].started = row[v].started
      BY <1>2, <2>3 DEF Aged
    <3> QED
      BY <2>3, <2>4, <3>1
  <2> QED
    BY <2>2, <2>3
<1> QED
  BY <1>4, <1>5

\* A row in processing is never stuck for good: its age is known, only ticks change it, they
\* add up until the sweep's threshold, and a sweep leaves no row of that age.
THEOREM ProcessingRunsOut == Spec => ProcessingIsTimed
<1>1. Init => EditInv /\ AgesKnown
  <2>1. Init => AgesKnown
    BY DEF Init, StoreInit, NoRow, AgesKnown
  <2> QED
    BY <2>1, EditInvInit
<1>2. EditInv /\ AgesKnown /\ [Next]_vars => (EditInv /\ AgesKnown)'
  BY EditInvStep, AgesNext
<1>3. EditInv /\ AgesKnown /\ [Next]_vars => ClockStep
  BY AgesNext
<1> QED
  BY <1>1, <1>2, <1>3, PTL DEF Spec, ProcessingIsTimed
=============================================================================
