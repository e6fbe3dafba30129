---------------------------- MODULE WorkersProofs ----------------------------
(***************************************************************************)
(* The workers.  The queues are well typed, replicas do no request twice   *)
(* unless a claim was presumed dead, and what is derived from a transcript *)
(* has one: for any videos, replicas and bounds.  Claims run out.  And     *)
(* retention deletes no video whose creator was not told in time.          *)
(***************************************************************************)
EXTENDS MCWorkers, TLAPS

(***************************************************************************)
(* What the updates of one row or one worker do to all of them.            *)
(***************************************************************************)
LEMMA ShowEffect ==
  ASSUME TypeOK, NEW q \in Queues, NEW v \in Videos, NEW s, Show(q, v, s)
  PROVE  \A p \in Queues, u \in Videos :
           status'[p][u] = IF p = q /\ u = v THEN s ELSE status[p][u]
  BY DEF TypeOK, Show

LEMMA SinceEffect ==
  ASSUME TypeOK, NEW q \in Queues, NEW v \in Videos, NEW n, Since(q, v, n)
  PROVE  \A p \in Queues, u \in Videos :
           started'[p][u] = IF p = q /\ u = v THEN n ELSE started[p][u]
  BY DEF TypeOK, Since

LEMMA StoreEffect ==
  ASSUME TypeOK, NEW q \in Queues, NEW v \in Videos, NEW n, Store(q, v, n)
  PROVE  \A p \in Queues, u \in Videos :
           result'[p][u] = IF p = q /\ u = v THEN n ELSE result[p][u]
  BY DEF TypeOK, Store

LEMMA BecomeEffect ==
  ASSUME TypeOK, NEW r \in Replicas, NEW q \in Queues, NEW w, Become(r, q, w)
  PROVE  \A s \in Replicas, p \in Queues :
           worker'[s][p] = IF s = r /\ p = q THEN w ELSE worker[s][p]
  BY DEF TypeOK, Become

LEMMA RequestEffect ==
  ASSUME TypeOK, NEW q \in Queues, NEW v \in Videos, Request(q, v)
  PROVE  \A p \in Queues, u \in Videos :
           /\ asked'[p][u] = IF p = q /\ u = v THEN asked[p][u] + 1 ELSE asked[p][u]
           /\ status'[p][u] = IF p = q /\ u = v THEN "pending" ELSE status[p][u]
  BY DEF TypeOK, Request, Show

\* The same facts as types.
LEMMA ShowType ==
  ASSUME TypeOK, NEW q \in Queues, NEW v \in Videos, NEW s \in Statuses, Show(q, v, s)
  PROVE  status' \in [Queues -> [Videos -> Statuses]]
  BY DEF TypeOK, Show

LEMMA SinceType ==
  ASSUME TypeOK, NEW q \in Queues, NEW v \in Videos,
         NEW n \in Nat \cup {Nil}, Since(q, v, n)
  PROVE  started' \in [Queues -> [Videos -> Nat \cup {Nil}]]
  BY DEF TypeOK, Since

LEMMA StoreType ==
  ASSUME TypeOK, NEW q \in Queues, NEW v \in Videos,
         NEW n \in Nat \cup {Nil}, Store(q, v, n)
  PROVE  result' \in [Queues -> [Videos -> Nat \cup {Nil}]]
  BY DEF TypeOK, Store

LEMMA BecomeType ==
  ASSUME TypeOK, NEW r \in Replicas, NEW q \in Queues, NEW w \in Worker, Become(r, q, w)
  PROVE  worker' \in [Replicas -> [Queues -> Worker]]
  BY DEF TypeOK, Become

LEMMA RequestType ==
  ASSUME TypeOK, NEW q \in Queues, NEW v \in Videos, Request(q, v)
  PROVE  /\ status' \in [Queues -> [Videos -> Statuses]]
         /\ asked' \in [Queues -> [Videos -> Nat]]
  BY DEF TypeOK, Request, Show, Statuses

LEMMA IdleIsWorker == IdleWorker \in Worker
  BY DEF IdleWorker, Worker

LEMMA WorkerAt ==
  ASSUME TypeOK, NEW r \in Replicas, NEW q \in Queues
  PROVE  worker[r][q] \in Worker
  BY DEF TypeOK

LEMMA TranscriptIsQueue == "transcript" \in Queues
  BY DEF Queues

LEMMA NilNotNat == Nil \notin Nat
  BY DEF Nil

-----------------------------------------------------------------------------
(***************************************************************************)
(* A step that leaves the workers alone, or ends one, keeps what is known  *)
(* of the others.  The invariant split into its parts about one row.       *)
(***************************************************************************)
LEMMA ClaimInit == Init => ClaimInv
<1> SUFFICES ASSUME Init PROVE ClaimInv
  OBVIOUS
<1>1. TypeOK
  BY IdleIsWorker DEF Init, TypeOK, Statuses
<1>2. \A r \in Replicas, q \in Queues : worker[r][q] = IdleWorker
  BY DEF Init
<1>3. \A q \in Queues, v \in Videos : status[q][v] = "none"
  BY DEF Init
<1> QED
  BY <1>1, <1>2, <1>3, QueueAssumption
  DEF ClaimInv, WorkersHaveVideos, NoneSawMore, OfferedAgainLate, YoungestRecorded,
      ClaimsDistinct, UpToDate, Works, IdleWorker

\* A new request: nobody has seen it.
LEMMA RequestKeeps ==
  ASSUME ClaimInv, NEW q \in Queues, NEW v \in Videos, Request(q, v),
         UNCHANGED started, TypeOK',
         \A r \in Replicas, p \in Queues :
           worker'[r][p] = worker[r][p] \/ worker'[r][p] = IdleWorker
  PROVE  ClaimInv'
<1> USE DEF ClaimInv
<1>1. \A r \in Replicas, p \in Queues, u \in Videos :
        Works(r, p, u)' => Works(r, p, u) /\ worker'[r][p] = worker[r][p]
  BY DEF Works, IdleWorker
<1>2. \A r \in Replicas, p \in Queues : worker[r][p].seen \in Nat /\ worker[r][p].age \in Nat
  BY DEF TypeOK, Worker
<1>3. \A p \in Queues, u \in Videos : asked[p][u] \in Nat
  BY DEF TypeOK
<1>4. WorkersHaveVideos'
  BY QueueAssumption DEF WorkersHaveVideos, IdleWorker
<1>5. NoneSawMore'
  BY <1>1, <1>2, <1>3, RequestEffect DEF NoneSawMore
<1>6. \A r \in Replicas, p \in Queues, u \in Videos :
        UpToDate(r, p, u)' => UpToDate(r, p, u) /\ ~(p = q /\ u = v)
                              /\ worker'[r][p] = worker[r][p]
  BY <1>1, <1>2, <1>3, RequestEffect DEF UpToDate, NoneSawMore
<1>7. OfferedAgainLate'
  BY <1>6, RequestEffect DEF OfferedAgainLate
<1>8. YoungestRecorded'
  BY <1>6, RequestEffect DEF YoungestRecorded
<1>9. ClaimsDistinct'
  BY <1>1 DEF ClaimsDistinct
<1> QED BY <1>4, <1>5, <1>7, <1>8, <1>9

\* A row leaves the queue, or a worker its row: nothing new is claimed.
LEMMA LeavingKeeps ==
  ASSUME ClaimInv, TypeOK', UNCHANGED asked,
         \A p \in Queues, u \in Videos :
           \/ status'[p][u] = status[p][u] /\ started'[p][u] = started[p][u]
           \/ status'[p][u] \in {"ready", "failed"},
         \A r \in Replicas, p \in Queues :
           \/ worker'[r][p] = worker[r][p]
           \/ worker'[r][p].pc # "work" /\ worker'[r][p].age <= StuckAfter
              /\ (worker'[r][p].pc # "idle" => worker'[r][p].video \in Videos)
  PROVE  ClaimInv'
<1> USE DEF ClaimInv
<1>1. \A r \in Replicas, p \in Queues, u \in Videos :
        Works(r, p, u)' => Works(r, p, u) /\ worker'[r][p] = worker[r][p]
  BY DEF Works
<1>2. \A r \in Replicas, p \in Queues, u \in Videos :
        UpToDate(r, p, u)' => UpToDate(r, p, u) /\ worker'[r][p] = worker[r][p]
  BY <1>1 DEF UpToDate
<1>3. WorkersHaveVideos'
  BY DEF WorkersHaveVideos
<1>4. NoneSawMore'
  BY <1>1 DEF NoneSawMore
<1>5. OfferedAgainLate'
  BY <1>2 DEF OfferedAgainLate
<1>6. YoungestRecorded'
  BY <1>2 DEF YoungestRecorded
<1>7. ClaimsDistinct'
  BY <1>1 DEF ClaimsDistinct
<1> QED BY <1>3, <1>4, <1>5, <1>6, <1>7

-----------------------------------------------------------------------------
(***************************************************************************)
(* One lemma per step.                                                     *)
(***************************************************************************)
LEMMA EnqueueStep ==
  ASSUME ClaimInv, NEW v \in Videos, EnqueueTranscription(v)
  PROVE  ClaimInv'
<1>1. TypeOK /\ Request("transcript", v)
  BY DEF ClaimInv, EnqueueTranscription
<1>2. TypeOK'
  BY <1>1, RequestType, TranscriptIsQueue DEF TypeOK, EnqueueTranscription
<1> QED
  BY <1>1, <1>2, RequestKeeps, TranscriptIsQueue DEF EnqueueTranscription

LEMMA DeriveStep ==
  ASSUME ClaimInv, NEW q \in Derived, NEW v \in Videos, Derive(q, v)
  PROVE  ClaimInv'
<1>1. TypeOK /\ Request(q, v) /\ Store(q, v, Nil) /\ q \in Queues
  BY DEF ClaimInv, Derive, Queues
<1>2. TypeOK'
  BY <1>1, RequestType, StoreType DEF TypeOK, Derive
<1> QED
  BY <1>1, <1>2, RequestKeeps DEF Derive

LEMMA ChainStep ==
  ASSUME ClaimInv, NEW r \in Replicas, ChainSummary(r)
  PROVE  ClaimInv'
<1> DEFINE v == worker[r]["transcript"].video
<1>1. TypeOK /\ "summary" \in Queues /\ v \in Videos
  BY TranscriptIsQueue DEF ClaimInv, ChainSummary, Queues, WorkersHaveVideos
<1>2. Request("summary", v) /\ Become(r, "transcript", IdleWorker)
  BY DEF ChainSummary
<1>3. PICK u \in Videos : u = v
  BY <1>1
<1>4. Request("summary", u)
  BY <1>2, <1>3
<1>5. TypeOK'
  BY <1>1, <1>2, <1>4, RequestType, BecomeType, TranscriptIsQueue, IdleIsWorker
  DEF TypeOK, ChainSummary
<1>6. \A s \in Replicas, p \in Queues :
        worker'[s][p] = worker[s][p] \/ worker'[s][p] = IdleWorker
  BY <1>1, <1>2, BecomeEffect, TranscriptIsQueue
<1> QED
  BY <1>1, <1>4, <1>5, <1>6, RequestKeeps DEF ChainSummary

LEMMA UploadStep ==
  ASSUME ClaimInv, NEW v \in Videos, UploadTranscript(v)
  PROVE  ClaimInv'
<1> DEFINE q == "transcript"
<1>1. TypeOK /\ q \in Queues /\ asked[q][v] \in Nat
  BY TranscriptIsQueue DEF ClaimInv, TypeOK
<1>2. Show(q, v, "ready") /\ Since(q, v, Nil) /\ Store(q, v, asked[q][v])
  BY DEF UploadTranscript
<1>3. TypeOK'
  BY <1>1, <1>2, ShowType, SinceType, StoreType DEF TypeOK, UploadTranscript, Statuses
<1>4. \A p \in Queues, u \in Videos :
        \/ status'[p][u] = status[p][u] /\ started'[p][u] = started[p][u]
        \/ status'[p][u] \in {"ready", "failed"}
  BY <1>1, <1>2, ShowEffect, SinceEffect
<1> QED
  BY <1>3, <1>4, LeavingKeeps DEF UploadTranscript

LEMMA DeleteStep ==
  ASSUME ClaimInv, NEW v \in Videos, Delete(v)
  PROVE  ClaimInv'
<1>1. TypeOK'
  BY DEF ClaimInv, TypeOK, Delete
<1> QED
  BY <1>1, LeavingKeeps DEF Delete

LEMMA FinishStep ==
  ASSUME ClaimInv, NEW r \in Replicas, NEW q \in Queues, Finish(r, q)
  PROVE  ClaimInv'
<1>1. PICK v \in Videos : v = worker[r][q].video
  BY DEF ClaimInv, WorkersHaveVideos, Finish
<1>2. PICK n \in Nat : n = worker[r][q].seen
  BY DEF ClaimInv, TypeOK, Worker
<1> DEFINE w == IF q = "transcript" /\ "summary" \in Derived
                THEN [worker[r][q] EXCEPT !.pc = "chain"] ELSE IdleWorker
<1>3. TypeOK /\ worker[r][q] \in Worker
  BY WorkerAt DEF ClaimInv
<1>4. w \in Worker
  BY <1>3, IdleIsWorker DEF Worker
<1>5. w.pc # "work" /\ w.age <= StuckAfter /\ (w.pc # "idle" => w.video \in Videos)
  BY <1>1, <1>3, QueueAssumption
  DEF ClaimInv, WorkersHaveVideos, IdleWorker, Worker, Finish
<1>6. Show(q, v, "ready") /\ Since(q, v, Nil) /\ Store(q, v, n) /\ Become(r, q, w)
  BY <1>1, <1>2 DEF Finish
<1> HIDE DEF w
<1>7. PICK x : x = w
  OBVIOUS
<1>8. Become(r, q, x) /\ x \in Worker
  BY <1>4, <1>6, <1>7
<1>9. TypeOK'
  BY <1>3, <1>6, <1>8, ShowType, SinceType, StoreType, BecomeType
  DEF TypeOK, Finish, Statuses
<1>10. \A p \in Queues, u \in Videos :
        \/ status'[p][u] = status[p][u] /\ started'[p][u] = started[p][u]
        \/ status'[p][u] \in {"ready", "failed"}
  BY <1>3, <1>6, ShowEffect, SinceEffect
<1>11. \A s \in Replicas, p \in Queues :
         worker'[s][p] = worker[s][p] \/ worker'[s][p] = x
  BY <1>3, <1>8, BecomeEffect
<1> QED
  BY <1>5, <1>7, <1>9, <1>10, <1>11, LeavingKeeps DEF Finish

LEMMA FailStep ==
  ASSUME ClaimInv, NEW r \in Replicas, NEW q \in Queues, Fail(r, q)
  PROVE  ClaimInv'
<1>1. PICK v \in Videos : v = worker[r][q].video
  BY DEF ClaimInv, WorkersHaveVideos, Fail
<1>2. Show(q, v, "failed") /\ Since(q, v, Nil) /\ Become(r, q, IdleWorker) /\ TypeOK
  BY <1>1 DEF Fail, ClaimInv
<1>3. TypeOK'
  BY <1>2, ShowType, SinceType, BecomeType, IdleIsWorker DEF TypeOK, Fail, Statuses
<1>4. \A p \in Queues, u \in Videos :
        \/ status'[p][u] = status[p][u] /\ started'[p][u] = started[p][u]
        \/ status'[p][u] \in {"ready", "failed"}
  BY <1>2, ShowEffect, SinceEffect
<1>5. \A s \in Replicas, p \in Queues :
         worker'[s][p] = worker[s][p] \/ worker'[s][p] = IdleWorker
  BY <1>2, BecomeEffect
<1> QED
  BY <1>3, <1>4, <1>5, LeavingKeeps, QueueAssumption DEF Fail, IdleWorker

LEMMA VanishStep ==
  ASSUME ClaimInv, NEW r \in Replicas, NEW q \in Queues, Vanish(r, q)
  PROVE  ClaimInv'
<1>1. TypeOK /\ Become(r, q, IdleWorker)
  BY DEF ClaimInv, Vanish
<1>2. TypeOK'
  BY <1>1, BecomeType, IdleIsWorker DEF TypeOK, Vanish
<1>3. \A s \in Replicas, p \in Queues :
         worker'[s][p] = worker[s][p] \/ worker'[s][p] = IdleWorker
  BY <1>1, BecomeEffect
<1> QED
  BY <1>2, <1>3, LeavingKeeps, QueueAssumption DEF Vanish, IdleWorker

\* The sweep offers a row only when the youngest claim for its request, and so
\* every claim for it, is presumed dead.
LEMMA ResetStep ==
  ASSUME ClaimInv, NEW q \in Queues, ResetStuck(q)
  PROVE  ClaimInv'
<1> USE DEF ClaimInv
<1>1. \A p \in Queues, u \in Videos :
        /\ p = q /\ Stuck(q, u) => status'[p][u] = "pending"
        /\ ~(p = q /\ Stuck(q, u)) =>
              status'[p][u] = status[p][u] /\ started'[p][u] = started[p][u]
  BY DEF ResetStuck, TypeOK
<1>2. TypeOK'
  BY DEF ResetStuck, TypeOK, Statuses
<1>3. \A r \in Replicas, p \in Queues, u \in Videos :
        /\ Works(r, p, u)' <=> Works(r, p, u)
        /\ UpToDate(r, p, u)' <=> UpToDate(r, p, u)
        /\ worker'[r][p] = worker[r][p]
  BY DEF ResetStuck, Works, UpToDate
<1>4. \A u \in Videos, r \in Replicas :
        Stuck(q, u) /\ UpToDate(r, q, u) => worker[r][q].age = StuckAfter
  <2> SUFFICES ASSUME NEW u \in Videos, NEW r \in Replicas, Stuck(q, u), UpToDate(r, q, u)
               PROVE  worker[r][q].age = StuckAfter
    OBVIOUS
  <2>1. started[q][u] \in 0 .. StuckAfter /\ worker[r][q].age >= started[q][u]
    BY DEF YoungestRecorded, Stuck
  <2>2. started[q][u] >= StuckAfter
    BY <2>1, QueueAssumption DEF Stuck, Nil
  <2>3. worker[r][q].age <= StuckAfter /\ worker[r][q].age \in Nat
    BY DEF WorkersHaveVideos, TypeOK, Worker
  <2> QED BY <2>1, <2>2, <2>3, QueueAssumption
<1>5. WorkersHaveVideos' /\ NoneSawMore' /\ ClaimsDistinct'
  BY <1>3 DEF WorkersHaveVideos, NoneSawMore, ClaimsDistinct, ResetStuck
<1>6. OfferedAgainLate'
  BY <1>1, <1>3, <1>4 DEF OfferedAgainLate
<1>7. YoungestRecorded'
  BY <1>1, <1>3 DEF YoungestRecorded
<1> QED BY <1>2, <1>5, <1>6, <1>7

\* A claim: the others that have seen the same request are presumed dead.
LEMMA ClaimStep ==
  ASSUME ClaimInv, NEW r \in Replicas, NEW q \in Queues, NEW v \in Videos, Claim(r, q, v)
  PROVE  ClaimInv'
<1> USE DEF ClaimInv
<1> DEFINE w == [pc |-> "work", video |-> v, seen |-> asked[q][v], age |-> 0]
<1>1. TypeOK /\ asked[q][v] \in Nat /\ worker[r][q].pc = "idle" /\ status[q][v] = "pending"
  BY DEF TypeOK, Claim
<1>2. w \in Worker /\ w.pc = "work" /\ w.video = v /\ w.seen = asked[q][v] /\ w.age = 0
  BY <1>1 DEF Worker
<1>3. Show(q, v, "processing") /\ Since(q, v, 0) /\ Become(r, q, w)
  BY DEF Claim
<1> HIDE DEF w
<1>4. PICK x \in Worker : x = w
  BY <1>2
<1>5. TypeOK'
  BY <1>1, <1>3, <1>4, ShowType, SinceType, BecomeType DEF TypeOK, Claim, Statuses
<1>6. \A p \in Queues, u \in Videos :
        /\ status'[p][u] = IF p = q /\ u = v THEN "processing" ELSE status[p][u]
        /\ started'[p][u] = IF p = q /\ u = v THEN 0 ELSE started[p][u]
        /\ asked'[p][u] = asked[p][u]
  BY <1>1, <1>3, ShowEffect, SinceEffect DEF Claim
<1>7. \A s \in Replicas, p \in Queues :
        worker'[s][p] = IF s = r /\ p = q THEN x ELSE worker[s][p]
  BY <1>1, <1>3, <1>4, BecomeEffect
<1>8. \A s \in Replicas, p \in Queues, u \in Videos :
        /\ ~(s = r /\ p = q) =>
             (Works(s, p, u)' <=> Works(s, p, u)) /\ (UpToDate(s, p, u)' <=> UpToDate(s, p, u))
        /\ s = r /\ p = q /\ Works(s, p, u)' => u = v
  BY <1>2, <1>4, <1>6, <1>7 DEF Works, UpToDate
<1>9. \A s \in Replicas : s # r /\ UpToDate(s, q, v) => worker[s][q].age = StuckAfter
  BY <1>1 DEF OfferedAgainLate
<1>10. \A s \in Replicas, p \in Queues : worker[s][p].age \in Nat /\ worker[s][p].seen \in Nat
  BY <1>1, WorkerAt DEF Worker
<1>11. WorkersHaveVideos'
  BY <1>2, <1>4, <1>7, QueueAssumption DEF WorkersHaveVideos
<1>12. NoneSawMore'
  BY <1>1, <1>2, <1>4, <1>6, <1>7, <1>8 DEF NoneSawMore
<1>13. OfferedAgainLate'
  <2> SUFFICES ASSUME NEW p \in Queues, NEW u \in Videos, NEW s \in Replicas,
                      status'[p][u] = "pending", UpToDate(s, p, u)'
               PROVE  worker'[s][p].age = StuckAfter
    BY DEF OfferedAgainLate
  <2>1. ~(p = q /\ u = v) /\ status[p][u] = "pending"
    BY <1>6
  <2>2. ~(s = r /\ p = q)
    BY <1>8, <2>1 DEF UpToDate
  <2> QED BY <1>7, <1>8, <2>1, <2>2 DEF OfferedAgainLate
<1>14. YoungestRecorded'
  <2> SUFFICES ASSUME NEW p \in Queues, NEW u \in Videos, status'[p][u] = "processing"
               PROVE  /\ started'[p][u] \in 0 .. StuckAfter
                      /\ \A s \in Replicas :
                           UpToDate(s, p, u)' => worker'[s][p].age >= started'[p][u]
    BY DEF YoungestRecorded
  <2>1. CASE p = q /\ u = v
    BY <1>2, <1>4, <1>6, <1>7, <1>10, <2>1, QueueAssumption
  <2>2. CASE ~(p = q /\ u = v)
    <3>1. \A s \in Replicas : UpToDate(s, p, u)' => ~(s = r /\ p = q)
      BY <1>8, <2>2 DEF UpToDate
    <3> QED BY <1>6, <1>7, <1>8, <2>2, <3>1 DEF YoungestRecorded
  <2> QED BY <2>1, <2>2
<1>15. ClaimsDistinct'
  <2> SUFFICES ASSUME NEW p \in Queues, NEW u \in Videos, NEW s \in Replicas,
                      NEW z \in Replicas, s # z, Works(s, p, u)', Works(z, p, u)'
               PROVE  \/ worker'[s][p].seen # worker'[z][p].seen
                      \/ StuckAfter \in {worker'[s][p].age, worker'[z][p].age}
    BY DEF ClaimsDistinct
  <2>1. CASE p = q /\ s = r
    BY <1>2, <1>4, <1>7, <1>8, <1>9, <2>1 DEF UpToDate
  <2>2. CASE p = q /\ z = r
    BY <1>2, <1>4, <1>7, <1>8, <1>9, <2>2 DEF UpToDate
  <2>3. CASE ~(p = q /\ s = r) /\ ~(p = q /\ z = r)
    BY <1>7, <1>8, <2>3 DEF ClaimsDistinct
  <2> QED BY <2>1, <2>2, <2>3
<1> QED BY <1>5, <1>11, <1>12, <1>13, <1>14, <1>15

\* Time passes for claims and workers alike.
LEMMA TickStep ==
  ASSUME ClaimInv, Tick
  PROVE  ClaimInv'
<1> USE DEF ClaimInv
<1>1. \A n \in Nat : Later(n) \in Nat /\ (n <= StuckAfter => Later(n) <= StuckAfter)
                      /\ (n = StuckAfter => Later(n) = StuckAfter)
  BY QueueAssumption DEF Later
<1>2. \A m, n \in Nat : m >= n /\ m <= StuckAfter => Later(m) >= Later(n)
  BY QueueAssumption DEF Later
<1>3. Later(Nil) = Nil
  BY QueueAssumption DEF Later, Nil
<1>4. \A r \in Replicas, q \in Queues :
        /\ worker[r][q] \in Worker
        /\ worker[r][q].age \in Nat
        /\ worker'[r][q] \in Worker
        /\ worker'[r][q].pc = worker[r][q].pc
        /\ worker'[r][q].video = worker[r][q].video
        /\ worker'[r][q].seen = worker[r][q].seen
        /\ worker[r][q].pc # "idle" => worker'[r][q].age = Later(worker[r][q].age)
        /\ worker[r][q].pc = "idle" => worker'[r][q].age = worker[r][q].age
  <2> SUFFICES ASSUME NEW r \in Replicas, NEW q \in Queues
               PROVE  /\ worker[r][q] \in Worker
                      /\ worker[r][q].age \in Nat
                      /\ worker'[r][q] \in Worker
                      /\ worker'[r][q].pc = worker[r][q].pc
                      /\ worker'[r][q].video = worker[r][q].video
                      /\ worker'[r][q].seen = worker[r][q].seen
                      /\ worker[r][q].pc # "idle" => worker'[r][q].age = Later(worker[r][q].age)
                      /\ worker[r][q].pc = "idle" => worker'[r][q].age = worker[r][q].age
    OBVIOUS
  <2> DEFINE w == worker[r][q]
             older == Later(w.age)
  <2>1. w \in Worker
    BY WorkerAt
  <2>2. worker'[r][q] = IF w.pc = "idle" THEN w ELSE [w EXCEPT !.age = older]
    BY DEF Tick
  <2> HIDE DEF w, older
  <2>3. w.age \in Nat
    BY <2>1 DEF Worker
  <2>4. older \in Nat
    BY <1>1, <2>3 DEF older
  <2> DEFINE aged == [w EXCEPT !.age = older]
  <2>5. /\ aged \in Worker /\ aged.pc = w.pc /\ aged.video = w.video
        /\ aged.seen = w.seen /\ aged.age = older
    BY <2>1, <2>4 DEF Worker
  <2> HIDE DEF aged
  <2>6. CASE w.pc = "idle"
    BY <2>1, <2>2, <2>3, <2>6 DEF w
  <2>7. CASE w.pc # "idle"
    <3>1. worker'[r][q] = aged
      BY <2>2, <2>7 DEF aged
    <3> QED BY <2>1, <2>3, <2>5, <2>7, <3>1 DEF w, older
  <2> QED BY <2>6, <2>7
<1>5. TypeOK'
  <2>1. worker' \in [Replicas -> [Queues -> Worker]]
    BY <1>4 DEF Tick
  <2>2. started' \in [Queues -> [Videos -> Nat \cup {Nil}]]
    BY <1>1, <1>3 DEF Tick, TypeOK
  <2> QED BY <2>1, <2>2 DEF Tick, TypeOK
<1>6. \A r \in Replicas, q \in Queues, v \in Videos :
        (Works(r, q, v)' <=> Works(r, q, v)) /\ (UpToDate(r, q, v)' <=> UpToDate(r, q, v))
  BY <1>4 DEF Works, UpToDate, Tick
<1>7. WorkersHaveVideos'
  BY <1>1, <1>4 DEF WorkersHaveVideos
<1>8. NoneSawMore'
  BY <1>4, <1>6 DEF NoneSawMore, Tick
<1>9. OfferedAgainLate'
  BY <1>1, <1>4, <1>6 DEF OfferedAgainLate, Tick, UpToDate, Works
<1>10. YoungestRecorded'
  <2> SUFFICES ASSUME NEW q \in Queues, NEW v \in Videos, status[q][v] = "processing"
               PROVE  /\ Later(started[q][v]) \in 0 .. StuckAfter
                      /\ \A r \in Replicas :
                           UpToDate(r, q, v)' => worker'[r][q].age >= Later(started[q][v])
    BY DEF YoungestRecorded, Tick
  <2>1. started[q][v] \in 0 .. StuckAfter
    BY DEF YoungestRecorded
  <2>2. \A r \in Replicas : UpToDate(r, q, v) =>
          worker[r][q].age >= started[q][v] /\ worker[r][q].age <= StuckAfter
          /\ worker[r][q].pc # "idle"
    BY DEF YoungestRecorded, WorkersHaveVideos, UpToDate, Works
  <2> QED BY <1>1, <1>2, <1>4, <1>6, <2>1, <2>2, QueueAssumption
<1>11. ClaimsDistinct'
  BY <1>1, <1>4, <1>6 DEF ClaimsDistinct, Works
<1> QED BY <1>5, <1>7, <1>8, <1>9, <1>10, <1>11

LEMMA StutterStep ==
  ASSUME ClaimInv, UNCHANGED vars
  PROVE  ClaimInv'
<1>1. TypeOK'
  BY DEF ClaimInv, TypeOK, vars
<1> QED BY <1>1, LeavingKeeps DEF vars

LEMMA ClaimNext == ClaimInv /\ [Next]_vars => ClaimInv'
<1> SUFFICES ASSUME ClaimInv, [Next]_vars PROVE ClaimInv'
  OBVIOUS
<1> QED
  BY EnqueueStep, UploadStep, DeleteStep, DeriveStep, ClaimStep, ResetStep, ChainStep,
     FinishStep, FailStep, VanishStep, TickStep, StutterStep
  DEF Next, Settle

\* Every reachable state is well typed.
THEOREM QueuesTyped == Spec => []TypeOK
<1>1. ClaimInv => TypeOK
  BY DEF ClaimInv
<1> QED BY ClaimInit, ClaimNext, <1>1, PTL DEF Spec

\* Replicas do no request twice, unless a claim was presumed dead.
THEOREM NoRequestDoneTwice == Spec => []ClaimsDistinct
<1>1. ClaimInv => ClaimsDistinct
  BY DEF ClaimInv
<1> QED BY ClaimInit, ClaimNext, <1>1, PTL DEF Spec

-----------------------------------------------------------------------------
(***************************************************************************)
(* What the settling of requests rests on, besides fairness: the age of a  *)
(* claim runs out.                                                         *)
(***************************************************************************)
\* Nobody sets the age of a claim back while the row stays claimed: each tick adds to it, up
\* to the age at which the reset offers the row again.
ClaimStepTimed == \A q \in Queues, v \in Videos :
  status[q][v] = "processing" /\ status'[q][v] = "processing" =>
    /\ started'[q][v] =
         IF Tick /\ started[q][v] < StuckAfter THEN started[q][v] + 1 ELSE started[q][v]
    /\ ResetStuck(q) => started[q][v] < StuckAfter

ClaimAgesKnown == \A q \in Queues, v \in Videos :
  status[q][v] = "processing" => started[q][v] \in 0 .. StuckAfter

ClaimsAreTimed == []ClaimAgesKnown /\ [][ClaimStepTimed]_vars

\* Whatever is no tick leaves the age of a claim alone.
AgeKept(q, v) ==
  status[q][v] = "processing" /\ status'[q][v] = "processing" =>
    started'[q][v] = started[q][v]

LEMMA SettlingKeepsAges ==
  ASSUME ClaimInv, NEW r \in Replicas, NEW p \in Queues, Settle(r, p),
         NEW q \in Queues, NEW v \in Videos
  PROVE  AgeKept(q, v)
<1>0. TypeOK
  BY DEF ClaimInv
<1>1. PICK u \in Videos : u = worker[r][p].video
  BY DEF ClaimInv, WorkersHaveVideos, Settle, Finish, Fail
<1>2. PICK s \in {"ready", "failed"} : Show(p, u, s) /\ Since(p, u, Nil)
  BY <1>1 DEF Settle, Finish, Fail
<1>3. /\ status'[q][v] = IF q = p /\ v = u THEN s ELSE status[q][v]
      /\ started'[q][v] = IF q = p /\ v = u THEN Nil ELSE started[q][v]
  BY <1>0, <1>2, ShowEffect, SinceEffect
<1> QED BY <1>2, <1>3 DEF AgeKept

LEMMA OthersKeepAges ==
  ASSUME ClaimInv, [Next]_vars, ~Tick, NEW q \in Queues, NEW v \in Videos
  PROVE  AgeKept(q, v)
<1>0. TypeOK
  BY DEF ClaimInv
<1>1. ASSUME UNCHANGED started PROVE AgeKept(q, v)
  BY <1>1 DEF AgeKept
<1>2. ASSUME NEW u \in Videos, UploadTranscript(u) PROVE AgeKept(q, v)
  <2>1. Show("transcript", u, "ready") /\ Since("transcript", u, Nil) /\ "transcript" \in Queues
    BY <1>2, TranscriptIsQueue DEF UploadTranscript
  <2>2. /\ status'[q][v] = IF q = "transcript" /\ v = u THEN "ready" ELSE status[q][v]
        /\ started'[q][v] = IF q = "transcript" /\ v = u THEN Nil ELSE started[q][v]
    BY <1>0, <2>1, ShowEffect, SinceEffect
  <2> QED BY <2>2 DEF AgeKept
<1>3. ASSUME NEW r \in Replicas, NEW p \in Queues, NEW u \in Videos, Claim(r, p, u)
      PROVE  AgeKept(q, v)
  <2>1. status[p][u] = "pending" /\ Since(p, u, 0)
    BY <1>3 DEF Claim
  <2>2. started'[q][v] = IF q = p /\ v = u THEN 0 ELSE started[q][v]
    BY <1>0, <2>1, SinceEffect
  <2> QED BY <2>1, <2>2 DEF AgeKept
<1>4. ASSUME NEW p \in Queues, ResetStuck(p) PROVE AgeKept(q, v)
  <2>1. /\ status'[q][v] = IF q = p /\ Stuck(q, v) THEN "pending" ELSE status[q][v]
        /\ started'[q][v] = IF q = p /\ Stuck(q, v) THEN Nil ELSE started[q][v]
    BY <1>0, <1>4 DEF ResetStuck, TypeOK
  <2> QED BY <2>1 DEF AgeKept
<1>5. ASSUME NEW r \in Replicas, NEW p \in Queues, Settle(r, p) PROVE AgeKept(q, v)
  BY <1>5, SettlingKeepsAges
<1> QED
  BY <1>1, <1>2, <1>3, <1>4, <1>5
  DEF Next, EnqueueTranscription, Delete, Derive, ChainSummary, Vanish, vars

LEMMA ResetTakesTheOld ==
  ASSUME ClaimInv, NEW q \in Queues, NEW v \in Videos, ResetStuck(q),
         status'[q][v] = "processing"
  PROVE  ~Stuck(q, v)
<1>1. status'[q][v] = IF Stuck(q, v) THEN "pending" ELSE status[q][v]
  BY DEF ResetStuck, ClaimInv, TypeOK
<1> QED BY <1>1

LEMMA AgesAreKnown == ClaimInv => ClaimAgesKnown
  BY DEF ClaimInv, YoungestRecorded, ClaimAgesKnown

LEMMA ClaimAgesNext == ClaimInv /\ [Next]_vars => ClaimStepTimed
<1> SUFFICES ASSUME ClaimInv, [Next]_vars, NEW q \in Queues, NEW v \in Videos,
                    status[q][v] = "processing", status'[q][v] = "processing"
             PROVE  /\ started'[q][v] =
                         IF Tick /\ started[q][v] < StuckAfter
                         THEN started[q][v] + 1 ELSE started[q][v]
                    /\ ResetStuck(q) => started[q][v] < StuckAfter
  BY DEF ClaimStepTimed
<1>1. started[q][v] \in 0 .. StuckAfter /\ StuckAfter \in Nat
  BY AgesAreKnown, QueueAssumption DEF ClaimAgesKnown
<1>2. ResetStuck(q) => started[q][v] < StuckAfter
  <2>1. ResetStuck(q) => ~Stuck(q, v)
    BY ResetTakesTheOld
  <2>2. ResetStuck(q) => ~(started[q][v] >= StuckAfter)
    BY <2>1 DEF Stuck
  <2> QED BY <1>1, <2>2
<1>3. CASE Tick
  <2>1. started'[q][v] = Later(started[q][v])
    BY <1>3 DEF Tick
  <2>2. Later(started[q][v]) =
          IF started[q][v] < StuckAfter THEN started[q][v] + 1 ELSE started[q][v]
    BY <1>1 DEF Later
  <2> QED BY <1>2, <1>3, <2>1, <2>2
<1>4. CASE ~Tick
  <2>1. started'[q][v] = started[q][v]
    BY <1>4, OthersKeepAges DEF AgeKept
  <2> QED BY <1>2, <1>4, <2>1
<1> QED BY <1>3, <1>4

\* A claimed row of a queue is never stuck for good: only ticks change the age of its claim,
\* they add up until the reset's threshold, and a reset leaves no claim of that age.
THEOREM ClaimsRunOut == Spec => ClaimsAreTimed
<1> QED
  BY ClaimInit, ClaimNext, AgesAreKnown, ClaimAgesNext, PTL DEF Spec, ClaimsAreTimed

-----------------------------------------------------------------------------
(***************************************************************************)
(* What is derived from a transcript has one.                              *)
(***************************************************************************)
LEMMA DerivedAreQueues ==
  /\ Derived \subseteq Queues
  /\ "transcript" \notin Derived
  BY QueueAssumption DEF Queues

LEMMA DerivedInit == Init => DerivedInv
<1> SUFFICES ASSUME Init PROVE DerivedInv
  OBVIOUS
<1>1. \A q \in Queues, v \in Videos : status[q][v] = "none"
  BY DEF Init
<1>2. \A r \in Replicas, q \in Queues : worker[r][q].pc = "idle"
  BY DEF Init, IdleWorker
<1> QED
  BY <1>1, <1>2, ClaimInit, TranscriptIsQueue, DerivedAreQueues
  DEF DerivedInv, ReadyIsStored, ChainsStored, WorkedOnWasAsked, DerivedHaveTranscript, Works

\* A transcript that is there stays, though a newer one may replace it.
LEMMA TranscriptStays ==
  ASSUME ClaimInv, [Next]_vars, NEW v \in Videos, result["transcript"][v] # Nil
  PROVE  result'["transcript"][v] # Nil
<1> USE TranscriptIsQueue
<1>0. TypeOK
  BY DEF ClaimInv
<1>1. ASSUME NEW u \in Videos, UploadTranscript(u) PROVE result'["transcript"][v] # Nil
  <2>1. asked["transcript"][u] \in Nat
    BY <1>0 DEF TypeOK
  <2> QED BY <1>0, <1>1, <2>1, StoreEffect, NilNotNat DEF UploadTranscript
<1>2. ASSUME NEW q \in Derived, NEW u \in Videos, Derive(q, u)
      PROVE  result'["transcript"][v] # Nil
  BY <1>0, <1>2, StoreEffect, DerivedAreQueues DEF Derive
<1>3. ASSUME NEW r \in Replicas, NEW q \in Queues, Finish(r, q)
      PROVE  result'["transcript"][v] # Nil
  <2>1. worker[r][q].seen \in Nat
    BY <1>0 DEF TypeOK, Worker
  <2>2. PICK u \in Videos : u = worker[r][q].video
    BY <1>3 DEF ClaimInv, WorkersHaveVideos, Finish
  <2>3. Store(q, u, worker[r][q].seen)
    BY <1>3, <2>2 DEF Finish
  <2> QED BY <1>0, <2>1, <2>3, StoreEffect, NilNotNat
<1>4. CASE UNCHANGED result
  BY <1>4
<1> QED
  BY <1>1, <1>2, <1>3, <1>4
  DEF Next, EnqueueTranscription, Delete, Claim, ResetStuck, ChainSummary, Settle,
      Fail, Vanish, Tick, vars

\* What a step may do to the status of a row, to a chain and to a claim.
LEMMA StatusSteps ==
  ASSUME DerivedInv, [Next]_vars, NEW q \in Queues, NEW v \in Videos
  PROVE  /\ status[q][v] # "none" => status'[q][v] # "none"
         /\ status'[q][v] = "ready" =>
              status[q][v] = "ready" \/ result'[q][v] \in Nat
         /\ q \in Derived /\ status[q][v] = "none" /\ status'[q][v] # "none" =>
              result["transcript"][v] # Nil
<1> DEFINE Goal ==
      /\ status[q][v] # "none" => status'[q][v] # "none"
      /\ status'[q][v] = "ready" =>
           status[q][v] = "ready" \/ result'[q][v] \in Nat
      /\ q \in Derived /\ status[q][v] = "none" /\ status'[q][v] # "none" =>
           result["transcript"][v] # Nil
<1> USE TranscriptIsQueue
<1>0. TypeOK /\ ClaimInv
  BY DEF DerivedInv, ClaimInv
<1>1. ASSUME NEW u \in Videos, EnqueueTranscription(u) PROVE Goal
  BY <1>0, <1>1, RequestEffect, DerivedAreQueues DEF EnqueueTranscription
<1>2. ASSUME NEW u \in Videos, UploadTranscript(u) PROVE Goal
  <2>1. asked["transcript"][u] \in Nat
    BY <1>0 DEF TypeOK
  <2> QED BY <1>0, <1>2, <2>1, ShowEffect, StoreEffect, DerivedAreQueues DEF UploadTranscript
<1>3. ASSUME NEW p \in Derived, NEW u \in Videos, Derive(p, u) PROVE Goal
  <2>1. result["transcript"][u] # Nil
    BY <1>3 DEF DerivedInv, ReadyIsStored, Derive
  <2> QED BY <1>0, <1>3, <2>1, RequestEffect, DerivedAreQueues DEF Derive
<1>4. ASSUME NEW r \in Replicas, NEW p \in Queues, NEW u \in Videos, Claim(r, p, u)
      PROVE  Goal
  <2>1. status[p][u] = "pending"
    BY <1>4 DEF Claim
  <2> QED BY <1>0, <1>4, <2>1, ShowEffect DEF Claim
<1>5. ASSUME NEW p \in Queues, ResetStuck(p) PROVE Goal
  BY <1>0, <1>5 DEF ResetStuck, TypeOK, Stuck
<1>6. ASSUME NEW r \in Replicas, ChainSummary(r) PROVE Goal
  <2>1. PICK u \in Videos : u = worker[r]["transcript"].video
    BY <1>0, <1>6 DEF ClaimInv, WorkersHaveVideos, ChainSummary
  <2>2. result["transcript"][u] # Nil
    BY <1>6, <2>1 DEF DerivedInv, ChainsStored, ChainSummary
  <2>3. Request("summary", u) /\ "summary" \in Queues
    BY <1>6, <2>1, DerivedAreQueues DEF ChainSummary
  <2> QED BY <1>0, <2>2, <2>3, RequestEffect
<1>7. ASSUME NEW r \in Replicas, NEW p \in Queues, Finish(r, p) PROVE Goal
  <2>1. worker[r][p].seen \in Nat
    BY <1>0 DEF TypeOK, Worker
  <2>2. PICK u \in Videos : u = worker[r][p].video
    BY <1>0, <1>7 DEF ClaimInv, WorkersHaveVideos, Finish
  <2>3. Show(p, u, "ready") /\ Store(p, u, worker[r][p].seen)
    BY <1>7, <2>2 DEF Finish
  <2>4. status[p][u] # "none"
    BY <1>7, <2>2 DEF DerivedInv, WorkedOnWasAsked, Works, Finish
  <2> QED BY <1>0, <2>1, <2>3, <2>4, ShowEffect, StoreEffect
<1>8. ASSUME NEW r \in Replicas, NEW p \in Queues, Fail(r, p) PROVE Goal
  <2>1. PICK u \in Videos : u = worker[r][p].video
    BY <1>0, <1>8 DEF ClaimInv, WorkersHaveVideos, Fail
  <2>2. Show(p, u, "failed")
    BY <1>8, <2>1 DEF Fail
  <2>3. status[p][u] # "none"
    BY <1>8, <2>1 DEF DerivedInv, WorkedOnWasAsked, Works, Fail
  <2> QED BY <1>0, <2>2, <2>3, ShowEffect
<1>9. CASE UNCHANGED status
  BY <1>9
<1> QED
  BY <1>1, <1>2, <1>3, <1>4, <1>5, <1>6, <1>7, <1>8, <1>9
  DEF Next, Delete, Settle, Vanish, Tick, vars

LEMMA WorkerSteps ==
  ASSUME ClaimInv, [Next]_vars, NEW r \in Replicas, NEW q \in Queues, NEW v \in Videos
  PROVE  /\ Works(r, q, v)' => Works(r, q, v) \/ status'[q][v] # "none"
         /\ worker'[r][q].pc = "chain" =>
              \/ worker[r][q].pc = "chain" /\ worker'[r][q].video = worker[r][q].video
              \/ result'[q][worker'[r][q].video] \in Nat
<1> DEFINE Goal ==
      /\ Works(r, q, v)' => Works(r, q, v) \/ status'[q][v] # "none"
      /\ worker'[r][q].pc = "chain" =>
           \/ worker[r][q].pc = "chain" /\ worker'[r][q].video = worker[r][q].video
           \/ result'[q][worker'[r][q].video] \in Nat
<1> USE TranscriptIsQueue
<1>0. TypeOK
  BY DEF ClaimInv
<1>1. ASSUME NEW s \in Replicas, NEW p \in Queues, NEW u \in Videos, Claim(s, p, u)
      PROVE  Goal
  <2>1. status'[p][u] = "processing"
    BY <1>0, <1>1, ShowEffect DEF Claim
  <2>2. CASE s = r /\ p = q
    BY <1>0, <1>1, <2>1, <2>2, BecomeEffect DEF Claim, Works
  <2>3. CASE ~(s = r /\ p = q)
    BY <1>0, <1>1, <2>3, BecomeEffect DEF Claim, Works
  <2> QED BY <2>2, <2>3
<1>2. ASSUME NEW s \in Replicas, NEW p \in Queues, Finish(s, p) PROVE Goal
  <2> DEFINE w == IF p = "transcript" /\ "summary" \in Derived
                  THEN [worker[s][p] EXCEPT !.pc = "chain"] ELSE IdleWorker
  <2>1. worker[s][p] \in Worker /\ worker[s][p].seen \in Nat
    BY <1>0, WorkerAt DEF Worker
  <2>2. PICK u \in Videos : u = worker[s][p].video
    BY <1>2 DEF ClaimInv, WorkersHaveVideos, Finish
  <2>3. w.pc # "work" /\ (w.pc = "chain" => w.video = u)
    BY <2>1, <2>2 DEF IdleWorker, Worker
  <2>4. Store(p, u, worker[s][p].seen) /\ Become(s, p, w)
    BY <1>2, <2>2 DEF Finish
  <2> HIDE DEF w
  <2>5. PICK x : x = w
    OBVIOUS
  <2>6. Become(s, p, x)
    BY <2>4, <2>5
  <2>7. CASE s = r /\ p = q
    <3>1. worker'[r][q] = x
      BY <1>0, <2>6, <2>7, BecomeEffect
    <3>2. result'[q][u] \in Nat
      BY <1>0, <2>1, <2>4, <2>7, StoreEffect
    <3> QED BY <2>3, <2>5, <3>1, <3>2 DEF Works
  <2>8. CASE ~(s = r /\ p = q)
    BY <1>0, <2>6, <2>8, BecomeEffect DEF Works
  <2> QED BY <2>7, <2>8
<1>3. ASSUME NEW s \in Replicas, NEW p \in Queues, Become(s, p, IdleWorker) PROVE Goal
  BY <1>0, <1>3, BecomeEffect DEF Works, IdleWorker
<1>4. CASE Tick
  <2>1. /\ worker'[r][q].pc = worker[r][q].pc
        /\ worker'[r][q].video = worker[r][q].video
    BY <1>0, <1>4, WorkerAt DEF Tick, Worker
  <2> QED BY <2>1 DEF Works
<1>5. CASE UNCHANGED worker
  BY <1>5 DEF Works
<1> QED
  BY <1>1, <1>2, <1>3, <1>4, <1>5
  DEF Next, EnqueueTranscription, UploadTranscript, Delete, Derive, ResetStuck,
      ChainSummary, Settle, Fail, Vanish, vars

LEMMA DerivedNext == DerivedInv /\ [Next]_vars => DerivedInv'
<1> SUFFICES ASSUME DerivedInv, [Next]_vars PROVE DerivedInv'
  OBVIOUS
<1> USE TranscriptIsQueue
<1>1. ClaimInv /\ ClaimInv'
  BY ClaimNext DEF DerivedInv
<1>2. ReadyIsStored'
  BY <1>1, StatusSteps, TranscriptStays, NilNotNat DEF ReadyIsStored, DerivedInv
<1>3. ChainsStored'
  <2> SUFFICES ASSUME NEW r \in Replicas, worker'[r]["transcript"].pc = "chain"
               PROVE  result'["transcript"][worker'[r]["transcript"].video] # Nil
    BY DEF ChainsStored
  <2>1. PICK v \in Videos : v = worker'[r]["transcript"].video
    BY <1>1 DEF ClaimInv, WorkersHaveVideos
  <2> QED BY <1>1, <2>1, WorkerSteps, TranscriptStays, NilNotNat DEF ChainsStored, DerivedInv
<1>4. WorkedOnWasAsked'
  <2> SUFFICES ASSUME NEW r \in Replicas, NEW q \in Queues, NEW v \in Videos,
                      Works(r, q, v)'
               PROVE  status'[q][v] # "none"
    BY DEF WorkedOnWasAsked
  <2>1. CASE Works(r, q, v)
    BY <2>1, StatusSteps DEF WorkedOnWasAsked, DerivedInv
  <2>2. CASE ~Works(r, q, v)
    BY <1>1, <2>2, WorkerSteps
  <2> QED BY <2>1, <2>2
<1>5. DerivedHaveTranscript'
  <2> SUFFICES ASSUME NEW q \in Derived, NEW v \in Videos, status'[q][v] # "none"
               PROVE  result'["transcript"][v] # Nil
    BY DEF DerivedHaveTranscript
  <2>1. result["transcript"][v] # Nil
    BY StatusSteps, DerivedAreQueues DEF DerivedHaveTranscript, DerivedInv
  <2> QED BY <1>1, <2>1, TranscriptStays
<1> QED BY <1>1, <1>2, <1>3, <1>4, <1>5 DEF DerivedInv

\* Only transcribed videos are summarised or documented.
THEOREM OnlyTranscribedAreDerived == Spec => []DerivedHaveTranscript
<1>1. DerivedInv => DerivedHaveTranscript
  BY DEF DerivedInv
<1> QED BY DerivedInit, DerivedNext, <1>1, PTL DEF Spec

-----------------------------------------------------------------------------
(***************************************************************************)
(* Retention.  A video is warned of only once, after the mail that named   *)
(* it: from the choice of the videos to the mark their rows are not marked *)
(* yet, so that no later mail can move the day of the last one.            *)
(***************************************************************************)
LeftUnwarned ==
  round.pc \in {"warnings", "mark"} =>
    \A v \in round.left : Stored(v) /\ recording[v].warned = Never

ToldWereMailed ==
  round.pc = "mark" =>
    /\ \A v \in round.told : Stored(v) /\ (MailWorks => mailed[v] # Never)
    /\ round.left \cap round.told = {}

ChosenAreOver ==
  round.pc = "delete" =>
    \A v \in round.chosen :
      Stored(v) /\ recording[v].warned # Never /\ recording[v].warned + Grace < today

MailedBefore == \A v \in Recordings : mailed[v] # Never => mailed[v] <= today

MailedThenWarned ==
  MailWorks =>
    \A v \in Recordings : (Stored(v) /\ recording[v].warned # Never) =>
      (mailed[v] # Never /\ mailed[v] <= recording[v].warned)

RetentionInv ==
  /\ RetentionTypeOK
  /\ LeftUnwarned /\ ToldWereMailed /\ ChosenAreOver /\ MailedBefore /\ MailedThenWarned

RoundWarnings == [pc : {"warnings"}, left : SUBSET Recordings]
RoundMark == [pc : {"mark"}, left : SUBSET Recordings, told : SUBSET Recordings]
RoundDelete == [pc : {"delete"}, chosen : SUBSET Recordings]

LEMMA RoundIs ==
  ASSUME RetentionTypeOK
  PROVE  /\ round.pc \in {"off", "deletions", "warnings", "mark", "delete"}
         /\ round.pc = "warnings" => round \in RoundWarnings
         /\ round.pc = "mark" => round \in RoundMark
         /\ round.pc = "delete" => round \in RoundDelete
<1>1. round \in Round
  BY DEF RetentionTypeOK
<1> QED
  BY <1>1 DEF Round, RoundWarnings, RoundMark, RoundDelete

LEMMA RoundsAre ==
  /\ Off \in Round /\ Off.pc = "off" /\ [pc |-> "deletions"] \in Round
  /\ RoundWarnings \subseteq Round /\ RoundMark \subseteq Round /\ RoundDelete \subseteq Round
  BY DEF Off, Round, RoundWarnings, RoundMark, RoundDelete

LEMMA RecordingAt ==
  ASSUME RetentionTypeOK, NEW v \in Recordings
  PROVE  /\ Stored(v) => recording[v] \in Recording
         /\ mailed[v] \in Days \cup {Never}
         /\ Days \subseteq Nat /\ Never \notin Days /\ today \in Days
  BY RetentionAssumption DEF RetentionTypeOK, Stored, Days

\* A step of users or of time: no round goes on, no mail is sent, no mark is set or
\* taken away, and no row disappears.
LEMMA UserKeeps ==
  ASSUME RetentionInv, RetentionTypeOK', UNCHANGED <<round, mailed>>, today <= today',
         \A v \in Recordings :
           \/ recording'[v] = recording[v]
           \/ Stored(v) /\ recording'[v] # Never /\ recording'[v].warned = recording[v].warned
           \/ ~Stored(v) /\ recording'[v].warned = Never
  PROVE  RetentionInv'
<1>0. RetentionTypeOK
  BY DEF RetentionInv
<1>1. today \in Nat /\ today' \in Nat /\ Grace \in Nat
  BY <1>0, RetentionAssumption DEF RetentionTypeOK, Days
<1>2. ASSUME NEW v \in Recordings, Stored(v)
      PROVE  /\ recording'[v] # Never /\ recording'[v].warned = recording[v].warned
             /\ recording[v].warned # Never => recording[v].warned \in Nat
  <2>1. recording[v].warned \in Days \cup {Never}
    BY <1>0, <1>2, RecordingAt DEF Recording
  <2> QED
    BY <1>0, <1>2, <2>1, RecordingAt DEF Stored
<1>3. LeftUnwarned'
  <2>1. round.pc \in {"warnings", "mark"} => round.left \subseteq Recordings
    BY <1>0, RoundIs DEF RoundWarnings, RoundMark
  <2> QED
    BY <1>2, <2>1 DEF RetentionInv, LeftUnwarned, Stored
<1>4. ToldWereMailed'
  <2>1. round.pc = "mark" => round.told \subseteq Recordings
    BY <1>0, RoundIs DEF RoundMark
  <2> QED
    BY <1>2, <2>1 DEF RetentionInv, ToldWereMailed, Stored
<1>5. ChosenAreOver'
  <2>1. round.pc = "delete" => round.chosen \subseteq Recordings
    BY <1>0, RoundIs DEF RoundDelete
  <2> QED
    BY <1>1, <1>2, <2>1 DEF RetentionInv, ChosenAreOver, Stored
<1>6. MailedBefore'
  <2> SUFFICES ASSUME NEW v \in Recordings, mailed[v] # Never
               PROVE  mailed[v] <= today'
    BY DEF MailedBefore
  <2>1. mailed[v] \in Nat /\ mailed[v] <= today
    BY <1>0, RecordingAt DEF RetentionInv, MailedBefore
  <2> QED
    BY <1>1, <2>1
<1>7. MailedThenWarned'
  BY <1>2 DEF RetentionInv, MailedThenWarned, Stored
<1> QED
  BY <1>3, <1>4, <1>5, <1>6, <1>7 DEF RetentionInv

LEMMA UserStepKeeps ==
  ASSUME RetentionInv,
         \/ \E v \in Recordings :
              \/ \E s \in Spaces \cup {NoSpace} : Record(v, s) \/ MoveRecording(v, s)
              \/ EditRecording(v) \/ TogglePin(v)
         \/ \E a \in Creators \cup Spaces, days \in Choices : SetRetentionDays(a, days)
         \/ NextDay
  PROVE  RetentionInv'
<1>0. RetentionTypeOK /\ today \in Nat /\ LastDay \in Nat /\ today <= today
  BY RetentionAssumption DEF RetentionInv, RetentionTypeOK, Days
<1>1. ASSUME NEW v \in Recordings, NEW r \in Recording, recording' = [recording EXCEPT ![v] = r],
             UNCHANGED <<retention, today, round, mailed>>,
             IF Stored(v) THEN r.warned = recording[v].warned ELSE r.warned = Never
      PROVE  RetentionInv'
  <2>1. RetentionTypeOK'
    BY <1>0, <1>1 DEF RetentionTypeOK
  <2>2. \A u \in Recordings : recording'[u] = IF u = v THEN r ELSE recording[u]
    BY <1>0, <1>1 DEF RetentionTypeOK
  <2>3. r # Never
    BY NoRecording
  <2> QED
    BY <1>0, <1>1, <2>1, <2>2, <2>3, UserKeeps
<1>2. ASSUME NEW v \in Recordings, NEW s \in Spaces \cup {NoSpace}, Record(v, s)
      PROVE  RetentionInv'
  <2> DEFINE r == [space |-> s, status |-> "ready", pinned |-> FALSE, born |-> today, warned |-> Never]
  <2>1. r \in Recording /\ r.warned = Never
    BY <1>0 DEF Recording, RetentionTypeOK
  <2>2. ~Stored(v) /\ recording' = [recording EXCEPT ![v] = r]
        /\ UNCHANGED <<retention, today, round, mailed>>
    BY <1>2 DEF Record
  <2> HIDE DEF r
  <2> QED
    BY <1>1, <2>1, <2>2
<1>3. ASSUME NEW v \in Recordings, NEW s \in Spaces \cup {NoSpace},
             MoveRecording(v, s) \/ EditRecording(v) \/ TogglePin(v)
      PROVE  RetentionInv'
  <2>1. Stored(v) /\ recording[v] \in Recording
    BY <1>0, <1>3, RecordingAt DEF MoveRecording, EditRecording, TogglePin, Present
  <2>2. PICK space \in Spaces \cup {NoSpace}, st \in {"processing", "ready", "deleted"},
             pinned \in BOOLEAN :
          recording' = [recording EXCEPT ![v] =
            [recording[v] EXCEPT !.space = space, !.status = st, !.pinned = pinned]]
    <3>1. /\ recording[v].space \in Spaces \cup {NoSpace} /\ recording[v].pinned \in BOOLEAN
          /\ recording[v].status \in {"processing", "ready", "deleted"}
      BY <2>1 DEF Recording
    <3>2. CASE MoveRecording(v, s)
      <4>1. [recording[v] EXCEPT !.space = s]
              = [recording[v] EXCEPT !.space = s, !.status = recording[v].status,
                                     !.pinned = recording[v].pinned]
        BY <2>1 DEF Recording
      <4>2. recording' = [recording EXCEPT ![v] = [recording[v] EXCEPT !.space = s]]
        BY <1>0, <3>2 DEF MoveRecording, RetentionTypeOK
      <4> QED
        BY <3>1, <4>1, <4>2
    <3>3. CASE EditRecording(v)
      <4>1. PICK st \in {"processing", "ready"} :
              recording' = [recording EXCEPT ![v] = [recording[v] EXCEPT !.status = st]]
        BY <1>0, <3>3 DEF EditRecording, RetentionTypeOK
      <4>2. [recording[v] EXCEPT !.status = st]
              = [recording[v] EXCEPT !.space = recording[v].space, !.status = st,
                                     !.pinned = recording[v].pinned]
        BY <2>1 DEF Recording
      <4> QED
        BY <3>1, <4>1, <4>2
    <3>4. CASE TogglePin(v)
      <4>1. PICK pinned \in BOOLEAN :
              recording' = [recording EXCEPT ![v] = [recording[v] EXCEPT !.pinned = pinned]]
        BY <1>0, <3>4 DEF TogglePin, RetentionTypeOK
      <4>2. [recording[v] EXCEPT !.pinned = pinned]
              = [recording[v] EXCEPT !.space = recording[v].space, !.status = recording[v].status,
                                     !.pinned = pinned]
        BY <2>1 DEF Recording
      <4> QED
        BY <3>1, <4>1, <4>2
    <3> QED
      BY <1>3, <3>2, <3>3, <3>4
  <2> DEFINE r == [recording[v] EXCEPT !.space = space, !.status = st, !.pinned = pinned]
  <2>3. r \in Recording /\ r.warned = recording[v].warned
    BY <2>1 DEF Recording
  <2>4. recording' = [recording EXCEPT ![v] = r] /\ UNCHANGED <<retention, today, round, mailed>>
    BY <1>3, <2>2 DEF MoveRecording, EditRecording, TogglePin
  <2> HIDE DEF r
  <2> QED
    BY <1>1, <2>1, <2>3, <2>4
<1>4. ASSUME NEW a \in Creators \cup Spaces, NEW days \in Choices, SetRetentionDays(a, days)
      PROVE  RetentionInv'
  <2>1. RetentionTypeOK' /\ UNCHANGED <<recording, today, round, mailed>>
    BY <1>0, <1>4 DEF SetRetentionDays, RetentionTypeOK
  <2> QED
    BY <1>0, <2>1, UserKeeps
<1>5. CASE NextDay
  <2>1. /\ RetentionTypeOK' /\ today <= today' /\ UNCHANGED <<recording, round, mailed>>
    BY <1>0, <1>5 DEF NextDay, RetentionTypeOK, Days
  <2> QED
    BY <2>1, UserKeeps
<1>6. Spaces \cup {NoSpace} # {}
  OBVIOUS
<1> QED
  BY <1>2, <1>3, <1>4, <1>5, <1>6

LEMMA StartRoundKeeps ==
  ASSUME RetentionInv, StartRound
  PROVE  RetentionInv'
<1>1. PICK ids \in UpToLimit({v \in Recordings : Outdated(v)}) :
        round' = [pc |-> "warnings", left |-> ids]
  BY DEF StartRound
<1>2. ids \subseteq Recordings /\ \A v \in ids : Stored(v) /\ recording[v].warned = Never
  BY DEF UpToLimit, Outdated
<1>3. /\ round' \in RoundWarnings /\ round'.pc = "warnings" /\ round'.left = ids
      /\ UNCHANGED <<recording, retention, today, mailed>>
  BY <1>1, <1>2 DEF RoundWarnings, StartRound
<1> QED
  BY <1>2, <1>3, RoundsAre
  DEF RetentionInv, RetentionTypeOK, LeftUnwarned, ToldWereMailed, ChosenAreOver, MailedBefore,
      MailedThenWarned, Stored

\* A mail goes to videos that are not marked, so that MailedThenWarned is left alone.
LEMMA SendWarningKeeps ==
  ASSUME RetentionInv, NEW u \in Creators, SendWarning(u)
  PROVE  RetentionInv'
<1>0. RetentionTypeOK /\ round \in RoundWarnings /\ round.pc = "warnings"
  BY RoundIs DEF RetentionInv, SendWarning
<1> DEFINE ids == {v \in round.left : CreatorOf[v] = u}
           others == round.left \ ids
<1>1. PICK sent \in BOOLEAN, told \in BOOLEAN :
        /\ told => (sent \/ ~MailWorks)
        /\ mailed' = [v \in Recordings |-> IF sent /\ v \in ids THEN today ELSE mailed[v]]
        /\ round' = IF told THEN [pc |-> "mark", left |-> others, told |-> ids]
                    ELSE [pc |-> "warnings", left |-> others]
  BY DEF SendWarning
<1>2. /\ ids \subseteq Recordings /\ others \subseteq round.left /\ round.left \subseteq Recordings
      /\ ids \subseteq round.left /\ ids \cap others = {}
  BY <1>0 DEF RoundWarnings
<1>3. UNCHANGED <<recording, retention, today>> /\ today \in Days
  BY <1>0 DEF SendWarning, RetentionTypeOK
<1>4. \A v \in Recordings : mailed'[v] = IF sent /\ v \in ids THEN today ELSE mailed[v]
  BY <1>1
<1>5. \A v \in round.left : Stored(v) /\ recording[v].warned = Never
  BY <1>0 DEF RetentionInv, LeftUnwarned
<1>6. \/ /\ told /\ round' \in RoundMark /\ round'.pc = "mark"
         /\ round'.left = others /\ round'.told = ids
      \/ round' \in RoundWarnings /\ round'.pc = "warnings" /\ round'.left = others
  BY <1>1, <1>2 DEF RoundMark, RoundWarnings
<1> HIDE DEF ids, others
<1>7. RetentionTypeOK'
  <2>1. round' \in Round
    BY <1>6, RoundsAre
  <2>2. mailed' \in [Recordings -> Days \cup {Never}]
    BY <1>0, <1>1, <1>3 DEF RetentionTypeOK
  <2> QED
    BY <1>0, <1>3, <2>1, <2>2 DEF RetentionTypeOK
<1>8. LeftUnwarned'
  BY <1>2, <1>3, <1>5, <1>6 DEF LeftUnwarned, Stored
<1>9. ToldWereMailed'
  <2>1. ASSUME told, MailWorks, NEW v \in ids
        PROVE  mailed'[v] # Never
    BY <1>1, <1>2, <1>3, <1>4, <2>1, RetentionAssumption DEF Days
  <2> QED
    BY <1>2, <1>3, <1>5, <1>6, <2>1 DEF ToldWereMailed, Stored
<1>10. ChosenAreOver'
  BY <1>6 DEF ChosenAreOver
<1>11. MailedBefore'
  <2>1. today \in Nat
    BY <1>3, RetentionAssumption DEF Days
  <2> QED
    BY <1>3, <1>4, <2>1 DEF RetentionInv, MailedBefore
<1>12. MailedThenWarned'
  <2> SUFFICES ASSUME MailWorks, NEW v \in Recordings, Stored(v), recording[v].warned # Never
               PROVE  mailed'[v] # Never /\ mailed'[v] <= recording[v].warned
    BY <1>3 DEF MailedThenWarned, Stored
  <2>1. v \notin ids
    BY <1>2, <1>5
  <2> QED
    BY <1>4, <2>1 DEF RetentionInv, MailedThenWarned
<1> QED
  BY <1>7, <1>8, <1>9, <1>10, <1>11, <1>12 DEF RetentionInv

LEMMA MarkWarnedKeeps ==
  ASSUME RetentionInv, MarkWarned
  PROVE  RetentionInv'
<1>0. RetentionTypeOK /\ round \in RoundMark /\ round.pc = "mark"
  BY RoundIs DEF RetentionInv, MarkWarned
<1>1. /\ round.left \subseteq Recordings /\ round.told \subseteq Recordings
      /\ \A v \in round.left : Stored(v) /\ recording[v].warned = Never /\ v \notin round.told
      /\ \A v \in round.told : Stored(v) /\ (MailWorks => mailed[v] # Never)
  BY <1>0 DEF RetentionInv, LeftUnwarned, ToldWereMailed, RoundMark
<1>2. /\ round' \in RoundWarnings /\ round'.pc = "warnings" /\ round'.left = round.left
      /\ UNCHANGED <<retention, today, mailed>>
  BY <1>1 DEF MarkWarned, RoundWarnings
<1>3. today \in Days /\ today \in Nat
  BY <1>0, RetentionAssumption DEF RetentionTypeOK, Days
<1>4. /\ \A v \in Recordings \ round.told : recording'[v] = recording[v]
      /\ \A v \in round.told :
           recording'[v] = recording[v] \/ recording'[v] = [recording[v] EXCEPT !.warned = today]
      /\ recording' \in [Recordings -> Recording \cup {Never}]
  <2>1. CASE UNCHANGED recording
    BY <1>0, <2>1 DEF RetentionTypeOK
  <2>2. CASE recording' = [v \in Recordings |->
               IF v \in round.told THEN [recording[v] EXCEPT !.warned = today] ELSE recording[v]]
    <3>1. \A v \in round.told : [recording[v] EXCEPT !.warned = today] \in Recording
      <4> TAKE v \in round.told
      <4>1. recording[v] \in Recording
        BY <1>0, <1>1, RecordingAt
      <4> QED
        BY <1>3, <4>1 DEF Recording
    <3> QED
      BY <1>0, <1>1, <2>2, <3>1 DEF RetentionTypeOK
  <2> QED
    BY <2>1, <2>2 DEF MarkWarned
<1>5. ASSUME NEW v \in round.told
      PROVE  /\ recording'[v] # Never
             /\ recording'[v].warned \in {recording[v].warned, today}
  <2>1. recording[v] \in Recording
    BY <1>0, <1>1, RecordingAt
  <2>2. [recording[v] EXCEPT !.warned = today] \in Recording
    BY <1>3, <2>1 DEF Recording
  <2>3. [recording[v] EXCEPT !.warned = today].warned = today
    BY <2>1 DEF Recording
  <2> QED
    BY <1>4, <2>1, <2>2, <2>3, NoRecording
<1>6. RetentionTypeOK'
  BY <1>0, <1>2, <1>4, RoundsAre DEF RetentionTypeOK
<1>7. LeftUnwarned'
  BY <1>1, <1>2, <1>4 DEF LeftUnwarned, Stored
<1>8. ToldWereMailed' /\ ChosenAreOver'
  BY <1>2 DEF ToldWereMailed, ChosenAreOver
<1>9. MailedBefore'
  BY <1>2 DEF RetentionInv, MailedBefore
<1>10. MailedThenWarned'
  <2> SUFFICES ASSUME MailWorks, NEW v \in Recordings, recording'[v] # Never,
                      recording'[v].warned # Never
               PROVE  mailed[v] # Never /\ mailed[v] <= recording'[v].warned
    BY <1>2 DEF MailedThenWarned, Stored
  <2>1. CASE recording'[v].warned = recording[v].warned /\ Stored(v)
    BY <2>1 DEF RetentionInv, MailedThenWarned
  <2>2. CASE v \in round.told /\ recording'[v].warned = today
    BY <1>1, <2>2 DEF RetentionInv, MailedBefore
  <2>3. v \in round.told \/ recording'[v] = recording[v]
    BY <1>4
  <2> QED
    BY <1>1, <1>5, <2>1, <2>2, <2>3 DEF Stored
<1> QED
  BY <1>6, <1>7, <1>8, <1>9, <1>10 DEF RetentionInv

\* The deletions: what is chosen is over now, and stays it while the days go by.
LEMMA DeletionKeeps ==
  ASSUME RetentionInv, WarningsDone \/ ChooseExpired \/ BreakRound \/ DeleteChosen
  PROVE  RetentionInv'
<1>0. RetentionTypeOK
  BY DEF RetentionInv
<1>1. ASSUME UNCHANGED <<recording, retention, today, mailed>>, round' \in Round,
             round'.pc \in {"off", "deletions", "delete"}, ChosenAreOver'
      PROVE  RetentionInv'
  BY <1>1 DEF RetentionInv, RetentionTypeOK, LeftUnwarned, ToldWereMailed, MailedBefore,
              MailedThenWarned, Stored
<1>2. CASE WarningsDone
  <2> DEFINE r == [pc |-> "deletions"]
  <2>1. round' = r /\ r \in Round /\ r.pc = "deletions"
    BY <1>2, RoundsAre DEF WarningsDone
  <2> QED
    BY <1>1, <1>2, <2>1 DEF WarningsDone, ChosenAreOver
<1>3. CASE BreakRound
  BY <1>1, <1>3, RoundsAre DEF BreakRound, ChosenAreOver
<1>4. CASE ChooseExpired
  <2>1. PICK ids \in UpToLimit({v \in Recordings : Expired(v)}) :
          round' = IF ids = {} THEN Off ELSE [pc |-> "delete", chosen |-> ids]
    BY <1>4 DEF ChooseExpired
  <2>2. /\ ids \subseteq Recordings
        /\ \A v \in ids : Stored(v) /\ recording[v].warned # Never
                                    /\ recording[v].warned + Grace < today
    BY DEF UpToLimit, Expired
  <2>3. CASE round' = Off
    BY <1>1, <1>4, <2>3, RoundsAre DEF ChooseExpired, ChosenAreOver
  <2>4. CASE round' = [pc |-> "delete", chosen |-> ids]
    <3>1. round' \in RoundDelete /\ round'.pc = "delete" /\ round'.chosen = ids
      BY <2>2, <2>4 DEF RoundDelete
    <3>2. UNCHANGED <<recording, retention, today, mailed>>
      BY <1>4 DEF ChooseExpired
    <3>3. ChosenAreOver'
      BY <2>2, <3>1, <3>2 DEF ChosenAreOver, Stored
    <3> QED
      BY <1>1, <3>1, <3>2, <3>3, RoundsAre
  <2> QED
    BY <2>1, <2>3, <2>4
<1>5. CASE DeleteChosen
  <2>1. /\ round.pc = "delete" /\ round \in RoundDelete /\ round' = Off
        /\ recording' = [v \in Recordings |->
             IF v \in round.chosen THEN [recording[v] EXCEPT !.status = "deleted"] ELSE recording[v]]
        /\ UNCHANGED <<retention, today, mailed>>
    BY <1>0, <1>5, RoundIs DEF DeleteChosen
  <2>2. round.chosen \subseteq Recordings /\ \A v \in round.chosen : Stored(v)
    BY <2>1 DEF RetentionInv, ChosenAreOver, RoundDelete
  <2>3. ASSUME NEW v \in round.chosen
        PROVE  /\ recording'[v] \in Recording /\ recording'[v].warned = recording[v].warned
    <3>1. recording[v] \in Recording
      BY <1>0, <2>2, RecordingAt
    <3>2. recording'[v] = [recording[v] EXCEPT !.status = "deleted"]
      BY <2>1, <2>2
    <3> QED
      BY <3>1, <3>2 DEF Recording
  <2>4. \A v \in Recordings \ round.chosen : recording'[v] = recording[v]
    BY <2>1
  <2>5. recording' \in [Recordings -> Recording \cup {Never}]
    BY <1>0, <2>1, <2>3, <2>4 DEF RetentionTypeOK
  <2>6. RetentionTypeOK'
    BY <1>0, <2>1, <2>5, RoundsAre DEF RetentionTypeOK
  <2>7. round'.pc = "off"
    BY <2>1, RoundsAre
  <2>8. MailedThenWarned'
    BY <2>1, <2>2, <2>3, <2>4 DEF RetentionInv, MailedThenWarned, Stored
  <2> QED
    BY <2>1, <2>6, <2>7, <2>8
    DEF RetentionInv, LeftUnwarned, ToldWereMailed, ChosenAreOver, MailedBefore
<1> QED
  BY <1>2, <1>3, <1>4, <1>5

LEMMA RetentionStart == RetentionInit => RetentionInv
  BY RoundsAre, RetentionAssumption
  DEF RetentionInit, RetentionInv, RetentionTypeOK, Days, LeftUnwarned, ToldWereMailed,
      ChosenAreOver, MailedBefore, MailedThenWarned, Stored

LEMMA RetentionStep ==
  ASSUME RetentionInv, [RetentionNext]_retentionVars
  PROVE  RetentionInv'
<1>1. CASE UNCHANGED retentionVars
  BY <1>1 DEF retentionVars, RetentionInv, RetentionTypeOK, LeftUnwarned, ToldWereMailed,
              ChosenAreOver, MailedBefore, MailedThenWarned, Stored
<1> QED
  BY <1>1, UserStepKeeps, StartRoundKeeps, SendWarningKeeps, MarkWarnedKeeps, DeletionKeeps
  DEF RetentionNext, SendWarnings

\* Videos, settings, rounds and mails keep their types (retention_worker.go): a round never
\* names a video without a row.
THEOREM RetentionTyped == RetentionSpec => []RetentionTypeOK
<1>1. RetentionInv /\ [RetentionNext]_retentionVars => RetentionInv'
  BY RetentionStep
<1>2. RetentionInv => RetentionTypeOK
  BY DEF RetentionInv
<1> QED
  BY <1>1, <1>2, RetentionStart, PTL DEF RetentionSpec

\* No video is about to be deleted that its creator was not told of more than seven days
\* ago, for any batches, settings, failures and restarts (processRetentionWarnings marks
\* after the mail; processRetentionDeletions asks for the mark).
THEOREM DeletedWereWarned == RetentionSpec => []WarnedBeforeDeleted
<1>1. RetentionInv /\ [RetentionNext]_retentionVars => RetentionInv'
  BY RetentionStep
<1>2. ASSUME RetentionInv PROVE WarnedBeforeDeleted
  <2> SUFFICES ASSUME MailWorks, round.pc = "delete", NEW v \in round.chosen
               PROVE  mailed[v] # Never /\ mailed[v] + Grace < today
    BY DEF WarnedBeforeDeleted
  <2>0. RetentionTypeOK
    BY <1>2 DEF RetentionInv
  <2>1. v \in Recordings /\ Stored(v) /\ recording[v].warned # Never
        /\ recording[v].warned + Grace < today
    BY <1>2, <2>0, RoundIs DEF RetentionInv, ChosenAreOver, RoundDelete
  <2>2. mailed[v] # Never /\ mailed[v] <= recording[v].warned
    BY <1>2, <2>1 DEF RetentionInv, MailedThenWarned
  <2>3. mailed[v] \in Nat /\ today \in Nat /\ Grace \in Nat
    BY <2>0, <2>1, <2>2, RecordingAt, RetentionAssumption DEF Days
  <2>4. recording[v].warned \in Nat
    <3>1. recording[v] \in Recording
      BY <2>0, <2>1, RecordingAt
    <3> QED
      BY <2>1, <3>1, RetentionAssumption DEF Recording, Days
  <2> QED
    BY <2>1, <2>2, <2>3, <2>4
<1> QED
  BY <1>1, <1>2, RetentionStart, PTL DEF RetentionSpec

-----------------------------------------------------------------------------
(***************************************************************************)
(* The runs of MCWorkers.                                                  *)
(***************************************************************************)

\* Every behaviour of the composed instance is one of either part, but for the fairness:
\* what is proved of the parts holds in the run.
THEOREM WorkersAreParts == WorkersSpec => Spec /\ RetentionInit /\ [][RetentionNext]_retentionVars
<1>1. WorkersInit => Init /\ RetentionInit
  BY DEF WorkersInit
<1>2. [WorkersNext]_allVars => [Next]_vars
  BY DEF WorkersNext, InQueues, InRetention, allVars
<1>3. [WorkersNext]_allVars => [RetentionNext]_retentionVars
  BY DEF WorkersNext, InQueues, InRetention, allVars
<1> QED
  BY <1>1, <1>2, <1>3, PTL DEF WorkersSpec, Spec

\* The three queues, the rounds of the retention worker and the rows of both are well
\* typed in it.
THEOREM WorkersTyped == WorkersSpec => []TypesOK
<1>1. RetentionInv /\ [RetentionNext]_retentionVars => RetentionInv'
  BY RetentionStep
<1>2. TypeOK /\ RetentionInv => TypesOK
  BY DEF TypesOK, RetentionInv
<1> QED
  BY <1>1, <1>2, RetentionStart, WorkersAreParts, QueuesTyped, PTL
=============================================================================
