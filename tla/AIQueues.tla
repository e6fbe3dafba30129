------------------------------- MODULE AIQueues -------------------------------
(***************************************************************************)
(* The queues in the videos table: transcription (transcribe_worker.go,    *)
(* transcribe.go) and what is derived from a transcript, the summary       *)
(* (summary_worker.go) and the document (document_worker.go).  A queue is  *)
(* a status column and the time of the last claim; every replica runs one  *)
(* worker per queue, which resets claims that got too old, claims one row  *)
(* and works on it without looking at the row again.                       *)
(*                                                                         *)
(* A result is abstracted to the number of requests its claim had seen.    *)
(***************************************************************************)
EXTENDS Integers, FiniteSets

CONSTANTS Videos,
          NoVideo,      \* what an idle worker works on
          Replicas,     \* processes
          Derived,      \* the derived queues a run follows
          StuckAfter,   \* ticks after which a claim is presumed dead
          MaxRequests   \* requests per video and queue (bounds the model)

ASSUME QueueAssumption ==
  /\ NoVideo \notin Videos
  /\ Derived \subseteq {"summary", "document"}
  /\ StuckAfter \in Nat /\ MaxRequests \in Nat

VARIABLES deleted,  \* the videos with status = 'deleted'
          status,   \* of a video in a queue
          started,  \* ticks since the claim of a video in a queue, or Nil
          asked,    \* number of requests for a video in a queue
          result,   \* the request the stored result answers, or Nil
          worker    \* the worker of each replica and queue

vars == <<deleted, status, started, asked, result, worker>>

Nil == -1
Queues == {"transcript"} \cup Derived

\* "failed" stands for 'no_audio' and 'too_short' too: the job ends without a result.
Statuses == {"none", "pending", "processing", "ready", "failed"}

Worker == [pc    : {"idle", "work", "chain"},
           video : Videos \cup {NoVideo},
           seen  : Nat,    \* requests its claim had seen
           age   : Nat]    \* ticks since its claim

IdleWorker == [pc |-> "idle", video |-> NoVideo, seen |-> 0, age |-> 0]

Init ==
  /\ deleted = {}
  /\ status  = [q \in Queues |-> [v \in Videos |-> "none"]]
  /\ started = [q \in Queues |-> [v \in Videos |-> Nil]]
  /\ asked   = [q \in Queues |-> [v \in Videos |-> 0]]
  /\ result  = [q \in Queues |-> [v \in Videos |-> Nil]]
  /\ worker  = [r \in Replicas |-> [q \in Queues |-> IdleWorker]]

Show(q, v, s)  == status' = [status EXCEPT ![q][v] = s]
Since(q, v, n) == started' = [started EXCEPT ![q][v] = n]
Store(q, v, n) == result' = [result EXCEPT ![q][v] = n]
Become(r, q, w) == worker' = [worker EXCEPT ![r][q] = w]

\* A plausible mistake, to test the properties: a status that the column's CHECK
\* constraint does not know.
RequestMisspelt(q, v) ==
  /\ asked[q][v] < MaxRequests
  /\ asked' = [asked EXCEPT ![q][v] = @ + 1]
  /\ Show(q, v, "queued")

Request(q, v) ==
  /\ asked[q][v] < MaxRequests
  /\ asked' = [asked EXCEPT ![q][v] = @ + 1]
  /\ Show(q, v, "pending")

(***************************************************************************)
(* Requests.                                                               *)
(***************************************************************************)

\* EnqueueTranscription, for a finalized upload, an edit and Retranscribe: the
\* row is queued whatever its status in the queue is.
EnqueueTranscription(v) ==
  /\ v \notin deleted
  /\ Request("transcript", v)
  /\ UNCHANGED <<deleted, started, result, worker>>

\* A plausible mistake, to test the properties: no transcript is asked for.
DeriveWithoutTranscript(q, v) ==
  /\ q \in Derived /\ v \notin deleted
  /\ Request(q, v)
  /\ Store(q, v, Nil)
  /\ UNCHANGED <<deleted, started, worker>>

\* Summarize and GenerateDocument; the old result is cleared.
Derive(q, v) ==
  /\ q \in Derived /\ v \notin deleted
  /\ status["transcript"][v] = "ready"
  /\ Request(q, v)
  /\ Store(q, v, Nil)
  /\ UNCHANGED <<deleted, started, worker>>

\* UploadTranscript: a transcript from outside, which answers every request.  The
\* row is read first and written without a look at its status, so the video may
\* have been deleted in between.
UploadTranscript(v) ==
  /\ Show("transcript", v, "ready")
  /\ Since("transcript", v, Nil)
  /\ Store("transcript", v, asked["transcript"][v])
  /\ UNCHANGED <<deleted, asked, worker>>

Delete(v) ==
  /\ v \notin deleted
  /\ deleted' = deleted \cup {v}
  /\ UNCHANGED <<status, started, asked, result, worker>>

(***************************************************************************)
(* A worker's pass.                                                        *)
(***************************************************************************)

\* Plausible mistakes, to test the properties: claims are taken back before their
\* time, or only when their time is unknown.
StuckTooEarly(q, v) ==
  /\ status[q][v] = "processing"
  /\ started[q][v] >= StuckAfter - 1 \/ started[q][v] = Nil

StuckOfUnknownAge(q, v) == status[q][v] = "processing" /\ started[q][v] = Nil

Stuck(q, v) ==
  /\ status[q][v] = "processing"
  /\ started[q][v] >= StuckAfter \/ started[q][v] = Nil

ResetStuck(q) ==
  /\ \E v \in Videos : Stuck(q, v)
  /\ status'  = [status EXCEPT ![q] =
                   [v \in Videos |-> IF Stuck(q, v) THEN "pending" ELSE status[q][v]]]
  /\ started' = [started EXCEPT ![q] =
                   [v \in Videos |-> IF Stuck(q, v) THEN Nil ELSE started[q][v]]]
  /\ UNCHANGED <<deleted, asked, result, worker>>

\* FOR UPDATE SKIP LOCKED: choosing the row and marking it are one step.
Claim(r, q, v) ==
  /\ worker[r][q].pc = "idle"
  /\ status[q][v] = "pending" /\ v \notin deleted
  /\ Show(q, v, "processing")
  /\ Since(q, v, 0)
  /\ Become(r, q, [pc |-> "work", video |-> v, seen |-> asked[q][v], age |-> 0])
  /\ UNCHANGED <<deleted, asked, result>>

\* The result is written whatever happened to the row since the claim.  A
\* transcription goes on to queue the summary.
Finish(r, q) == LET v == worker[r][q].video IN
  /\ worker[r][q].pc = "work"
  /\ Show(q, v, "ready")
  /\ Since(q, v, Nil)
  /\ Store(q, v, worker[r][q].seen)
  /\ Become(r, q, IF q = "transcript" /\ "summary" \in Derived
                  THEN [worker[r][q] EXCEPT !.pc = "chain"] ELSE IdleWorker)
  /\ UNCHANGED <<deleted, asked>>

ChainSummary(r) == LET v == worker[r]["transcript"].video IN
  /\ "summary" \in Derived
  /\ worker[r]["transcript"].pc = "chain"
  /\ Request("summary", v)
  /\ Become(r, "transcript", IdleWorker)
  /\ UNCHANGED <<deleted, started, result>>

\* No input, no audio, too short, or the provider or the storage failed.
Fail(r, q) == LET v == worker[r][q].video IN
  /\ worker[r][q].pc = "work"
  /\ Show(q, v, "failed")
  /\ Since(q, v, Nil)
  /\ Become(r, q, IdleWorker)
  /\ UNCHANGED <<deleted, asked, result>>

\* The process dies, or the last UPDATE fails: the row stays as it is.
Vanish(r, q) ==
  /\ worker[r][q].pc # "idle"
  /\ Become(r, q, IdleWorker)
  /\ UNCHANGED <<deleted, status, started, asked, result>>

\* Clocks are not read beyond StuckAfter.
Later(n) == IF n \in 0 .. StuckAfter - 1 THEN n + 1 ELSE n

Tick ==
  /\ \E q \in Queues, v \in Videos :
       status[q][v] = "processing" /\ started[q][v] < StuckAfter
  /\ started' = [q \in Queues |-> [v \in Videos |-> Later(started[q][v])]]
  /\ worker' = [r \in Replicas |-> [q \in Queues |->
                  IF worker[r][q].pc = "idle" THEN worker[r][q]
                  ELSE [worker[r][q] EXCEPT !.age = Later(@)]]]
  /\ UNCHANGED <<deleted, status, asked, result>>

Settle(r, q) == Finish(r, q) \/ Fail(r, q)

Next ==
  \/ \E v \in Videos :
       \/ EnqueueTranscription(v) \/ UploadTranscript(v) \/ Delete(v)
       \/ \E q \in Derived : Derive(q, v)
       \/ \E r \in Replicas, q \in Queues : Claim(r, q, v)
  \/ \E q \in Queues : ResetStuck(q)
  \/ \E r \in Replicas : ChainSummary(r)
  \/ \E r \in Replicas, q \in Queues : Settle(r, q) \/ Vanish(r, q)
  \/ Tick

Spec == Init /\ [][Next]_vars

(***************************************************************************)
(* Workers run on tickers as long as some replica does.  Rows are claimed  *)
(* oldest update first, so a row that stays pending is not passed over for *)
(* ever.  A provider answers or fails (its client has a timeout), and a    *)
(* worker may die any number of times, but not every time.                 *)
(***************************************************************************)
Fairness ==
  /\ WF_vars(Tick)
  /\ \A q \in Queues : WF_vars(ResetStuck(q))
  /\ \A q \in Queues, v \in Videos : SF_vars(\E r \in Replicas : Claim(r, q, v))
  /\ \A q \in Queues, r \in Replicas : SF_vars(Settle(r, q))
  /\ \A r \in Replicas : WF_vars(ChainSummary(r) \/ Vanish(r, "transcript"))

FairSpec == Spec /\ Fairness

-----------------------------------------------------------------------------
TypeOK ==
  /\ deleted \subseteq Videos
  /\ status \in [Queues -> [Videos -> Statuses]]
  /\ started \in [Queues -> [Videos -> Nat \cup {Nil}]]
  /\ asked \in [Queues -> [Videos -> Nat]]
  /\ result \in [Queues -> [Videos -> Nat \cup {Nil}]]
  /\ worker \in [Replicas -> [Queues -> Worker]]

Works(r, q, v) == worker[r][q].pc = "work" /\ worker[r][q].video = v

\* Replicas do not do one request twice: two workers are on a row of a queue
\* together only if something new was asked in between, or one of them has held
\* its claim for so long that it was presumed dead.
ClaimsDistinct ==
  \A q \in Queues, v \in Videos : \A r, s \in Replicas :
    r # s /\ Works(r, q, v) /\ Works(s, q, v) =>
      \/ worker[r][q].seen # worker[s][q].seen
      \/ StuckAfter \in {worker[r][q].age, worker[s][q].age}

\* "Only transcribed videos are summarised": whatever is queued, claimed or
\* finished in a derived queue has a transcript to work from.
DerivedHaveTranscript ==
  \A q \in Derived, v \in Videos :
    status[q][v] # "none" => result["transcript"][v] # Nil

\* Whatever workers die, a video that is queued or claimed comes to a result or to
\* a failure, unless it is deleted.
RequestsSettle ==
  \A q \in Queues, v \in Videos :
    status[q][v] \in {"pending", "processing"}
      ~> status[q][v] \in {"ready", "failed"} \/ v \in deleted

(***************************************************************************)
(* Why ClaimsDistinct holds: the inductive invariant of AIQueuesProofs.    *)
(***************************************************************************)
WorkersHaveVideos ==
  \A r \in Replicas, q \in Queues :
    /\ worker[r][q].pc # "idle" => worker[r][q].video \in Videos
    /\ worker[r][q].age <= StuckAfter

\* A worker that has seen the last request.
UpToDate(r, q, v) == Works(r, q, v) /\ worker[r][q].seen = asked[q][v]

NoneSawMore ==
  \A q \in Queues, v \in Videos, r \in Replicas :
    Works(r, q, v) => worker[r][q].seen <= asked[q][v]

\* A row is only offered again for the same request once every worker that has it
\* is presumed dead.
OfferedAgainLate ==
  \A q \in Queues, v \in Videos, r \in Replicas :
    status[q][v] = "pending" /\ UpToDate(r, q, v) => worker[r][q].age = StuckAfter

\* The claim the row records is the youngest for its request.
YoungestRecorded ==
  \A q \in Queues, v \in Videos :
    status[q][v] = "processing" =>
      /\ started[q][v] \in 0 .. StuckAfter
      /\ \A r \in Replicas : UpToDate(r, q, v) => worker[r][q].age >= started[q][v]

ClaimInv ==
  /\ TypeOK /\ WorkersHaveVideos /\ NoneSawMore
  /\ OfferedAgainLate /\ YoungestRecorded /\ ClaimsDistinct

\* Why DerivedHaveTranscript holds: a transcript is replaced, never removed.
ReadyIsStored ==
  \A v \in Videos :
    status["transcript"][v] = "ready" => result["transcript"][v] # Nil

ChainsStored ==
  \A r \in Replicas : worker[r]["transcript"].pc = "chain" =>
    result["transcript"][worker[r]["transcript"].video] # Nil

WorkedOnWasAsked ==
  \A r \in Replicas, q \in Queues, v \in Videos :
    Works(r, q, v) => status[q][v] # "none"

DerivedInv ==
  /\ ClaimInv /\ ReadyIsStored /\ ChainsStored /\ WorkedOnWasAsked
  /\ DerivedHaveTranscript

(***************************************************************************)
(* What the repository says and the code does not do.                      *)
(***************************************************************************)

\* "Triggers a new transcription of the video": a transcript that is shown as
\* ready answers the last request for one.
NewTranscriptionMade ==
  \A v \in Videos :
    status["transcript"][v] = "ready" => result["transcript"][v] = asked["transcript"][v]
=============================================================================
