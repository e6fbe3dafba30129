------------------------------- MODULE MCWorkers -------------------------------
(***************************************************************************)
(* Small instances of AIQueues and Retention.  They share no state here:   *)
(* each behaviour is one of one of them, told by part.                     *)
(***************************************************************************)
EXTENDS MCAIQueues, MCRetention

VARIABLE part

allVars == <<vars, retentionVars, part>>

WorkersInit == Init /\ RetentionInit /\ part \in {"queues", "retention"}

\* One video that moves and settings that change, or several videos outside workspaces
\* with the setting on; all of the first day, for a later one is not deleted by LastDay
\* (bounds the model).
FewRecordings ==
  LET stored == {v \in Recordings : Stored(v)} IN
  /\ \A v \in stored : recording[v].born = 0
  /\ Cardinality(stored) > 1 =>
       /\ \A v \in stored : recording[v].space = NoSpace
       /\ \A a \in DOMAIN retention : retention[a] # 0 <=> a \in Creators

InQueues(A) == part = "queues" /\ A /\ UNCHANGED <<retentionVars, part>>
InRetention(A) == part = "retention" /\ A /\ UNCHANGED <<vars, part>>

WorkersNext == InQueues(Next) \/ InRetention(RetentionNext /\ FewRecordings')

(***************************************************************************)
(* Fairness and RetentionFairness, each in its part.  TLC's work doubles   *)
(* with every SF_, so a condition of one part shares its SF_ with one of   *)
(* the other: only one of the two is ever enabled in a behaviour.          *)
(***************************************************************************)
First == CHOOSE r \in Replicas : TRUE

RoundStep(q, r) ==
  IF q = "transcript" THEN IF r = First THEN SendWarnings ELSE MarkWarned
                      ELSE IF r = First THEN WarningsDone ELSE ChooseExpired

WorkersFairness ==
  /\ WF_allVars(InQueues(Tick) \/ InRetention(StartRound))
  /\ \A q \in Queues : WF_allVars(InQueues(ResetStuck(q)))
  /\ \A q \in Queues, v \in Videos :
       SF_allVars(InQueues(\E r \in Replicas : Claim(r, q, v)) \/ InRetention(DeleteChosen))
  /\ \A q \in Queues, r \in Replicas :
       SF_allVars(InQueues(Settle(r, q)) \/ InRetention(RoundStep(q, r)))
  /\ \A r \in Replicas :
       WF_allVars(InQueues(ChainSummary(r) \/ Vanish(r, "transcript")))

WorkersSpec == WorkersInit /\ [][WorkersNext]_allVars /\ WorkersFairness

\* The state of both modules has its type.
TypesOK == TypeOK /\ RetentionTypeOK
=============================================================================
