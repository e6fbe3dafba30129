------------------------------- MODULE EditLease -------------------------------
(***************************************************************************)
(* What the status column promises about editing, without the jobs, the    *)
(* clock or the bucket.  A video's file is rewritten by at most one holder *)
(* at a time; while there is one the video is shown as busy, or has been   *)
(* deleted meanwhile; a video left busy by a holder that died is given     *)
(* back, and never while its holder lives; a deleted video comes back only *)
(* through the holder it had when it was deleted.                          *)
(***************************************************************************)
CONSTANTS Videos, Holders
VARIABLES shown, holders

lease == <<shown, holders>>

Shown == {"none", "uploading", "processing", "ready", "deleted"}

LeaseInit ==
  /\ shown = [v \in Videos |-> "none"]
  /\ holders = [v \in Videos |-> {}]

Show(v, s) == shown' = [shown EXCEPT ![v] = s]
Hold(v, S) == holders' = [holders EXCEPT ![v] = S]

Begin(v) == shown[v] = "none" /\ Show(v, "uploading") /\ UNCHANGED holders

Offer(v) == shown[v] = "uploading" /\ Show(v, "ready") /\ UNCHANGED holders

\* A composite acquires an upload, an edit a ready video.
Acquire(v, h) ==
  /\ shown[v] \in {"uploading", "ready"}
  /\ holders[v] = {}
  /\ Show(v, "processing")
  /\ Hold(v, {h})

\* The process dies after the row is marked and before its job runs.
AcquireInVain(v) ==
  /\ shown[v] \in {"uploading", "ready"}
  /\ holders[v] = {}
  /\ Show(v, "processing")
  /\ UNCHANGED holders

Release(v, h) ==
  /\ shown[v] \in {"processing", "deleted"}
  /\ holders[v] = {h}
  /\ Show(v, "ready")
  /\ Hold(v, {})

Vanish(v, h) == holders[v] = {h} /\ Hold(v, {}) /\ UNCHANGED shown

Expire(S) ==
  /\ \A v \in S : shown[v] = "processing" /\ holders[v] = {}
  /\ shown' = [v \in Videos |-> IF v \in S THEN "ready" ELSE shown[v]]
  /\ UNCHANGED holders

Discard(v) ==
  /\ shown[v] \notin {"none", "deleted"}
  /\ Show(v, "deleted")
  /\ UNCHANGED holders

LeaseNext ==
  \/ \E v \in Videos :
       \/ Begin(v) \/ Offer(v) \/ Discard(v) \/ AcquireInVain(v)
       \/ \E h \in Holders : Acquire(v, h) \/ Release(v, h) \/ Vanish(v, h)
  \/ \E S \in SUBSET Videos : Expire(S)

Spec == LeaseInit /\ [][LeaseNext]_lease
=============================================================================
