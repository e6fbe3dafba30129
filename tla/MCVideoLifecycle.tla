--------------------------- MODULE MCVideoLifecycle ---------------------------
EXTENDS VideoLifecycle, TLC

Symmetry == Permutations(Tasks)

\* Thumbnails and the transcription status are written and never read, except to
\* know which thumbnail to remove: states that differ in nothing else are one.
Observed ==
  <<[v \in Videos |-> [row[v] EXCEPT !.thumb = FALSE, !.transcript = "none"]],
    [v \in Videos |-> [object[v] EXCEPT !["thumb"] = Nil]],
    [t \in Tasks |-> [task[t] EXCEPT !.extras = @ \ {"thumb"}]],
    retired, edits>>

\* The liveness run follows an MP4 recording with a webcam track, so that two
\* slots suffice: no goroutine is started that neither edits nor purges.
WebcamNext ==
  /\ Next
  /\ \A v \in Videos : row'[v].status # "none" => row'[v].key = "mp4"
  /\ \A t \in Tasks : task'[t].kind \in {"idle", "composite", "edit", "purge", "clean"}

WebcamSpec == Init /\ [][WebcamNext]_vars /\ Fairness
=============================================================================
