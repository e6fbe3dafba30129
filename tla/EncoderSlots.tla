----------------------------- MODULE EncoderSlots -----------------------------
(***************************************************************************)
(* encoder_slots.go: how many ffmpeg encodes of one process run at once.   *)
(* A gate is a buffered channel with one token in it for each encode that  *)
(* runs.  The process has one gate at a time and may replace it; an encode *)
(* stays with the gate it loaded, through its wait and until its release.  *)
(***************************************************************************)
EXTENDS Integers, FiniteSets

CONSTANTS Encodes,   \* goroutines on one of the five encoding paths
          Limits,    \* what MAX_CONCURRENT_ENCODES may be set to
          MaxSwaps   \* times the gate is replaced (bounds the model)

ASSUME SlotsAssumption ==
  /\ IsFiniteSet(Encodes)
  /\ Limits \subseteq Int
  /\ MaxSwaps \in Nat

VARIABLES current,   \* the gate ffmpegEncoders points to
          capacity,  \* capacity of each gate's channel
          tokens,    \* number of tokens in each gate's channel
          pc,        \* what each goroutine does
          gate,      \* the gate it loaded
          expired    \* the goroutines whose context is done

vars == <<current, capacity, tokens, pc, gate, expired>>

Gates == 0 .. MaxSwaps

DefaultEncoderConcurrency == 1

\* A plausible mistake, to test the properties: a limit of 0 is taken as it is.
Unclamped(limit) == limit

\* newEncoderSlots
Clamped(limit) == IF limit < 1 THEN 1 ELSE limit

Init ==
  /\ current = 0
  /\ capacity = [g \in Gates |-> DefaultEncoderConcurrency]
  /\ tokens = [g \in Gates |-> 0]
  /\ pc = [e \in Encodes |-> "idle"]
  /\ gate = [e \in Encodes |-> 0]
  /\ expired = {}

\* SetEncoderConcurrency stores a new gate; whoever loaded the old one keeps it.
SetEncoderConcurrency(limit) ==
  /\ current < MaxSwaps
  /\ current' = current + 1
  /\ capacity' = [capacity EXCEPT ![current + 1] = Clamped(limit)]
  /\ UNCHANGED <<tokens, pc, gate, expired>>

\* encoders().acquire(ctx): the gate is loaded, and the goroutine waits for room.
Enter(e) ==
  /\ pc[e] = "idle"
  /\ pc' = [pc EXCEPT ![e] = "waiting"]
  /\ gate' = [gate EXCEPT ![e] = current]
  /\ UNCHANGED <<current, capacity, tokens, expired>>

Expire(e) ==
  /\ pc[e] # "idle" /\ e \notin expired
  /\ expired' = expired \cup {e}
  /\ UNCHANGED <<current, capacity, tokens, pc, gate>>

\* A plausible mistake, to test the properties: the bound is off by one.
HasRoomForOneMore(g) == tokens[g] <= capacity[g]

HasRoom(g) == tokens[g] < capacity[g]

\* The select takes either branch when both are ready.
Acquire(e) ==
  /\ pc[e] = "waiting"
  /\ HasRoom(gate[e])
  /\ tokens' = [tokens EXCEPT ![gate[e]] = @ + 1]
  /\ pc' = [pc EXCEPT ![e] = "running"]
  /\ UNCHANGED <<current, capacity, gate, expired>>

\* A plausible mistake, to test the properties: the wait gives back a slot it
\* never had.
GiveUpReleasing(e) ==
  /\ pc[e] = "waiting" /\ e \in expired
  /\ tokens[gate[e]] > 0
  /\ tokens' = [tokens EXCEPT ![gate[e]] = @ - 1]
  /\ pc' = [pc EXCEPT ![e] = "idle"]
  /\ expired' = expired \ {e}
  /\ UNCHANGED <<current, capacity, gate>>

GiveUp(e) ==
  /\ pc[e] = "waiting" /\ e \in expired
  /\ pc' = [pc EXCEPT ![e] = "idle"]
  /\ expired' = expired \ {e}
  /\ UNCHANGED <<current, capacity, tokens, gate>>

\* The encode ends, or ffmpeg is killed with its context; the deferred release
\* takes the token from the gate it was put into.
Release(e) ==
  /\ pc[e] = "running"
  /\ tokens[gate[e]] > 0
  /\ tokens' = [tokens EXCEPT ![gate[e]] = @ - 1]
  /\ pc' = [pc EXCEPT ![e] = "idle"]
  /\ expired' = expired \ {e}
  /\ UNCHANGED <<current, capacity, gate>>

Next ==
  \/ \E limit \in Limits : SetEncoderConcurrency(limit)
  \/ \E e \in Encodes :
       Enter(e) \/ Expire(e) \/ Acquire(e) \/ GiveUp(e) \/ Release(e)

Spec == Init /\ [][Next]_vars

(***************************************************************************)
(* An encode ends, or is killed by its context.  A channel serves blocked  *)
(* senders first come first served, so a wait is not overtaken for ever.   *)
(***************************************************************************)
Fairness ==
  \A e \in Encodes : WF_vars(Release(e)) /\ SF_vars(Acquire(e))

FairSpec == Spec /\ Fairness

-----------------------------------------------------------------------------
Running(g) == {e \in Encodes : pc[e] = "running" /\ gate[e] = g}

TypeOK ==
  /\ current \in Gates
  /\ capacity \in [Gates -> Nat \ {0}]
  /\ tokens \in [Gates -> Nat]
  /\ pc \in [Encodes -> {"idle", "waiting", "running"}]
  /\ gate \in [Encodes -> Gates]
  /\ expired \subseteq Encodes

\* No slot is lost or made up: whatever waits are given up and whatever gates
\* are replaced, a gate's channel holds exactly one token per running encode.
TokensAreEncodes == \A g \in Gates : tokens[g] = Cardinality(Running(g))

\* At most as many encodes run on a gate as its limit, so that memory is bounded;
\* right after a swap old and new limits add up, and no more.
EncodesBounded == \A g \in Gates : Cardinality(Running(g)) <= capacity[g]

\* An encode that waits is served or refused: no limit an operator may set
\* blocks the encodes of a process.
WaitsEnd == \A e \in Encodes : pc[e] = "waiting" ~> pc[e] # "waiting"
=============================================================================
