------------------------------- MODULE MCBilling -------------------------------
(***************************************************************************)
(* Small instances of Billing and Cuts.  They share no state: each         *)
(* behaviour is one of one of them, told by part.                          *)
(***************************************************************************)
EXTENDS Billing, Cuts

VARIABLE part

MCInit ==
  /\ Init /\ CutsInit /\ part \in {"billing", "cuts"}
  /\ part = "billing" => duration = 1 /\ length = Second  \* one state is enough

MCNext ==
  \/ part = "billing" /\ Next /\ UNCHANGED <<cutVars, part>>
  \/ part = "cuts" /\ CutsNext /\ UNCHANGED <<vars, part>>

\* The fairness of Billing allows a behaviour of Cuts: without events none of its
\* actions is enabled.
MCSpec == MCInit /\ [][MCNext]_<<vars, cutVars, part>> /\ Fairness

\* The state of both modules has its type.
TypesOK == TypeOK /\ CutsTypeOK
=============================================================================
