------------------------------- MODULE MCPeople -------------------------------
(***************************************************************************)
(* Small instances of OrgMembership and Accounts: who may come in, and as  *)
(* what.  They share no state here: each behaviour is one of one of them,  *)
(* told by part, and a model value stands for a goroutine of one and a     *)
(* request of the other.  Accounts are taken apart further, along a line   *)
(* that nothing crosses but the requests: API keys, with one session, from *)
(* the rotation of sessions.                                               *)
(***************************************************************************)
EXTENDS MCOrgMembership, Accounts

VARIABLE part

all == <<vars, accountVars, part>>

PeopleInit ==
  /\ Init /\ AccountsInit
  /\ part \in {"members", "sessions", "keys"}

Sessions == AccountsNext /\ \A r \in Requests : request'[r].pc # "insert"
APIKeys == AccountsNext /\ \A t \in Tokens : Issued(t)' => t = 1

PeopleNext ==
  \/ part = "members" /\ Next /\ UNCHANGED <<accountVars, part>>
  \/ /\ \/ part = "sessions" /\ Sessions
        \/ part = "keys" /\ APIKeys
     /\ UNCHANGED <<vars, part>>

PeopleSpec == PeopleInit /\ [][PeopleNext]_all

\* Every row and request of these modules has its type.
TypesOK == TypeOK /\ AccountsTypeOK

\* The state of the other module does not change.
AllObserved == <<part, IF part = "members" THEN vars ELSE accountVars>>
=============================================================================
