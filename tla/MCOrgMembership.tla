---------------------------- MODULE MCOrgMembership ----------------------------
(***************************************************************************)
(* OrgMembership on small instances.                                       *)
(***************************************************************************)
EXTENDS OrgMembership, TLC

\* Users, addresses, invites and goroutines are interchangeable.
Interchangeable ==
  Permutations(Users) \cup Permutations(Emails)
    \cup Permutations(Invites) \cup Permutations(Goroutines)
=============================================================================
