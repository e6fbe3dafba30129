----------------------------- MODULE OrgMembership -----------------------------
(***************************************************************************)
(* internal/organization, with what internal/scim and internal/sso do to   *)
(* memberships: who belongs to an organization and with which role.        *)
(*                                                                         *)
(* A handler first reads the caller's role, then checks, then writes, each *)
(* in a statement of its own: roles change, invites are revoked and        *)
(* organizations deleted in between.                                       *)
(***************************************************************************)
EXTENDS Naturals, FiniteSets

CONSTANTS Users, Orgs, Emails, Invites, Goroutines,
          NoUser,
          Paid,          \* the users whose own plan is not 'free'
          MaxOrgsOwned,  \* plans/free.json
          GivenRoles     \* the roles that requests ask for (bounds the model)

ASSUME OrgAssumption ==
  /\ NoUser \notin Users
  /\ Paid \subseteq Users /\ MaxOrgsOwned \in Nat
  /\ GivenRoles \subseteq {"admin", "member", "viewer"}

VARIABLES status,   \* organizations
          role,     \* organization_members
          invite,   \* organization_invites
          email,    \* users.email
          job,      \* what each goroutine does
          founder,  \* history: who was inserted as the owner
          held,     \* history: the addresses each user has had
          granted   \* history: the roles owners and identity providers gave

vars == <<status, role, invite, email, job, founder, held, granted>>
members == <<role, founder, granted>>
people == <<email, held>>

Roles == {"owner", "admin", "member", "viewer"}

\* An expired invite differs from a pending one in that it cannot be accepted; one
\* that was revoked, or cascaded away with its organization, is gone.
Invite == [status : {"unused"}]
     \cup [status : {"pending", "expired", "accepted", "gone"},
           org : Orgs, email : Emails, role : GivenRoles]

\* A request: the next step, and the locals it still needs.
Job == [pc : {"idle"}]
  \cup [pc : {"create"}, user : Users]
  \cup [pc : {"own"}, org : Orgs, user : Users]
  \cup [pc : {"target", "count", "remove"}, org : Orgs, target : Users]
  \cup [pc : {"change"}, org : Orgs, target : Users, role : GivenRoles]
  \cup [pc : {"known", "twice", "invite"}, org : Orgs, email : Emails, role : GivenRoles]
  \cup [pc : {"revoke"}, org : Orgs, invite : Invites]
  \cup [pc : {"address", "mark", "join"}, user : Users, invite : Invites]
  \cup [pc : {"delete"}, org : Orgs]

Idle == [pc |-> "idle"]

Init ==
  /\ status = [o \in Orgs |-> "none"]
  /\ role = [o \in Orgs |-> [u \in Users |-> "none"]]
  /\ invite = [i \in Invites |-> [status |-> "unused"]]
  /\ email \in [Users -> Emails]
  /\ \A u, v \in Users : email[u] = email[v] => u = v
  /\ job = [g \in Goroutines |-> Idle]
  /\ founder = [o \in Orgs |-> NoUser]
  /\ held = [u \in Users |-> {email[u]}]
  /\ granted = {}

Start(g, j) == job[g].pc = "idle" /\ job' = [job EXCEPT ![g] = j]
Goto(g, pc) == job' = [job EXCEPT ![g] = [job[g] EXCEPT !.pc = pc]]
Return(g)   == job' = [job EXCEPT ![g] = Idle]

SetRole(o, u, r) == role' = [role EXCEPT ![o] = [role[o] EXCEPT ![u] = r]]
Administers(o, u) == role[o][u] \in {"owner", "admin"}
Owned(u) == {o \in Orgs : role[o][u] = "owner"}
Owners(o) == {u \in Users : role[o][u] = "owner"}

(***************************************************************************)
(* Create: the limit of the free plan, the organization, its owner.        *)
(***************************************************************************)
StartCreate(g, u) ==
  /\ u \in Paid \/ Cardinality(Owned(u)) < MaxOrgsOwned
  /\ Start(g, [pc |-> "create", user |-> u])
  /\ UNCHANGED <<status, members, invite, people>>

InsertOrg(g, o) ==
  /\ job[g].pc = "create" /\ status[o] = "none"
  /\ status' = [status EXCEPT ![o] = "live"]
  /\ job' = [job EXCEPT ![g] = [pc |-> "own", org |-> o, user |-> job[g].user]]
  /\ UNCHANGED <<members, invite, people>>

InsertOwner(g) ==
  /\ job[g].pc = "own"
  /\ LET o == job[g].org  u == job[g].user IN
       /\ SetRole(o, u, "owner")
       /\ founder' = [founder EXCEPT ![o] = u]
  /\ Return(g)
  /\ UNCHANGED <<status, invite, people, granted>>

(***************************************************************************)
(* Delete.  The foreign keys cascade to members and invites.               *)
(***************************************************************************)
StartDelete(g, o, u) ==
  /\ role[o][u] = "owner"
  /\ Start(g, [pc |-> "delete", org |-> o])
  /\ UNCHANGED <<status, members, invite, people>>

DeleteOrg(g) ==
  /\ job[g].pc = "delete"
  /\ LET o == job[g].org IN
       /\ status' = [status EXCEPT ![o] = "gone"]
       /\ role' = [role EXCEPT ![o] = [u \in Users |-> "none"]]
       /\ invite' = [i \in Invites |->
                       IF invite[i].status # "unused" /\ invite[i].org = o
                         THEN [invite[i] EXCEPT !.status = "gone"] ELSE invite[i]]
  /\ Return(g)
  /\ UNCHANGED <<people, founder, granted>>

(***************************************************************************)
(* RemoveMember.                                                           *)
(***************************************************************************)
StartRemove(g, o, u, v) ==
  /\ Administers(o, u) /\ v # u
  /\ Start(g, [pc |-> "target", org |-> o, target |-> v])
  /\ UNCHANGED <<status, members, invite, people>>

\* A plausible mistake, to test the properties: the target is not looked at.
ReadAnyTarget(g) ==
  /\ job[g].pc = "target"
  /\ role[job[g].org][job[g].target] # "none"
  /\ Goto(g, "remove")
  /\ UNCHANGED <<status, members, invite, people>>

ReadTarget(g) ==
  /\ job[g].pc = "target"
  /\ LET r == role[job[g].org][job[g].target] IN
       /\ r # "none"
       /\ Goto(g, IF r = "owner" THEN "count" ELSE "remove")
  /\ UNCHANGED <<status, members, invite, people>>

CountOwners(g) ==
  /\ job[g].pc = "count"
  /\ IF Cardinality(Owners(job[g].org)) <= 1 THEN Return(g) ELSE Goto(g, "remove")
  /\ UNCHANGED <<status, members, invite, people>>

DeleteMember(g) ==
  /\ job[g].pc = "remove"
  /\ SetRole(job[g].org, job[g].target, "none")
  /\ Return(g)
  /\ UNCHANGED <<status, founder, granted, invite, people>>

(***************************************************************************)
(* UpdateMemberRole.                                                       *)
(***************************************************************************)
StartChange(g, o, u, v, r) ==
  /\ role[o][u] = "owner" /\ v # u
  /\ Start(g, [pc |-> "change", org |-> o, target |-> v, role |-> r])
  /\ granted' = granted \cup {<<o, v, r>>}
  /\ UNCHANGED <<status, role, founder, invite, people>>

UpdateRole(g) ==
  /\ job[g].pc = "change"
  /\ LET o == job[g].org  v == job[g].target IN
       IF role[o][v] = "none" THEN UNCHANGED role ELSE SetRole(o, v, job[g].role)
  /\ Return(g)
  /\ UNCHANGED <<status, founder, granted, invite, people>>

(***************************************************************************)
(* SendInvite, RevokeInvite.                                               *)
(***************************************************************************)
StartInvite(g, o, u, e, r) ==
  /\ Administers(o, u)
  /\ Start(g, [pc |-> "known", org |-> o, email |-> e, role |-> r])
  /\ UNCHANGED <<status, members, invite, people>>

CheckMember(g) ==
  /\ job[g].pc = "known"
  /\ IF \E u \in Users : email[u] = job[g].email /\ role[job[g].org][u] # "none"
       THEN Return(g) ELSE Goto(g, "twice")
  /\ UNCHANGED <<status, members, invite, people>>

CheckPending(g) ==
  /\ job[g].pc = "twice"
  /\ IF \E i \in Invites : invite[i].status = "pending"
                           /\ invite[i].org = job[g].org /\ invite[i].email = job[g].email
       THEN Return(g) ELSE Goto(g, "invite")
  /\ UNCHANGED <<status, members, invite, people>>

\* A plausible mistake, to test the properties: a status of its own for new invites.
InsertInviteAsSent(g, i) ==
  /\ job[g].pc = "invite" /\ invite[i].status = "unused"
  /\ status[job[g].org] = "live"
  /\ invite' = [invite EXCEPT ![i] = [status |-> "sent", org |-> job[g].org,
                                      email |-> job[g].email, role |-> job[g].role]]
  /\ Return(g)
  /\ UNCHANGED <<status, members, people>>

InsertInvite(g, i) ==
  /\ job[g].pc = "invite" /\ invite[i].status = "unused"
  /\ status[job[g].org] = "live"
  /\ invite' = [invite EXCEPT ![i] = [status |-> "pending", org |-> job[g].org,
                                      email |-> job[g].email, role |-> job[g].role]]
  /\ Return(g)
  /\ UNCHANGED <<status, members, people>>

StartRevoke(g, o, u, i) ==
  /\ Administers(o, u)
  /\ Start(g, [pc |-> "revoke", org |-> o, invite |-> i])
  /\ UNCHANGED <<status, members, invite, people>>

DeleteInvite(g) ==
  /\ job[g].pc = "revoke"
  /\ LET i == job[g].invite IN
       IF invite[i].status \in {"pending", "expired"} /\ invite[i].org = job[g].org
         THEN invite' = [invite EXCEPT ![i] = [invite[i] EXCEPT !.status = "gone"]]
         ELSE UNCHANGED invite
  /\ Return(g)
  /\ UNCHANGED <<status, members, people>>

Expire(i) ==
  /\ invite[i].status = "pending"
  /\ invite' = [invite EXCEPT ![i] = [invite[i] EXCEPT !.status = "expired"]]
  /\ UNCHANGED <<status, members, people, job>>

(***************************************************************************)
(* AcceptInvite: the invite is read, the two addresses compared, the       *)
(* invite marked (whatever became of it), the membership inserted.         *)
(***************************************************************************)
StartAccept(g, u, i) ==
  /\ invite[i].status = "pending"
  /\ Start(g, [pc |-> "address", user |-> u, invite |-> i])
  /\ UNCHANGED <<status, members, invite, people>>

\* A plausible mistake, to test the properties: the token alone is enough.
CompareNothing(g) ==
  /\ job[g].pc = "address"
  /\ Goto(g, "mark")
  /\ UNCHANGED <<status, members, invite, people>>

CompareAddress(g) ==
  /\ job[g].pc = "address"
  /\ LET i == job[g].invite IN
       /\ invite[i].status # "gone"
       /\ invite[i].email = email[job[g].user]
  /\ Goto(g, "mark")
  /\ UNCHANGED <<status, members, invite, people>>

MarkAccepted(g) ==
  /\ job[g].pc = "mark"
  /\ LET i == job[g].invite IN
       IF invite[i].status = "gone" THEN UNCHANGED invite
         ELSE invite' = [invite EXCEPT ![i] = [invite[i] EXCEPT !.status = "accepted"]]
  /\ Goto(g, "join")
  /\ UNCHANGED <<status, members, people>>

\* A plausible mistake, to test the properties: the invite's role is set in any case.
JoinOverwriting(g) ==
  /\ job[g].pc = "join"
  /\ LET i == job[g].invite  o == invite[i].org IN
       /\ status[o] = "live"
       /\ SetRole(o, job[g].user, invite[i].role)
  /\ Return(g)
  /\ UNCHANGED <<status, founder, granted, invite, people>>

\* INSERT ... ON CONFLICT DO NOTHING; the organization must exist.
Join(g) ==
  /\ job[g].pc = "join"
  /\ LET i == job[g].invite  o == invite[i].org  u == job[g].user IN
       /\ status[o] = "live"
       /\ IF role[o][u] = "none" THEN SetRole(o, u, invite[i].role) ELSE UNCHANGED role
  /\ Return(g)
  /\ UNCHANGED <<status, founder, granted, invite, people>>

\* A check that says no, a row that is not found or a foreign key that is violated
\* ends a request, as do a failing statement and the death of the process.
Abort(g) ==
  /\ job[g].pc # "idle"
  /\ Return(g)
  /\ UNCHANGED <<status, members, invite, people>>

(***************************************************************************)
(* The identity provider of an organization, by SCIM or at a sign-in.  It  *)
(* is set up with a token or a configuration that only an owner or an      *)
(* admin can make, so that the organization has had its founder.           *)
(***************************************************************************)
Provision(o, u) ==
  /\ status[o] = "live" /\ founder[o] # NoUser
  /\ granted' = granted \cup {<<o, u, "member">>}
  /\ IF role[o][u] = "none" THEN SetRole(o, u, "member") ELSE UNCHANGED role
  /\ UNCHANGED <<status, founder, invite, people, job>>

Deprovision(o, u) ==
  /\ status[o] = "live" /\ founder[o] # NoUser
  /\ SetRole(o, u, "none")
  /\ UNCHANGED <<status, founder, granted, invite, people, job>>

\* users.email is unique.
UpdateEmail(u, e) ==
  /\ \A v \in Users : email[v] # e
  /\ email' = [email EXCEPT ![u] = e]
  /\ held' = [held EXCEPT ![u] = @ \cup {e}]
  /\ UNCHANGED <<status, members, invite, job>>

-----------------------------------------------------------------------------
Step(g) ==
  \/ InsertOwner(g) \/ DeleteOrg(g)
  \/ ReadTarget(g) \/ CountOwners(g) \/ DeleteMember(g)
  \/ UpdateRole(g)
  \/ CheckMember(g) \/ CheckPending(g) \/ DeleteInvite(g)
  \/ CompareAddress(g) \/ MarkAccepted(g) \/ Join(g)
  \/ Abort(g)
  \/ \E o \in Orgs : InsertOrg(g, o)
  \/ \E i \in Invites : InsertInvite(g, i)

Ask(g, u) ==
  \/ StartCreate(g, u)
  \/ \E i \in Invites : StartAccept(g, u, i)
  \/ \E o \in Orgs :
       \/ StartDelete(g, o, u)
       \/ \E v \in Users : StartRemove(g, o, u, v)
       \/ \E v \in Users, r \in GivenRoles : StartChange(g, o, u, v, r)
       \/ \E e \in Emails, r \in GivenRoles : StartInvite(g, o, u, e, r)
       \/ \E i \in Invites : StartRevoke(g, o, u, i)

Next ==
  \/ \E g \in Goroutines : Step(g) \/ \E u \in Users : Ask(g, u)
  \/ \E i \in Invites : Expire(i)
  \/ \E o \in Orgs, u \in Users : Provision(o, u) \/ Deprovision(o, u)
  \/ \E u \in Users, e \in Emails : UpdateEmail(u, e)

Spec == Init /\ [][Next]_vars

-----------------------------------------------------------------------------
TypeOK ==
  /\ status \in [Orgs -> {"none", "live", "gone"}]
  /\ role \in [Orgs -> [Users -> Roles \cup {"none"}]]
  /\ invite \in [Invites -> Invite]
  /\ email \in [Users -> Emails]
  /\ job \in [Goroutines -> Job]
  /\ founder \in [Orgs -> Users \cup {NoUser}]
  /\ held \in [Users -> SUBSET Emails]
  /\ granted \subseteq Orgs \X Users \X Roles

\* Nobody has a role that was not given to him: the founder is the owner, and any
\* other role was set by an owner, assigned by the identity provider, or comes from
\* an invite to an address the user has had, whatever was revoked, removed, changed
\* or deleted while the requests ran.
RoleGiven(o, u, r) ==
  \/ r = "owner" /\ u = founder[o]
  \/ <<o, u, r>> \in granted
  \/ \E i \in Invites :
       /\ invite[i].status # "unused"
       /\ invite[i].org = o /\ invite[i].role = r /\ invite[i].email \in held[u]

RolesWereGiven ==
  \A o \in Orgs, u \in Users : role[o][u] # "none" => RoleGiven(o, u, role[o][u])

\* Why they hold: the inductive invariant of OrgMembershipProofs.  Members are found
\* in live organizations that had their founder, who is the only possible owner; ...
MembersOfFounded ==
  \A o \in Orgs, u \in Users :
    role[o][u] # "none" =>
      /\ status[o] = "live" /\ founder[o] # NoUser
      /\ role[o][u] = "owner" => u = founder[o]

\* ... an organization is founded once, by the one request that made it; ...
FoundedOnce ==
  /\ \A o \in Orgs : status[o] = "none" => founder[o] = NoUser
  /\ \A g \in Goroutines : job[g].pc = "own" =>
       status[job[g].org] = "live" /\ founder[job[g].org] = NoUser
  /\ \A g, h \in Goroutines :
       job[g].pc = "own" /\ job[h].pc = "own" /\ job[g].org = job[h].org => g = h

\* ... what a request has checked is still so when it writes, as nobody becomes an
\* owner later, and an invite keeps its words; ...
Checked(j) ==
  /\ j.pc \in {"remove", "change", "delete", "known", "twice", "invite"} =>
       founder[j.org] # NoUser
  /\ j.pc \in {"remove", "change"} => role[j.org][j.target] # "owner"
  /\ j.pc = "change" => <<j.org, j.target, j.role>> \in granted
  /\ j.pc \in {"address", "mark", "join"} => invite[j.invite].status # "unused"
  /\ j.pc \in {"mark", "join"} => invite[j.invite].email \in held[j.user]

\* ... invites are for organizations that had their founder; and the addresses of
\* now are among those ever held.
InvitesOfFounded ==
  \A i \in Invites : invite[i].status # "unused" => founder[invite[i].org] # NoUser

OrgInv ==
  /\ TypeOK /\ RolesWereGiven /\ MembersOfFounded /\ FoundedOnce /\ InvitesOfFounded
  /\ \A g \in Goroutines : Checked(job[g])
  /\ \A u \in Users : email[u] \in held[u]

\* "Owners cannot be removed": only the deletion of the organization, or its identity
\* provider, takes the role from an owner, although the checks of a removal or of a
\* change of roles are over when its statement runs.
OwnerStays ==
  [][\A o \in Orgs, u \in Users :
       role[o][u] = "owner" /\ role'[o][u] # "owner"
         => status'[o] = "gone" \/ Deprovision(o, u)]_vars

(***************************************************************************)
(* What the repository says and the code does not do.                      *)
(***************************************************************************)

\* "The authenticated user is added as a member with the invited role".
InviteGivesRole ==
  [][\A g \in Goroutines :
       Join(g) => LET i == job[g].invite IN
                    role'[invite[i].org][job[g].user] = invite[i].role]_vars
=============================================================================
