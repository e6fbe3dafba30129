-------------------------- MODULE OrgMembershipProofs --------------------------
(***************************************************************************)
(* OrgMembership is well typed, roles were given, and an owner stays: for  *)
(* any users, organizations, invites and concurrent requests.              *)
(*                                                                         *)
(* A step changes little: StepStable says what no step takes back, which   *)
(* keeps what the requests have checked, and the sections below show it of *)
(* every action, together with what the action adds.                       *)
(***************************************************************************)
EXTENDS OrgMembership, FiniteSetTheorems, TLAPS

RolesTyped == role \in [Orgs -> [Users -> Roles \cup {"none"}]]
RowsTyped ==
  /\ status \in [Orgs -> {"none", "live", "gone"}] /\ RolesTyped
  /\ invite \in [Invites -> Invite]
  /\ email \in [Users -> Emails]
  /\ founder \in [Orgs -> Users \cup {NoUser}]
  /\ held \in [Users -> SUBSET Emails]
  /\ granted \subseteq Orgs \X Users \X Roles

LEMMA TypeParts == TypeOK <=> RowsTyped /\ job \in [Goroutines -> Job]
  BY DEF TypeOK, RowsTyped, RolesTyped

LEMMA GivenAreRoles == GivenRoles \subseteq Roles \ {"owner"} /\ "none" \notin Roles
  BY OrgAssumption DEF Roles

\* The locals of a request, by its next step.
LEMMA JobLocals ==
  ASSUME NEW j \in Job
  PROVE  /\ j.pc = "create" => j.user \in Users
         /\ j.pc = "own" => j.org \in Orgs /\ j.user \in Users
         /\ j.pc \in {"target", "count", "remove"} =>
              j \in [pc : {"target", "count", "remove"}, org : Orgs, target : Users]
         /\ j.pc = "change" => j.org \in Orgs /\ j.target \in Users /\ j.role \in GivenRoles
         /\ j.pc \in {"known", "twice", "invite"} =>
              j \in [pc : {"known", "twice", "invite"}, org : Orgs, email : Emails, role : GivenRoles]
         /\ j.pc = "revoke" => j.org \in Orgs /\ j.invite \in Invites
         /\ j.pc \in {"address", "mark", "join"} =>
              j \in [pc : {"address", "mark", "join"}, user : Users, invite : Invites]
         /\ j.pc = "delete" => j.org \in Orgs
  BY DEF Job

LEMMA InviteFields ==
  ASSUME NEW x \in Invite, x.status # "unused"
  PROVE  /\ x.org \in Orgs /\ x.email \in Emails /\ x.role \in GivenRoles
         /\ x = [status |-> x.status, org |-> x.org, email |-> x.email, role |-> x.role]
  BY DEF Invite

(***************************************************************************)
(* The effects of the operators that update a row or a request.            *)
(***************************************************************************)
LEMMA SetRoleEffect ==
  ASSUME RolesTyped, NEW o \in Orgs, NEW u \in Users, NEW r \in Roles \cup {"none"},
         SetRole(o, u, r)
  PROVE  /\ RolesTyped'
         /\ role'[o][u] = r
         /\ \A p \in Orgs, v \in Users : p # o \/ v # u => role'[p][v] = role[p][v]
<1>1. PICK f : f = [role[o] EXCEPT ![u] = r] /\ role' = [role EXCEPT ![o] = f]
  BY DEF SetRole
<1>2. f \in [Users -> Roles \cup {"none"}] /\ f[u] = r
      /\ \A v \in Users \ {u} : f[v] = role[o][v]
  BY <1>1 DEF RolesTyped
<1> QED BY <1>1, <1>2 DEF RolesTyped

\* One goroutine's job becomes j.
Becomes(g, j) == /\ job'[g] = j
                 /\ \A h \in Goroutines \ {g} : job'[h] = job[h]

LEMMA JobEffect ==
  ASSUME job \in [Goroutines -> Job], NEW g \in Goroutines, NEW j \in Job,
         job' = [job EXCEPT ![g] = j]
  PROVE  job' \in [Goroutines -> Job] /\ Becomes(g, j)
  BY DEF Becomes

LEMMA IdleIsJob == Idle \in Job /\ Idle.pc = "idle"
  BY DEF Idle, Job

LEMMA ReturnEffect ==
  ASSUME job \in [Goroutines -> Job], NEW g \in Goroutines, Return(g)
  PROVE  job' \in [Goroutines -> Job] /\ Becomes(g, Idle)
  BY IdleIsJob, JobEffect DEF Return

LEMMA RemovalGoes ==
  ASSUME job \in [Goroutines -> Job], NEW g \in Goroutines,
         job[g].pc \in {"target", "count", "remove"},
         NEW pc \in {"target", "count", "remove"}, Goto(g, pc)
  PROVE  /\ job' \in [Goroutines -> Job]
         /\ Becomes(g, [pc |-> pc, org |-> job[g].org, target |-> job[g].target])
<1>1. job[g] \in [pc : {"target", "count", "remove"}, org : Orgs, target : Users]
  BY JobLocals
<1>2. [job[g] EXCEPT !.pc = pc] = [pc |-> pc, org |-> job[g].org, target |-> job[g].target]
  BY <1>1
<1>3. [pc |-> pc, org |-> job[g].org, target |-> job[g].target] \in Job
  BY <1>1 DEF Job
<1> QED BY <1>2, <1>3, JobEffect DEF Goto

LEMMA InvitationGoes ==
  ASSUME job \in [Goroutines -> Job], NEW g \in Goroutines,
         job[g].pc \in {"known", "twice", "invite"},
         NEW pc \in {"known", "twice", "invite"}, Goto(g, pc)
  PROVE  /\ job' \in [Goroutines -> Job]
         /\ Becomes(g, [pc |-> pc, org |-> job[g].org, email |-> job[g].email,
                        role |-> job[g].role])
<1>1. job[g] \in [pc : {"known", "twice", "invite"}, org : Orgs, email : Emails, role : GivenRoles]
  BY JobLocals
<1>2. [job[g] EXCEPT !.pc = pc]
        = [pc |-> pc, org |-> job[g].org, email |-> job[g].email, role |-> job[g].role]
  BY <1>1
<1>3. [pc |-> pc, org |-> job[g].org, email |-> job[g].email, role |-> job[g].role] \in Job
  BY <1>1 DEF Job
<1> QED BY <1>2, <1>3, JobEffect DEF Goto

LEMMA AcceptanceGoes ==
  ASSUME job \in [Goroutines -> Job], NEW g \in Goroutines,
         job[g].pc \in {"address", "mark", "join"},
         NEW pc \in {"address", "mark", "join"}, Goto(g, pc)
  PROVE  /\ job' \in [Goroutines -> Job]
         /\ Becomes(g, [pc |-> pc, user |-> job[g].user, invite |-> job[g].invite])
<1>1. job[g] \in [pc : {"address", "mark", "join"}, user : Users, invite : Invites]
  BY JobLocals
<1>2. [job[g] EXCEPT !.pc = pc]
        = [pc |-> pc, user |-> job[g].user, invite |-> job[g].invite]
  BY <1>1
<1>3. [pc |-> pc, user |-> job[g].user, invite |-> job[g].invite] \in Job
  BY <1>1 DEF Job
<1> QED BY <1>2, <1>3, JobEffect DEF Goto

(***************************************************************************)
(* What no step takes back.                                                *)
(***************************************************************************)
FoundersStay == \A o \in Orgs : founder[o] # NoUser => founder'[o] = founder[o]

NoLateOwners ==
  \A o \in Orgs, u \in Users :
    founder[o] # NoUser /\ role[o][u] # "owner" => role'[o][u] # "owner"

InvitesKeepWords ==
  \A i \in Invites : invite[i].status # "unused" =>
    /\ invite'[i].status # "unused"
    /\ invite'[i].org = invite[i].org /\ invite'[i].email = invite[i].email
    /\ invite'[i].role = invite[i].role

HistoryGrows == granted \subseteq granted' /\ \A u \in Users : held[u] \subseteq held'[u]

StepStable == FoundersStay /\ NoLateOwners /\ InvitesKeepWords /\ HistoryGrows

LEMMA CheckedStays ==
  ASSUME StepStable, NEW j \in Job, Checked(j)
  PROVE  Checked(j)'
<1>1. j.pc \in {"remove", "change", "delete", "known", "twice", "invite"} => j.org \in Orgs
  BY JobLocals
<1>2. j.pc \in {"remove", "change"} => j.target \in Users
  BY JobLocals
<1>3. j.pc \in {"address", "mark", "join"} => j.invite \in Invites /\ j.user \in Users
  BY JobLocals
<1>4. j.pc \in {"remove", "change", "delete", "known", "twice", "invite"} =>
        founder'[j.org] # NoUser
  BY <1>1 DEF Checked, StepStable, FoundersStay
<1>5. j.pc \in {"remove", "change"} => role'[j.org][j.target] # "owner"
  BY <1>1, <1>2 DEF Checked, StepStable, NoLateOwners
<1>6. j.pc = "change" => <<j.org, j.target, j.role>> \in granted'
  BY DEF Checked, StepStable, HistoryGrows
<1>7. j.pc \in {"address", "mark", "join"} => invite'[j.invite].status # "unused"
  BY <1>3 DEF Checked, StepStable, InvitesKeepWords
<1>8. j.pc \in {"mark", "join"} => invite'[j.invite].email \in held'[j.user]
  BY <1>3 DEF Checked, StepStable, InvitesKeepWords, HistoryGrows
<1> QED BY <1>4, <1>5, <1>6, <1>7, <1>8 DEF Checked

LEMMA GivenStays ==
  ASSUME OrgAssumption, StepStable, NEW o \in Orgs, NEW u \in Users, NEW r, RoleGiven(o, u, r)
  PROVE  RoleGiven(o, u, r)'
<1>1. CASE r = "owner" /\ u = founder[o]
  BY <1>1, OrgAssumption DEF RoleGiven, StepStable, FoundersStay
<1>2. CASE <<o, u, r>> \in granted
  BY <1>2 DEF RoleGiven, StepStable, HistoryGrows
<1>3. CASE \E i \in Invites : /\ invite[i].status # "unused"
                              /\ invite[i].org = o /\ invite[i].role = r
                              /\ invite[i].email \in held[u]
  BY <1>3 DEF RoleGiven, StepStable, InvitesKeepWords, HistoryGrows
<1> QED BY <1>1, <1>2, <1>3 DEF RoleGiven

(***************************************************************************)
(* What a step adds: roles that were given in live organizations, jobs     *)
(* that have checked what they need, and no second founding.               *)
(***************************************************************************)
RoleWell(o, u) ==
  role[o][u] # "none" =>
    /\ RoleGiven(o, u, role[o][u])
    /\ status[o] = "live" /\ founder[o] # NoUser
    /\ role[o][u] = "owner" => u = founder[o]

RolesStep ==
  \A o \in Orgs, u \in Users :
    \/ RoleWell(o, u)'
    \/ role'[o][u] = role[o][u] /\ (status[o] = "live" => status'[o] = "live")

JobsStep ==
  \A h \in Goroutines :
    \/ job'[h] = job[h]
    \/ Checked(job[h])' /\ job'[h].pc # "own"

JobsChecked == \A h \in Goroutines : job'[h] = job[h] \/ (Checked(job[h])')

\* The founding of an organization by h is left alone.
FoundingKept(h) ==
  job'[h].pc = "own" => /\ job'[h] = job[h]
                        /\ status'[job[h].org] = status[job[h].org]
                        /\ founder'[job[h].org] = founder[job[h].org]

OrgsKept ==
  \A o \in Orgs : status'[o] = "none" => status[o] = "none" /\ founder'[o] = founder[o]

LEMMA FoundingsKept ==
  ASSUME OrgInv, \A h \in Goroutines : FoundingKept(h), OrgsKept
  PROVE  FoundedOnce'
  BY DEF FoundingKept, OrgsKept, OrgInv, FoundedOnce

HeldNow == \A u \in Users : email[u] \in held[u]

NoNewInvites ==
  \A i \in Invites : invite'[i].status # "unused" => invite[i].status # "unused"

LEMMA InvitesStay ==
  ASSUME UNCHANGED invite
  PROVE  InvitesKeepWords /\ NoNewInvites
  BY DEF InvitesKeepWords, NoNewInvites

LEMMA FoundedStay ==
  ASSUME OrgInv, InvitesKeepWords, NoNewInvites, FoundersStay
  PROVE  InvitesOfFounded'
<1>1. SUFFICES ASSUME NEW i \in Invites, invite'[i].status # "unused"
               PROVE  founder'[invite'[i].org] # NoUser
  BY DEF InvitesOfFounded
<1>2. invite[i].status # "unused"
  BY <1>1 DEF NoNewInvites
<1>3. invite[i].org \in Orgs /\ founder[invite[i].org] # NoUser
  BY <1>2, InviteFields DEF OrgInv, TypeOK, InvitesOfFounded
<1>4. invite'[i].org = invite[i].org
  BY <1>2 DEF InvitesKeepWords
<1> QED BY <1>3, <1>4 DEF FoundersStay

LEMMA StepKeeps ==
  ASSUME OrgInv, TypeOK', StepStable, RolesStep, JobsChecked, FoundedOnce', HeldNow',
         InvitesOfFounded'
  PROVE  OrgInv'
<1>1. RolesWereGiven' /\ MembersOfFounded'
  <2>1. SUFFICES ASSUME NEW o \in Orgs, NEW u \in Users
                 PROVE  RoleWell(o, u)'
    BY DEF RolesWereGiven, MembersOfFounded, RoleWell
  <2>2. CASE RoleWell(o, u)'
    BY <2>2
  <2>3. CASE role'[o][u] = role[o][u] /\ (status[o] = "live" => status'[o] = "live")
    <3>1. SUFFICES ASSUME role[o][u] # "none" PROVE RoleWell(o, u)'
      BY <2>3 DEF RoleWell
    <3>2. RoleGiven(o, u, role[o][u])
      BY <3>1 DEF OrgInv, RolesWereGiven
    <3>3. RoleGiven(o, u, role[o][u])'
      <4>1. PICK r : r = role[o][u]
        OBVIOUS
      <4>2. RoleGiven(o, u, r)'
        BY <3>2, <4>1, GivenStays, OrgAssumption
      <4> QED BY <2>3, <4>1, <4>2 DEF RoleGiven
    <3>4. status[o] = "live" /\ founder[o] # NoUser /\ (role[o][u] = "owner" => u = founder[o])
      BY <3>1 DEF OrgInv, MembersOfFounded
    <3>5. founder'[o] = founder[o]
      BY <3>4 DEF StepStable, FoundersStay
    <3> QED BY <2>3, <3>3, <3>4, <3>5 DEF RoleWell
  <2> QED BY <2>2, <2>3 DEF RolesStep
<1>2. ASSUME NEW h \in Goroutines PROVE Checked(job[h])'
  <2>1. CASE job'[h] = job[h]
    <3>1. PICK j \in Job : j = job[h]
      BY DEF OrgInv, TypeOK
    <3>2. Checked(j)'
      BY <3>1, CheckedStays DEF OrgInv
    <3> QED BY <2>1, <3>1, <3>2 DEF Checked
  <2>2. CASE job'[h] # job[h]
    BY <2>2 DEF JobsChecked
  <2> QED BY <2>1, <2>2
<1> QED BY <1>1, <1>2 DEF OrgInv, HeldNow

\* A step that only moves a request on.
Quiet ==
  /\ UNCHANGED <<status, role, founder, invite, email, held>>
  /\ granted \subseteq granted' /\ granted' \subseteq Orgs \X Users \X Roles

LEMMA QuietStable ==
  ASSUME Quiet
  PROVE  StepStable
  BY DEF Quiet, StepStable, FoundersStay, NoLateOwners, InvitesKeepWords, HistoryGrows

LEMMA QuietKeeps ==
  ASSUME OrgInv, Quiet, NEW g \in Goroutines, NEW j, job' \in [Goroutines -> Job], Becomes(g, j),
         j.pc # "own", Checked(j)'
  PROVE  OrgInv'
<1>1. TypeOK'
  BY DEF OrgInv, Quiet, TypeOK
<1>2. RolesStep
  BY DEF Quiet, RolesStep
<1>3. JobsStep
  <2>1. Checked(job[g])'
    BY DEF Becomes, Checked
  <2>2. ASSUME NEW h \in Goroutines, h # g PROVE job'[h] = job[h]
    BY <2>2 DEF Becomes
  <2>3. job'[g].pc # "own"
    BY DEF Becomes
  <2> QED BY <2>1, <2>2, <2>3 DEF JobsStep, Checked
<1>4. FoundedOnce' /\ JobsChecked
  <2>1. OrgsKept /\ \A h \in Goroutines : FoundingKept(h)
    BY DEF Becomes, FoundingKept, OrgsKept, Quiet
  <2> QED BY <1>3, <2>1, FoundingsKept DEF JobsStep, JobsChecked
<1>5. HeldNow'
  BY DEF Quiet, HeldNow, OrgInv
<1>6. InvitesOfFounded'
  BY QuietStable, InvitesStay, FoundedStay DEF Quiet, StepStable
<1> QED BY <1>1, <1>2, <1>3, <1>4, <1>5, <1>6, QuietStable, StepKeeps

LEMMA NothingChecked ==
  ASSUME NEW j, j.pc \in {"idle", "create", "own", "target", "count", "revoke"}
  PROVE  Checked(j)'
  BY DEF Checked

(***************************************************************************)
(* The actions that only move a request on.                                *)
(***************************************************************************)
LEMMA StartQuiet ==
  ASSUME OrgInv, NEW g \in Goroutines, NEW j \in Job, Start(g, j), Quiet,
         j.pc # "own", Checked(j)'
  PROVE  OrgInv'
<1>1. job' \in [Goroutines -> Job] /\ Becomes(g, j)
  BY JobEffect DEF Start, OrgInv, TypeOK
<1> QED BY <1>1, QuietKeeps

LEMMA ReturnQuiet ==
  ASSUME OrgInv, NEW g \in Goroutines, Return(g), Quiet
  PROVE  OrgInv'
<1>1. job' \in [Goroutines -> Job] /\ Becomes(g, Idle)
  BY ReturnEffect DEF OrgInv, TypeOK
<1>2. Idle.pc = "idle"
  BY DEF Idle
<1>3. PICK j : j = Idle
  OBVIOUS
<1>4. Checked(j)'
  BY <1>2, <1>3, NothingChecked
<1> QED BY <1>1, <1>2, <1>3, <1>4, QuietKeeps

LEMMA StartsKeep ==
  ASSUME OrgInv, NEW g \in Goroutines, NEW u \in Users, Ask(g, u)
  PROVE  OrgInv' /\ UNCHANGED role
<1> USE DEF members, people
<1>0. granted \subseteq Orgs \X Users \X Roles
  BY DEF OrgInv, TypeOK
<1>1. CASE StartCreate(g, u)
  <2>1. PICK j \in Job : j = [pc |-> "create", user |-> u]
    BY DEF Job
  <2>2. Checked(j)'
    BY <2>1, NothingChecked
  <2>3. Start(g, j) /\ Quiet
    BY <1>0, <1>1, <2>1 DEF StartCreate, Quiet
  <2> QED BY <2>1, <2>2, <2>3, StartQuiet DEF Quiet
<1>2. ASSUME NEW i \in Invites, StartAccept(g, u, i) PROVE OrgInv' /\ UNCHANGED role
  <2>1. PICK j \in Job : j = [pc |-> "address", user |-> u, invite |-> i]
    BY DEF Job
  <2>2. Start(g, j) /\ Quiet
    BY <1>0, <1>2, <2>1 DEF StartAccept, Quiet
  <2>3. Checked(j)'
    BY <1>2, <2>1, <2>2 DEF StartAccept, Checked, Quiet
  <2> QED BY <2>1, <2>2, <2>3, StartQuiet DEF Quiet
<1>3. ASSUME NEW o \in Orgs, StartDelete(g, o, u) PROVE OrgInv' /\ UNCHANGED role
  <2>1. PICK j \in Job : j = [pc |-> "delete", org |-> o]
    BY DEF Job
  <2>2. Start(g, j) /\ Quiet
    BY <1>0, <1>3, <2>1 DEF StartDelete, Quiet
  <2>3. founder[o] # NoUser
    BY <1>3 DEF StartDelete, OrgInv, MembersOfFounded
  <2>4. Checked(j)'
    BY <2>1, <2>2, <2>3 DEF Checked, Quiet
  <2> QED BY <2>1, <2>2, <2>4, StartQuiet DEF Quiet
<1>4. ASSUME NEW o \in Orgs, NEW v \in Users, StartRemove(g, o, u, v)
      PROVE OrgInv' /\ UNCHANGED role
  <2>1. PICK j \in Job : j = [pc |-> "target", org |-> o, target |-> v]
    BY DEF Job
  <2>2. Checked(j)'
    BY <2>1, NothingChecked
  <2>3. Start(g, j) /\ Quiet
    BY <1>0, <1>4, <2>1 DEF StartRemove, Quiet
  <2> QED BY <2>1, <2>2, <2>3, StartQuiet DEF Quiet
<1>5. ASSUME NEW o \in Orgs, NEW v \in Users, NEW r \in GivenRoles, StartChange(g, o, u, v, r)
      PROVE OrgInv' /\ UNCHANGED role
  <2>1. PICK j \in Job : j = [pc |-> "change", org |-> o, target |-> v, role |-> r]
    BY DEF Job
  <2>2. Start(g, j) /\ Quiet /\ <<o, v, r>> \in granted'
    BY <1>0, <1>5, <2>1, GivenAreRoles DEF StartChange, Quiet
  <2>3. founder[o] # NoUser /\ u = founder[o] /\ v # u
    BY <1>5 DEF StartChange, OrgInv, MembersOfFounded
  <2>4. role[o][v] # "owner"
    BY <2>3 DEF OrgInv, MembersOfFounded
  <2>5. Checked(j)'
    BY <2>1, <2>2, <2>3, <2>4 DEF Checked, Quiet
  <2> QED BY <2>1, <2>2, <2>5, StartQuiet DEF Quiet
<1>6. ASSUME NEW o \in Orgs, NEW e \in Emails, NEW r \in GivenRoles, StartInvite(g, o, u, e, r)
      PROVE OrgInv' /\ UNCHANGED role
  <2>1. PICK j \in Job : j = [pc |-> "known", org |-> o, email |-> e, role |-> r]
    BY DEF Job
  <2>2. Start(g, j) /\ Quiet
    BY <1>0, <1>6, <2>1 DEF StartInvite, Quiet
  <2>3. founder[o] # NoUser
    BY <1>6 DEF StartInvite, Administers, OrgInv, MembersOfFounded
  <2>4. Checked(j)'
    BY <2>1, <2>2, <2>3 DEF Checked, Quiet
  <2> QED BY <2>1, <2>2, <2>4, StartQuiet DEF Quiet
<1>7. ASSUME NEW o \in Orgs, NEW i \in Invites, StartRevoke(g, o, u, i)
      PROVE OrgInv' /\ UNCHANGED role
  <2>1. PICK j \in Job : j = [pc |-> "revoke", org |-> o, invite |-> i]
    BY DEF Job
  <2>2. Checked(j)'
    BY <2>1, NothingChecked
  <2>3. Start(g, j) /\ Quiet
    BY <1>0, <1>7, <2>1 DEF StartRevoke, Quiet
  <2> QED BY <2>1, <2>2, <2>3, StartQuiet DEF Quiet
<1> QED BY <1>1, <1>2, <1>3, <1>4, <1>5, <1>6, <1>7 DEF Ask

\* There is at most one owner, so that the count never lets a removal go on.
LEMMA OneOwner ==
  ASSUME OrgInv, NEW o \in Orgs
  PROVE  Cardinality(Owners(o)) <= 1
<1>1. Owners(o) \subseteq {founder[o]}
  BY DEF Owners, OrgInv, MembersOfFounded
<1>2. IsFiniteSet({founder[o]}) /\ Cardinality({founder[o]}) = 1
  BY FS_Singleton
<1>3. Cardinality(Owners(o)) <= Cardinality({founder[o]})
  BY <1>1, <1>2, FS_Subset
<1> QED BY <1>2, <1>3

LEMMA MovesKeep ==
  ASSUME OrgInv, NEW g \in Goroutines,
         \/ ReadTarget(g) \/ CountOwners(g) \/ CheckMember(g) \/ CheckPending(g)
         \/ CompareAddress(g) \/ Abort(g)
  PROVE  OrgInv' /\ UNCHANGED role
<1> USE DEF members, people
<1>0. granted \subseteq Orgs \X Users \X Roles /\ job \in [Goroutines -> Job]
  BY DEF OrgInv, TypeOK
<1>1. CASE ReadTarget(g)
  <2>1. job[g] \in [pc : {"target", "count", "remove"}, org : Orgs, target : Users]
    BY <1>0, <1>1, JobLocals DEF ReadTarget
  <2>2. PICK pc \in {"count", "remove"} :
          /\ Goto(g, pc)
          /\ pc = "remove" => role[job[g].org][job[g].target] \notin {"owner", "none"}
    BY <1>1 DEF ReadTarget
  <2>3. PICK j : j = [pc |-> pc, org |-> job[g].org, target |-> job[g].target]
    OBVIOUS
  <2>4. job' \in [Goroutines -> Job] /\ Becomes(g, j)
    BY <1>0, <1>1, <2>2, <2>3, RemovalGoes DEF ReadTarget
  <2>5. Quiet
    BY <1>0, <1>1 DEF ReadTarget, Quiet
  <2>6. pc = "remove" => founder[job[g].org] # NoUser
    BY <2>1, <2>2 DEF OrgInv, MembersOfFounded
  <2>7. Checked(j)'
    BY <2>2, <2>3, <2>5, <2>6 DEF Checked, Quiet
  <2> QED BY <2>3, <2>4, <2>5, <2>7, QuietKeeps DEF Quiet
<1>2. CASE CountOwners(g)
  <2>1. job[g].org \in Orgs
    BY <1>0, <1>2, JobLocals DEF CountOwners
  <2>2. Return(g) /\ Quiet
    BY <1>0, <1>2, <2>1, OneOwner DEF CountOwners, Quiet
  <2> QED BY <2>2, ReturnQuiet DEF Quiet
<1>3. CASE CheckMember(g)
  <2>1. Quiet
    BY <1>0, <1>3 DEF CheckMember, Quiet
  <2>2. CASE Return(g)
    BY <2>1, <2>2, ReturnQuiet DEF Quiet
  <2>3. CASE Goto(g, "twice")
    <3>1. PICK j : j = [pc |-> "twice", org |-> job[g].org, email |-> job[g].email,
                        role |-> job[g].role]
      OBVIOUS
    <3>2. job' \in [Goroutines -> Job] /\ Becomes(g, j)
      BY <1>0, <1>3, <2>3, <3>1, InvitationGoes DEF CheckMember
    <3>3. founder[job[g].org] # NoUser
      BY <1>3 DEF CheckMember, OrgInv, Checked
    <3>4. Checked(j)'
      BY <2>1, <3>1, <3>3 DEF Checked, Quiet
    <3> QED BY <2>1, <3>1, <3>2, <3>4, QuietKeeps DEF Quiet
  <2> QED BY <1>3, <2>2, <2>3 DEF CheckMember
<1>4. CASE CheckPending(g)
  <2>1. Quiet
    BY <1>0, <1>4 DEF CheckPending, Quiet
  <2>2. CASE Return(g)
    BY <2>1, <2>2, ReturnQuiet DEF Quiet
  <2>3. CASE Goto(g, "invite")
    <3>1. PICK j : j = [pc |-> "invite", org |-> job[g].org, email |-> job[g].email,
                        role |-> job[g].role]
      OBVIOUS
    <3>2. job' \in [Goroutines -> Job] /\ Becomes(g, j)
      BY <1>0, <1>4, <2>3, <3>1, InvitationGoes DEF CheckPending
    <3>3. founder[job[g].org] # NoUser
      BY <1>4 DEF CheckPending, OrgInv, Checked
    <3>4. Checked(j)'
      BY <2>1, <3>1, <3>3 DEF Checked, Quiet
    <3> QED BY <2>1, <3>1, <3>2, <3>4, QuietKeeps DEF Quiet
  <2> QED BY <1>4, <2>2, <2>3 DEF CheckPending
<1>5. CASE CompareAddress(g)
  <2>1. job[g] \in [pc : {"address", "mark", "join"}, user : Users, invite : Invites]
    BY <1>0, <1>5, JobLocals DEF CompareAddress
  <2>2. PICK j : j = [pc |-> "mark", user |-> job[g].user, invite |-> job[g].invite]
    OBVIOUS
  <2>3. job' \in [Goroutines -> Job] /\ Becomes(g, j)
    BY <1>0, <1>5, <2>2, AcceptanceGoes DEF CompareAddress
  <2>4. Quiet
    BY <1>0, <1>5 DEF CompareAddress, Quiet
  <2>5. invite[job[g].invite].status # "unused"
    BY <1>5 DEF CompareAddress, OrgInv, Checked
  <2>6. invite[job[g].invite].email \in held[job[g].user]
    BY <1>5, <2>1 DEF CompareAddress, OrgInv
  <2>7. Checked(j)'
    BY <2>2, <2>4, <2>5, <2>6 DEF Checked, Quiet
  <2> QED BY <2>2, <2>3, <2>4, <2>7, QuietKeeps DEF Quiet
<1>6. CASE Abort(g)
  <2>1. Return(g) /\ Quiet
    BY <1>0, <1>6 DEF Abort, Quiet
  <2> QED BY <2>1, ReturnQuiet DEF Quiet
<1> QED BY <1>1, <1>2, <1>3, <1>4, <1>5, <1>6

(***************************************************************************)
(* The actions on invites and addresses.                                   *)
(***************************************************************************)
RowsStay == UNCHANGED <<status, role, founder, granted>>

LEMMA RowsStayKeeps ==
  ASSUME OrgInv, RowsStay, invite' \in [Invites -> Invite], email' \in [Users -> Emails],
         held' \in [Users -> SUBSET Emails], job' \in [Goroutines -> Job],
         InvitesKeepWords, \A u \in Users : held[u] \subseteq held'[u], HeldNow',
         InvitesOfFounded',
         JobsStep
  PROVE  OrgInv'
<1>1. TypeOK'
  BY DEF OrgInv, TypeOK, RowsStay
<1>2. StepStable
  BY DEF RowsStay, StepStable, FoundersStay, NoLateOwners, HistoryGrows
<1>3. RolesStep
  BY DEF RowsStay, RolesStep
<1>4. FoundedOnce' /\ JobsChecked
  <2>1. OrgsKept /\ \A h \in Goroutines : FoundingKept(h)
    BY DEF RowsStay, FoundingKept, OrgsKept, JobsStep
  <2> QED BY <2>1, FoundingsKept DEF JobsStep, JobsChecked
<1> QED BY <1>1, <1>2, <1>3, <1>4, StepKeeps

LEMMA ReturnSteps ==
  ASSUME job \in [Goroutines -> Job], NEW g \in Goroutines, Return(g)
  PROVE  /\ job' \in [Goroutines -> Job] /\ JobsStep
         /\ \A h \in Goroutines : job'[h].pc = "own" => job'[h] = job[h]
<1>1. job' \in [Goroutines -> Job] /\ Becomes(g, Idle)
  BY ReturnEffect
<1>2. job'[g].pc = "idle"
  BY <1>1 DEF Becomes, Idle
<1>3. Checked(job[g])'
  BY <1>2 DEF Checked
<1>4. \A h \in Goroutines : h # g => job'[h] = job[h]
  BY <1>1 DEF Becomes
<1> QED BY <1>1, <1>2, <1>3, <1>4 DEF JobsStep

\* A new status for an invite that exists keeps its words.
LEMMA StatusEffect ==
  ASSUME invite \in [Invites -> Invite], NEW i \in Invites, invite[i].status # "unused",
         NEW x \in {"pending", "expired", "accepted", "gone"},
         invite' = [invite EXCEPT ![i] = [invite[i] EXCEPT !.status = x]]
  PROVE  invite' \in [Invites -> Invite] /\ InvitesKeepWords /\ NoNewInvites
<1>1. invite[i] = [status |-> invite[i].status, org |-> invite[i].org,
                   email |-> invite[i].email, role |-> invite[i].role]
      /\ invite[i].org \in Orgs /\ invite[i].email \in Emails /\ invite[i].role \in GivenRoles
  BY InviteFields
<1>2. PICK y : y = [invite[i] EXCEPT !.status = x]
  OBVIOUS
<1>3. y = [status |-> x, org |-> invite[i].org, email |-> invite[i].email,
           role |-> invite[i].role]
  BY <1>1, <1>2
<1>4. y \in Invite
  BY <1>1, <1>3 DEF Invite
<1>5. invite' = [invite EXCEPT ![i] = y]
  BY <1>2
<1>6. invite' \in [Invites -> Invite] /\ invite'[i] = y
      /\ \A k \in Invites \ {i} : invite'[k] = invite[k]
  BY <1>4, <1>5
<1> QED BY <1>3, <1>6 DEF InvitesKeepWords, NoNewInvites

LEMMA InvitesKeep ==
  ASSUME OrgInv, NEW g \in Goroutines, NEW i \in Invites,
         InsertInvite(g, i) \/ DeleteInvite(g) \/ MarkAccepted(g)
  PROVE  OrgInv' /\ UNCHANGED role
<1> USE DEF members, people
<1>0. invite \in [Invites -> Invite] /\ job \in [Goroutines -> Job]
      /\ email \in [Users -> Emails] /\ held \in [Users -> SUBSET Emails] /\ HeldNow
  BY DEF OrgInv, TypeOK, HeldNow
<1>1. UNCHANGED <<email, held>> /\ RowsStay
  BY DEF InsertInvite, DeleteInvite, MarkAccepted, RowsStay
<1>2. HeldNow' /\ \A u \in Users : held[u] \subseteq held'[u]
  BY <1>0, <1>1 DEF HeldNow
<1>3. SUFFICES invite' \in [Invites -> Invite] /\ InvitesKeepWords /\ InvitesOfFounded'
               /\ job' \in [Goroutines -> Job] /\ JobsStep
  BY <1>0, <1>1, <1>2, RowsStayKeeps DEF RowsStay
<1>4. FoundersStay
  BY <1>1 DEF RowsStay, FoundersStay
<1>5. CASE InsertInvite(g, i)
  <2>1. job[g] \in [pc : {"known", "twice", "invite"}, org : Orgs, email : Emails, role : GivenRoles]
    BY <1>0, <1>5, JobLocals DEF InsertInvite
  <2>2. PICK x : x = [status |-> "pending", org |-> job[g].org,
                      email |-> job[g].email, role |-> job[g].role]
    OBVIOUS
  <2>3. x \in Invite
    BY <2>1, <2>2 DEF Invite
  <2>4. invite' = [invite EXCEPT ![i] = x] /\ invite[i].status = "unused"
    BY <1>5, <2>2 DEF InsertInvite
  <2>5. invite' \in [Invites -> Invite] /\ InvitesKeepWords
    BY <1>0, <2>3, <2>4 DEF InvitesKeepWords
  <2>6. Return(g) /\ founder[job[g].org] # NoUser
    BY <1>5 DEF InsertInvite, OrgInv, Checked
  <2>7. InvitesOfFounded'
    BY <1>0, <1>1, <2>2, <2>4, <2>6 DEF InvitesOfFounded, OrgInv, RowsStay
  <2> QED BY <1>0, <2>5, <2>6, <2>7, ReturnSteps
<1>6. CASE DeleteInvite(g)
  <2>1. job[g].invite \in Invites
    BY <1>0, <1>6, JobLocals DEF DeleteInvite
  <2>2. invite' \in [Invites -> Invite] /\ InvitesKeepWords /\ NoNewInvites
    <3>1. CASE UNCHANGED invite
      BY <1>0, <3>1, InvitesStay
    <3>2. CASE /\ invite[job[g].invite].status \in {"pending", "expired"}
               /\ invite' = [invite EXCEPT ![job[g].invite] =
                               [invite[job[g].invite] EXCEPT !.status = "gone"]]
      BY <1>0, <2>1, <3>2, StatusEffect
    <3> QED BY <1>6, <3>1, <3>2 DEF DeleteInvite
  <2>3. Return(g)
    BY <1>6 DEF DeleteInvite
  <2> QED BY <1>0, <1>4, <2>2, <2>3, ReturnSteps, FoundedStay
<1>7. CASE MarkAccepted(g)
  <2>1. job[g] \in [pc : {"address", "mark", "join"}, user : Users, invite : Invites]
        /\ job[g].pc = "mark"
    BY <1>0, <1>7, JobLocals DEF MarkAccepted
  <2>2. Checked(job[g])
    BY DEF OrgInv
  <2>3. invite[job[g].invite].status # "unused"
        /\ invite[job[g].invite].email \in held[job[g].user]
    BY <2>1, <2>2 DEF Checked
  <2>4. invite' \in [Invites -> Invite] /\ InvitesKeepWords /\ NoNewInvites
    <3>1. CASE UNCHANGED invite
      BY <1>0, <3>1, InvitesStay
    <3>2. CASE invite' = [invite EXCEPT ![job[g].invite] =
                            [invite[job[g].invite] EXCEPT !.status = "accepted"]]
      BY <1>0, <2>1, <2>3, <3>2, StatusEffect
    <3> QED BY <1>7, <3>1, <3>2 DEF MarkAccepted
  <2>5. PICK j : j = [pc |-> "join", user |-> job[g].user, invite |-> job[g].invite]
    OBVIOUS
  <2>6. job' \in [Goroutines -> Job] /\ Becomes(g, j)
    BY <1>0, <1>7, <2>1, <2>5, AcceptanceGoes DEF MarkAccepted
  <2>7. invite'[j.invite].status # "unused" /\ invite'[j.invite].email \in held'[j.user]
    BY <1>1, <2>1, <2>3, <2>4, <2>5 DEF InvitesKeepWords
  <2>8. Checked(job[g])' /\ job'[g].pc # "own"
    BY <2>5, <2>6, <2>7 DEF Checked, Becomes
  <2>9. \A h \in Goroutines : h # g => job'[h] = job[h]
    BY <2>6 DEF Becomes
  <2> QED BY <1>4, <2>4, <2>6, <2>8, <2>9, FoundedStay DEF JobsStep
<1>8. UNCHANGED role
  BY <1>1 DEF RowsStay
<1> QED BY <1>5, <1>6, <1>7, <1>8

LEMMA ExpireKeeps ==
  ASSUME OrgInv, NEW i \in Invites, Expire(i)
  PROVE  OrgInv' /\ UNCHANGED role
<1> USE DEF members, people
<1>0. invite \in [Invites -> Invite] /\ job \in [Goroutines -> Job]
      /\ email \in [Users -> Emails] /\ held \in [Users -> SUBSET Emails] /\ HeldNow
  BY DEF OrgInv, TypeOK, HeldNow
<1>1. UNCHANGED <<email, held, job>> /\ RowsStay /\ FoundersStay
  BY DEF Expire, RowsStay, FoundersStay
<1>2. HeldNow' /\ \A u \in Users : held[u] \subseteq held'[u]
  BY <1>0, <1>1 DEF HeldNow
<1>3. invite' \in [Invites -> Invite] /\ InvitesKeepWords /\ NoNewInvites
  BY <1>0, StatusEffect DEF Expire
<1>4. JobsStep /\ InvitesOfFounded'
  BY <1>1, <1>3, FoundedStay DEF JobsStep, OrgInv
<1> QED BY <1>0, <1>1, <1>2, <1>3, <1>4, RowsStayKeeps DEF RowsStay

LEMMA EmailKeeps ==
  ASSUME OrgInv, NEW u \in Users, NEW e \in Emails, UpdateEmail(u, e)
  PROVE  OrgInv' /\ UNCHANGED role
<1> USE DEF members
<1>0. email \in [Users -> Emails] /\ held \in [Users -> SUBSET Emails] /\ HeldNow
  BY DEF OrgInv, TypeOK, HeldNow
<1>1. RowsStay /\ UNCHANGED <<invite, job>>
  BY DEF UpdateEmail, RowsStay
<1>2. email' \in [Users -> Emails] /\ held' \in [Users -> SUBSET Emails] /\ HeldNow'
      /\ \A v \in Users : held[v] \subseteq held'[v]
  BY <1>0 DEF UpdateEmail, HeldNow
<1>3. JobsStep /\ InvitesKeepWords /\ InvitesOfFounded'
  BY <1>1, InvitesStay, FoundedStay DEF JobsStep, RowsStay, FoundersStay
<1> QED BY <1>1, <1>2, <1>3, RowsStayKeeps DEF OrgInv, TypeOK, RowsStay

(***************************************************************************)
(* The actions on organizations and roles.                                 *)
(***************************************************************************)
OwnerSafe ==
  \A o \in Orgs, u \in Users :
    role[o][u] = "owner" /\ role'[o][u] # "owner"
      => status'[o] = "gone" \/ Deprovision(o, u)

LEMMA KeptRoles ==
  ASSUME UNCHANGED role
  PROVE  OwnerSafe
  BY DEF OwnerSafe

\* A step that sets the role of one user in a live organization that was founded.
LEMMA OneRoleKeeps ==
  ASSUME OrgInv, UNCHANGED <<status, founder, invite, email, held>>,
         granted \subseteq granted', granted' \subseteq Orgs \X Users \X Roles,
         job' \in [Goroutines -> Job], JobsStep,
         \A h \in Goroutines : job'[h].pc = "own" => job'[h] = job[h],
         NEW o \in Orgs, NEW u \in Users, NEW r \in Roles \cup {"none"},
         SetRole(o, u, r),
         r # "none" => /\ status[o] = "live" /\ founder[o] # NoUser
                       /\ r # "owner" /\ RoleGiven(o, u, r)'
  PROVE  OrgInv'
<1>1. /\ RolesTyped'
      /\ role'[o][u] = r
      /\ \A p \in Orgs, v \in Users : p # o \/ v # u => role'[p][v] = role[p][v]
  BY SetRoleEffect DEF OrgInv, TypeOK, RolesTyped
<1>2. TypeOK'
  BY <1>1 DEF OrgInv, TypeOK, RolesTyped
<1>3. r # "owner"
  BY GivenAreRoles DEF Roles
<1>4. StepStable
  <2>1. NoLateOwners
    BY <1>1, <1>3 DEF NoLateOwners
  <2> QED BY <2>1 DEF StepStable, FoundersStay, InvitesKeepWords, HistoryGrows
<1>5. RolesStep
  <2>1. RoleWell(o, u)'
    BY <1>1 DEF RoleWell, RoleGiven
  <2> QED BY <1>1, <2>1 DEF RolesStep
<1>6. FoundedOnce' /\ JobsChecked /\ HeldNow'
  <2>1. OrgsKept /\ \A h \in Goroutines : FoundingKept(h)
    BY DEF FoundingKept, OrgsKept
  <2> QED BY <2>1, FoundingsKept DEF JobsStep, JobsChecked, HeldNow, OrgInv
<1>7. InvitesOfFounded'
  BY <1>4, InvitesStay, FoundedStay DEF StepStable
<1> QED BY <1>2, <1>4, <1>5, <1>6, <1>7, StepKeeps

\* The same when the row is left alone.
LEMMA NoRoleKeeps ==
  ASSUME OrgInv, UNCHANGED <<status, role, founder, invite, email, held>>,
         granted \subseteq granted', granted' \subseteq Orgs \X Users \X Roles,
         job' \in [Goroutines -> Job], JobsStep,
         \A h \in Goroutines : job'[h].pc = "own" => job'[h] = job[h]
  PROVE  OrgInv'
<1>1. TypeOK' /\ Quiet
  BY DEF OrgInv, TypeOK, Quiet
<1>2. RolesStep /\ FoundedOnce' /\ JobsChecked /\ HeldNow'
  <2>1. OrgsKept /\ \A h \in Goroutines : FoundingKept(h)
    BY DEF FoundingKept, OrgsKept
  <2> QED BY <2>1, FoundingsKept DEF RolesStep, JobsStep, JobsChecked, HeldNow, OrgInv
<1>3. InvitesOfFounded'
  BY <1>1, QuietStable, InvitesStay, FoundedStay DEF StepStable
<1> QED BY <1>1, <1>2, <1>3, QuietStable, StepKeeps

LEMMA IdPKeeps ==
  ASSUME OrgInv, NEW o \in Orgs, NEW u \in Users, Provision(o, u) \/ Deprovision(o, u)
  PROVE  OrgInv' /\ OwnerSafe
<1> USE DEF people
<1>0. granted \subseteq Orgs \X Users \X Roles /\ job \in [Goroutines -> Job] /\ RolesTyped
  BY DEF OrgInv, TypeOK, RolesTyped
<1>1. /\ UNCHANGED <<status, founder, invite, email, held, job>>
      /\ granted \subseteq granted' /\ granted' \subseteq Orgs \X Users \X Roles
      /\ status[o] = "live" /\ founder[o] # NoUser
  BY <1>0 DEF Provision, Deprovision, Roles
<1>2. job' \in [Goroutines -> Job] /\ JobsStep
      /\ \A h \in Goroutines : job'[h].pc = "own" => job'[h] = job[h]
  BY <1>0, <1>1 DEF JobsStep
<1>3. CASE Provision(o, u) /\ role[o][u] = "none"
  <2>1. SetRole(o, u, "member") /\ <<o, u, "member">> \in granted'
    BY <1>3 DEF Provision
  <2>2. RoleGiven(o, u, "member")'
    BY <2>1 DEF RoleGiven
  <2>3. "member" \in Roles \cup {"none"}
    BY DEF Roles
  <2>4. OrgInv'
    BY <1>1, <1>2, <2>1, <2>2, <2>3, OneRoleKeeps
  <2>5. OwnerSafe
    BY <1>0, <1>3, <2>1, <2>3, SetRoleEffect DEF OwnerSafe
  <2> QED BY <2>4, <2>5
<1>4. CASE Provision(o, u) /\ role[o][u] # "none"
  <2>1. UNCHANGED role
    BY <1>4 DEF Provision
  <2> QED BY <1>1, <1>2, <2>1, NoRoleKeeps, KeptRoles
<1>5. CASE Deprovision(o, u)
  <2>1. SetRole(o, u, "none") /\ "none" \in Roles \cup {"none"}
    BY <1>5 DEF Deprovision
  <2>2. OrgInv'
    BY <1>1, <1>2, <2>1, OneRoleKeeps
  <2>3. OwnerSafe
    BY <1>0, <1>5, <2>1, SetRoleEffect DEF OwnerSafe
  <2> QED BY <2>2, <2>3
<1> QED BY <1>3, <1>4, <1>5

LEMMA RequestsKeep ==
  ASSUME OrgInv, NEW g \in Goroutines, DeleteMember(g) \/ UpdateRole(g) \/ Join(g)
  PROVE  OrgInv' /\ OwnerSafe
<1> USE DEF people
<1>0. granted \subseteq Orgs \X Users \X Roles /\ job \in [Goroutines -> Job] /\ RolesTyped
  BY DEF OrgInv, TypeOK, RolesTyped
<1>1. /\ UNCHANGED <<status, founder, invite, email, held, granted>>
      /\ granted \subseteq granted' /\ granted' \subseteq Orgs \X Users \X Roles
  BY <1>0 DEF DeleteMember, UpdateRole, Join
<1>2. job' \in [Goroutines -> Job] /\ JobsStep
      /\ \A h \in Goroutines : job'[h].pc = "own" => job'[h] = job[h]
  BY <1>0, ReturnSteps DEF DeleteMember, UpdateRole, Join
<1>3. Checked(job[g])
  BY DEF OrgInv
<1>4. UNCHANGED role => OrgInv' /\ OwnerSafe
  BY <1>1, <1>2, NoRoleKeeps, KeptRoles
<1>5. CASE DeleteMember(g)
  <2>1. job[g].org \in Orgs /\ job[g].target \in Users /\ job[g].pc = "remove"
    BY <1>0, <1>5, JobLocals DEF DeleteMember
  <2>2. PICK o \in Orgs, u \in Users : o = job[g].org /\ u = job[g].target
    BY <2>1
  <2>3. SetRole(o, u, "none") /\ "none" \in Roles \cup {"none"} /\ role[o][u] # "owner"
    BY <1>3, <1>5, <2>1, <2>2 DEF DeleteMember, Checked
  <2>4. OrgInv'
    BY <1>1, <1>2, <2>3, OneRoleKeeps
  <2>5. OwnerSafe
    BY <1>0, <2>3, SetRoleEffect DEF OwnerSafe
  <2> QED BY <2>4, <2>5
<1>6. CASE UpdateRole(g)
  <2>1. job[g].org \in Orgs /\ job[g].target \in Users /\ job[g].role \in GivenRoles
        /\ job[g].pc = "change"
    BY <1>0, <1>6, JobLocals DEF UpdateRole
  <2>2. PICK o \in Orgs, u \in Users, r \in GivenRoles :
          o = job[g].org /\ u = job[g].target /\ r = job[g].role
    BY <2>1
  <2>3. CASE role[o][u] = "none"
    BY <1>4, <1>6, <2>2, <2>3 DEF UpdateRole
  <2>4. CASE role[o][u] # "none"
    <3>1. SetRole(o, u, r) /\ r \in Roles \cup {"none"} /\ r # "owner"
      BY <1>6, <2>2, <2>4, GivenAreRoles DEF UpdateRole
    <3>2. role[o][u] # "owner" /\ <<o, u, r>> \in granted'
      BY <1>1, <1>3, <2>1, <2>2 DEF Checked
    <3>3. status[o] = "live" /\ founder[o] # NoUser /\ RoleGiven(o, u, r)'
      BY <2>4, <3>2 DEF OrgInv, MembersOfFounded, RoleGiven
    <3>4. OrgInv'
      BY <1>1, <1>2, <3>1, <3>3, OneRoleKeeps
    <3>5. OwnerSafe
      BY <1>0, <3>1, <3>2, SetRoleEffect DEF OwnerSafe
    <3> QED BY <3>4, <3>5
  <2> QED BY <2>3, <2>4
<1>7. CASE Join(g)
  <2>1. job[g].pc = "join" /\ job[g].user \in Users /\ job[g].invite \in Invites
    BY <1>0, <1>7, JobLocals DEF Join
  <2>2. PICK u \in Users, i \in Invites : u = job[g].user /\ i = job[g].invite
    BY <2>1
  <2>3. invite[i].status # "unused" /\ invite[i].email \in held[u] /\ invite[i] \in Invite
    BY <1>3, <2>1, <2>2 DEF Checked, OrgInv, TypeOK
  <2>4. PICK o \in Orgs, r \in GivenRoles :
          o = invite[i].org /\ r = invite[i].role /\ founder[o] # NoUser
    BY <2>3, InviteFields DEF OrgInv, InvitesOfFounded
  <2>5. CASE role[o][u] # "none"
    BY <1>4, <1>7, <2>2, <2>4, <2>5 DEF Join
  <2>6. CASE role[o][u] = "none"
    <3>1. SetRole(o, u, r) /\ r \in Roles \cup {"none"} /\ r # "owner" /\ status[o] = "live"
      BY <1>7, <2>2, <2>4, <2>6, GivenAreRoles DEF Join
    <3>2. RoleGiven(o, u, r)'
      BY <1>1, <2>3, <2>4 DEF RoleGiven
    <3>3. OrgInv'
      BY <1>1, <1>2, <2>4, <3>1, <3>2, OneRoleKeeps
    <3>4. OwnerSafe
      BY <1>0, <2>6, <3>1, SetRoleEffect DEF OwnerSafe
    <3> QED BY <3>3, <3>4
  <2> QED BY <2>5, <2>6
<1> QED BY <1>5, <1>6, <1>7

\* The organization is made; nobody is in it yet.
LEMMA InsertOrgKeeps ==
  ASSUME OrgInv, NEW g \in Goroutines, NEW o \in Orgs, InsertOrg(g, o)
  PROVE  OrgInv' /\ OwnerSafe
<1> USE DEF members, people
<1>0. job \in [Goroutines -> Job] /\ status \in [Orgs -> {"none", "live", "gone"}]
  BY DEF OrgInv, TypeOK
<1>1. job[g].user \in Users
  BY <1>0, JobLocals DEF InsertOrg
<1>2. PICK j \in Job : j = [pc |-> "own", org |-> o, user |-> job[g].user]
  BY <1>1 DEF Job
<1>3. job' \in [Goroutines -> Job] /\ Becomes(g, j)
  BY <1>0, <1>2, JobEffect DEF InsertOrg
<1>4. /\ status' \in [Orgs -> {"none", "live", "gone"}]
      /\ status[o] = "none" /\ status'[o] = "live"
      /\ \A p \in Orgs : p # o => status'[p] = status[p]
      /\ UNCHANGED <<role, founder, granted, invite, email, held>>
  BY <1>0 DEF InsertOrg
<1>5. founder[o] = NoUser
  BY <1>4 DEF OrgInv, FoundedOnce
<1>6. TypeOK'
  BY <1>3, <1>4 DEF OrgInv, TypeOK
<1>7. StepStable /\ InvitesOfFounded' /\ HeldNow'
  <2>1. StepStable
    BY <1>4 DEF StepStable, FoundersStay, NoLateOwners, InvitesKeepWords, HistoryGrows
  <2> QED BY <1>4, <2>1, InvitesStay, FoundedStay DEF StepStable, HeldNow, OrgInv
<1>8. RolesStep
  BY <1>4 DEF RolesStep
<1>9. JobsChecked
  <2>1. Checked(job[g])'
    BY <1>2, <1>3 DEF Becomes, Checked
  <2>2. \A h \in Goroutines : h # g => job'[h] = job[h]
    BY <1>3 DEF Becomes
  <2> QED BY <2>1, <2>2 DEF JobsChecked
<1>10. FoundedOnce'
  <2>1. \A h \in Goroutines : job[h].pc = "own" => job[h].org \in Orgs /\ job[h].org # o
    BY <1>0, <1>4, JobLocals DEF OrgInv, FoundedOnce
  <2>2. job'[g] = j /\ \A h \in Goroutines : h # g => job'[h] = job[h]
    BY <1>3 DEF Becomes
  <2>3. \A p \in Orgs : status'[p] = "none" => founder'[p] = NoUser
    BY <1>4 DEF OrgInv, FoundedOnce
  <2>4. \A h \in Goroutines : job'[h].pc = "own" =>
          status'[job'[h].org] = "live" /\ founder'[job'[h].org] = NoUser
    BY <1>2, <1>4, <1>5, <2>1, <2>2 DEF OrgInv, FoundedOnce
  <2>5. \A h, k \in Goroutines :
          job'[h].pc = "own" /\ job'[k].pc = "own" /\ job'[h].org = job'[k].org => h = k
    BY <1>2, <2>1, <2>2 DEF OrgInv, FoundedOnce
  <2> QED BY <2>3, <2>4, <2>5 DEF FoundedOnce
<1> QED BY <1>4, <1>6, <1>7, <1>8, <1>9, <1>10, StepKeeps, KeptRoles

\* Its maker becomes the owner: it had no member, and nobody else makes it.
LEMMA InsertOwnerKeeps ==
  ASSUME OrgInv, NEW g \in Goroutines, InsertOwner(g)
  PROVE  OrgInv' /\ OwnerSafe
<1> USE DEF people
<1>0. job \in [Goroutines -> Job] /\ RolesTyped /\ founder \in [Orgs -> Users \cup {NoUser}]
  BY DEF OrgInv, TypeOK, RolesTyped
<1>1. job[g].pc = "own" /\ job[g].org \in Orgs /\ job[g].user \in Users
  BY <1>0, JobLocals DEF InsertOwner
<1>2. PICK o \in Orgs, u \in Users : o = job[g].org /\ u = job[g].user
  BY <1>1
<1>3. status[o] = "live" /\ founder[o] = NoUser
  BY <1>1, <1>2 DEF OrgInv, FoundedOnce
<1>4. \A v \in Users : role[o][v] = "none"
  BY <1>3 DEF OrgInv, MembersOfFounded
<1>5. /\ SetRole(o, u, "owner") /\ Return(g)
      /\ founder' = [founder EXCEPT ![o] = u]
      /\ UNCHANGED <<status, invite, email, held, granted>>
  BY <1>2 DEF InsertOwner
<1>6. /\ RolesTyped' /\ role'[o][u] = "owner"
      /\ \A p \in Orgs, v \in Users : p # o \/ v # u => role'[p][v] = role[p][v]
  BY <1>0, <1>5, SetRoleEffect DEF Roles
<1>7. /\ founder' \in [Orgs -> Users \cup {NoUser}] /\ founder'[o] = u /\ u # NoUser
      /\ \A p \in Orgs : p # o => founder'[p] = founder[p]
  BY <1>0, <1>5, OrgAssumption
<1>8. job' \in [Goroutines -> Job] /\ JobsStep /\ Becomes(g, Idle)
  BY <1>0, <1>5, ReturnSteps, ReturnEffect
<1>9. TypeOK'
  BY <1>5, <1>6, <1>7, <1>8 DEF OrgInv, TypeOK, RolesTyped
<1>10. StepStable /\ InvitesOfFounded' /\ HeldNow'
  <2>1. FoundersStay /\ NoLateOwners
    BY <1>3, <1>6, <1>7 DEF FoundersStay, NoLateOwners
  <2>2. StepStable
    BY <1>5, <2>1 DEF StepStable, InvitesKeepWords, HistoryGrows
  <2> QED BY <1>5, <2>1, <2>2, InvitesStay, FoundedStay DEF HeldNow, OrgInv
<1>11. RolesStep
  <2>1. RoleWell(o, u)'
    BY <1>3, <1>5, <1>6, <1>7 DEF RoleWell, RoleGiven
  <2> QED BY <1>5, <1>6, <2>1 DEF RolesStep
<1>12. FoundedOnce'
  <2>1. \A h \in Goroutines : job'[h].pc = "own" => h # g
    BY <1>8 DEF Becomes, Idle
  <2>2. \A h \in Goroutines : h # g => job'[h] = job[h]
    BY <1>8 DEF Becomes
  <2>3. \A h \in Goroutines : h # g /\ job[h].pc = "own" => job[h].org \in Orgs /\ job[h].org # o
    BY <1>0, <1>1, <1>2, JobLocals DEF OrgInv, FoundedOnce
  <2>4. (\A h \in Goroutines : FoundingKept(h)) /\ OrgsKept
    BY <1>3, <1>5, <1>7, <2>1, <2>2, <2>3 DEF FoundingKept, OrgsKept
  <2> QED BY <2>4, FoundingsKept
<1>13. OwnerSafe
  BY <1>4, <1>6 DEF OwnerSafe
<1>14. JobsChecked
  BY <1>8 DEF JobsStep, JobsChecked
<1> QED BY <1>9, <1>10, <1>11, <1>12, <1>13, <1>14, StepKeeps

\* Deleting an organization takes its members and its invites with it.
LEMMA DeleteOrgKeeps ==
  ASSUME OrgInv, NEW g \in Goroutines, DeleteOrg(g)
  PROVE  OrgInv' /\ OwnerSafe
<1> USE DEF people
<1>0. /\ job \in [Goroutines -> Job] /\ RolesTyped /\ invite \in [Invites -> Invite]
      /\ status \in [Orgs -> {"none", "live", "gone"}]
  BY DEF OrgInv, TypeOK, RolesTyped
<1>1. PICK o \in Orgs : o = job[g].org /\ job[g].pc = "delete"
  BY <1>0, JobLocals DEF DeleteOrg
<1>2. founder[o] # NoUser
  BY <1>1 DEF OrgInv, Checked
<1>3. /\ Return(g) /\ UNCHANGED <<email, held, founder, granted>>
      /\ status' = [status EXCEPT ![o] = "gone"]
      /\ role' = [role EXCEPT ![o] = [u \in Users |-> "none"]]
      /\ invite' = [i \in Invites |->
                      IF invite[i].status # "unused" /\ invite[i].org = o
                        THEN [invite[i] EXCEPT !.status = "gone"] ELSE invite[i]]
  BY <1>1 DEF DeleteOrg
<1>4. /\ RolesTyped' /\ \A u \in Users : role'[o][u] = "none"
      /\ \A p \in Orgs, v \in Users : p # o => role'[p][v] = role[p][v]
  BY <1>0, <1>3 DEF RolesTyped
<1>5. /\ status' \in [Orgs -> {"none", "live", "gone"}] /\ status'[o] = "gone"
      /\ \A p \in Orgs : p # o => status'[p] = status[p]
  BY <1>0, <1>3
<1>6. /\ invite' \in [Invites -> Invite] /\ InvitesKeepWords /\ NoNewInvites
  <2>1. ASSUME NEW i \in Invites
        PROVE  /\ invite'[i] \in Invite
               /\ invite[i].status = "unused" => invite'[i] = invite[i]
               /\ invite[i].status # "unused" =>
                    /\ invite'[i].status # "unused" /\ invite'[i].org = invite[i].org
                    /\ invite'[i].email = invite[i].email /\ invite'[i].role = invite[i].role
    <3>1. CASE invite[i].status # "unused" /\ invite[i].org = o
      <4>1. invite'[i] = [invite[i] EXCEPT !.status = "gone"]
        BY <1>3, <3>1
      <4>2. invite[i] = [status |-> invite[i].status, org |-> invite[i].org,
                         email |-> invite[i].email, role |-> invite[i].role]
            /\ invite[i].org \in Orgs /\ invite[i].email \in Emails
            /\ invite[i].role \in GivenRoles
        BY <1>0, <3>1, InviteFields
      <4>3. invite'[i] = [status |-> "gone", org |-> invite[i].org,
                          email |-> invite[i].email, role |-> invite[i].role]
        BY <4>1, <4>2
      <4>4. invite'[i] \in Invite
        BY <4>2, <4>3 DEF Invite
      <4> QED BY <3>1, <4>3, <4>4
    <3>2. CASE ~(invite[i].status # "unused" /\ invite[i].org = o)
      BY <1>0, <1>3, <3>2
    <3> QED BY <3>1, <3>2
  <2>2. invite' = [i \in Invites |-> invite'[i]]
    BY <1>3
  <2>3. invite' \in [Invites -> Invite]
    BY <2>1, <2>2
  <2>4. InvitesKeepWords /\ NoNewInvites
    BY <2>1 DEF InvitesKeepWords, NoNewInvites
  <2> QED BY <2>3, <2>4
<1>7. job' \in [Goroutines -> Job] /\ JobsStep
      /\ \A h \in Goroutines : job'[h].pc = "own" => job'[h] = job[h]
  BY <1>0, <1>3, ReturnSteps
<1>8. TypeOK'
  BY <1>3, <1>4, <1>5, <1>6, <1>7 DEF OrgInv, TypeOK, RolesTyped
<1>9. StepStable /\ InvitesOfFounded' /\ HeldNow'
  <2>1. FoundersStay /\ NoLateOwners
    BY <1>3, <1>4 DEF FoundersStay, NoLateOwners
  <2>2. StepStable
    BY <1>3, <1>6, <2>1 DEF StepStable, HistoryGrows
  <2> QED BY <1>3, <1>6, <2>1, <2>2, FoundedStay DEF HeldNow, OrgInv
<1>10. RolesStep
  <2>1. \A u \in Users : RoleWell(o, u)'
    BY <1>4 DEF RoleWell
  <2> QED BY <1>4, <1>5, <2>1 DEF RolesStep
<1>11. FoundedOnce'
  <2>1. \A h \in Goroutines : job[h].pc = "own" => job[h].org \in Orgs /\ job[h].org # o
    BY <1>0, <1>2, JobLocals DEF OrgInv, FoundedOnce
  <2>2. (\A h \in Goroutines : FoundingKept(h)) /\ OrgsKept
    BY <1>3, <1>5, <1>7, <2>1 DEF FoundingKept, OrgsKept
  <2> QED BY <2>2, FoundingsKept
<1>12. OwnerSafe
  BY <1>4, <1>5 DEF OwnerSafe
<1>13. JobsChecked
  BY <1>7 DEF JobsStep, JobsChecked
<1> QED BY <1>8, <1>9, <1>10, <1>11, <1>12, <1>13, StepKeeps

(***************************************************************************)
(* The theorems.                                                           *)
(***************************************************************************)
LEMMA OrgInvInit == Init => OrgInv
<1> SUFFICES ASSUME Init PROVE OrgInv
  OBVIOUS
<1>1. TypeOK
  BY DEF Init, TypeOK, Invite, Job, Idle
<1>2. /\ \A o \in Orgs : founder[o] = NoUser
      /\ \A o \in Orgs, u \in Users : role[o][u] = "none"
      /\ \A i \in Invites : invite[i].status = "unused"
      /\ \A g \in Goroutines : job[g].pc = "idle"
      /\ \A u \in Users : email[u] \in held[u]
  BY DEF Init, Idle
<1> QED BY <1>1, <1>2 DEF OrgInv, RolesWereGiven, MembersOfFounded, FoundedOnce, Checked,
                          InvitesOfFounded

LEMMA OrgInvNext == OrgInv /\ [Next]_vars => OrgInv' /\ OwnerSafe
<1> SUFFICES ASSUME OrgInv, [Next]_vars PROVE OrgInv' /\ OwnerSafe
  OBVIOUS
<1>1. CASE UNCHANGED vars
  <2>1. OrgInv'
    BY <1>1 DEF vars, OrgInv, TypeOK, RolesWereGiven, RoleGiven, MembersOfFounded, FoundedOnce,
                Checked, InvitesOfFounded
  <2> QED BY <1>1, <2>1, KeptRoles DEF vars
<1>2. ASSUME NEW g \in Goroutines, NEW u \in Users, Ask(g, u) PROVE OrgInv' /\ OwnerSafe
  BY <1>2, StartsKeep, KeptRoles
<1>3. ASSUME NEW g \in Goroutines, Step(g) PROVE OrgInv' /\ OwnerSafe
  <2>1. CASE \/ ReadTarget(g) \/ CountOwners(g) \/ CheckMember(g) \/ CheckPending(g)
             \/ CompareAddress(g) \/ Abort(g)
    BY <2>1, MovesKeep, KeptRoles
  <2>2. CASE InsertOwner(g)
    BY <2>2, InsertOwnerKeeps
  <2>3. CASE DeleteOrg(g)
    BY <2>3, DeleteOrgKeeps
  <2>4. CASE DeleteMember(g) \/ UpdateRole(g) \/ Join(g)
    BY <2>4, RequestsKeep
  <2>5. CASE DeleteInvite(g) \/ MarkAccepted(g)
    <3>1. PICK i \in Invites : TRUE
      BY <2>5, JobLocals DEF DeleteInvite, MarkAccepted, OrgInv, TypeOK
    <3> QED BY <2>5, <3>1, InvitesKeep, KeptRoles
  <2>6. ASSUME NEW o \in Orgs, InsertOrg(g, o) PROVE OrgInv' /\ OwnerSafe
    BY <2>6, InsertOrgKeeps
  <2>7. ASSUME NEW i \in Invites, InsertInvite(g, i) PROVE OrgInv' /\ OwnerSafe
    BY <2>7, InvitesKeep, KeptRoles
  <2> QED BY <1>3, <2>1, <2>2, <2>3, <2>4, <2>5, <2>6, <2>7 DEF Step
<1>4. ASSUME NEW i \in Invites, Expire(i) PROVE OrgInv' /\ OwnerSafe
  BY <1>4, ExpireKeeps, KeptRoles
<1>5. ASSUME NEW o \in Orgs, NEW u \in Users, Provision(o, u) \/ Deprovision(o, u)
      PROVE  OrgInv' /\ OwnerSafe
  BY <1>5, IdPKeeps
<1>6. ASSUME NEW u \in Users, NEW e \in Emails, UpdateEmail(u, e) PROVE OrgInv' /\ OwnerSafe
  BY <1>6, EmailKeeps, KeptRoles
<1> QED BY <1>1, <1>2, <1>3, <1>4, <1>5, <1>6 DEF Next

LEMMA OrgInvAlways == Spec => []OrgInv
<1>1. OrgInv /\ [Next]_vars => OrgInv'
  BY OrgInvNext
<1> QED BY OrgInvInit, <1>1, PTL DEF Spec

\* Memberships, invites, requests and their histories are well typed.
THEOREM OrganizationsTyped == Spec => []TypeOK
<1>1. OrgInv => TypeOK
  BY DEF OrgInv
<1> QED BY OrgInvAlways, <1>1, PTL

\* Nobody has a role that neither the founding, nor an owner, nor the identity
\* provider, nor an invite to an address of his gave him.
THEOREM OnlyGivenRoles == Spec => []RolesWereGiven
<1>1. OrgInv => RolesWereGiven
  BY DEF OrgInv
<1> QED BY OrgInvAlways, <1>1, PTL

\* No request, however many run at once, takes the role of an owner; only the end
\* of the organization or its identity provider does.
THEOREM OwnersStay == Spec => OwnerStays
<1>1. OrgInv /\ [Next]_vars
        => [\A o \in Orgs, u \in Users :
              role[o][u] = "owner" /\ role'[o][u] # "owner"
                => status'[o] = "gone" \/ Deprovision(o, u)]_vars
  BY OrgInvNext DEF OwnerSafe
<1> QED BY OrgInvAlways, <1>1, PTL DEF Spec, OwnerStays
=============================================================================
