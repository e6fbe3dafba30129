----------------------------- MODULE Identities -----------------------------
(***************************************************************************)
(* internal/sso and internal/scim: how what an identity provider says of a *)
(* person becomes an account here.  A sign-in and a SCIM provisioning both *)
(* resolve a (provider, subject, address) in up to four statements, while  *)
(* other requests register, link, unlink and rename the same people.       *)
(*                                                                         *)
(* The provider of a workspace is the workspace itself: a sign-in by OIDC, *)
(* one by SAML and SCIM's externalId share one name space of subjects.     *)
(***************************************************************************)
EXTENDS Naturals, FiniteSets

CONSTANTS People,     \* rows of users
          Addresses,
          Providers, Subjects,
          Workspace,  \* the provider that is an organization
          Calls,      \* requests in flight
          Absent      \* no row

ASSUME IdentitiesAssumption == Workspace \in Providers /\ Absent \notin People \cup Addresses

VARIABLES address,   \* users.email, unique
          verified,  \* users.email_verified
          secret,    \* users whose password is not ''
          identity,  \* external_identities, unique by provider and subject
          config,    \* organization_sso_configs of the workspace
          scim,      \* there is a SCIM token, and the plan is 'business'
          call       \* what each request does

identityVars == <<address, verified, secret, identity, config, scim, call>>
rows == <<address, verified, secret>>
setup == <<config, scim>>

\* What a provider asserts; how it reached us.
Claim == [provider : Providers, subject : Subjects, email : Addresses, by : {"sso", "scim"}]

Call == [pc : {"idle"}]
  \cup [pc : {"byIdentity", "byEmail", "create"}, claim : Claim]
  \cup [pc : {"link"}, claim : Claim, user : People]
  \cup [pc : {"external"}, user : People]
  \cup [pc : {"count", "unlink"}, user : People, provider : Providers]
  \cup [pc : {"reuse"}]
  \cup [pc : {"upsert"}, config : {"oidc", "saml", "none"}]

NoCall == [pc |-> "idle"]

IdentitiesInit ==
  /\ address = [u \in People |-> Absent]
  /\ verified = {} /\ secret = {}
  /\ identity = [p \in Providers |-> [s \in Subjects |-> Absent]]
  /\ config = "none" /\ scim = FALSE
  /\ call = [c \in Calls |-> NoCall]

Receive(c, job) == call[c].pc = "idle" /\ call' = [call EXCEPT ![c] = job]
Continue(c, job) == call' = [call EXCEPT ![c] = job]
Answer(c) == call' = [call EXCEPT ![c] = NoCall]

Exists(u) == address[u] # Absent
Free(e) == \A u \in People : address[u] # e
IdentitiesOf(u) == {i \in Providers \X Subjects : identity[i[1]][i[2]] = u}

\* INSERT INTO users.
NewPerson(u, e, isVerified, hasPassword) ==
  /\ ~Exists(u) /\ Free(e)
  /\ address' = [address EXCEPT ![u] = e]
  /\ verified' = IF isVerified THEN verified \cup {u} ELSE verified
  /\ secret' = IF hasPassword THEN secret \cup {u} ELSE secret

\* A plausible mistake, to test the properties: the latest sign-in takes the identity.
InsertOrMove(p, s, u) == identity' = [identity EXCEPT ![p] = [identity[p] EXCEPT ![s] = u]]

\* INSERT INTO external_identities ... ON CONFLICT DO NOTHING.
InsertIdentity(p, s, u) ==
  IF identity[p][s] = Absent
    THEN identity' = [identity EXCEPT ![p] = [identity[p] EXCEPT ![s] = u]]
    ELSE UNCHANGED identity

(***************************************************************************)
(* internal/auth, where accounts also come from.                           *)
(***************************************************************************)
SelfRegister(u, e) ==
  /\ \E autoVerify \in BOOLEAN : NewPerson(u, e, autoVerify, TRUE)
  /\ UNCHANGED <<identity, setup, call>>

ConfirmAddress(u) ==
  /\ Exists(u)
  /\ verified' = verified \cup {u}
  /\ UNCHANGED <<address, secret, identity, setup, call>>

ResetSecret(u) ==
  /\ Exists(u)
  /\ secret' = secret \cup {u}
  /\ UNCHANGED <<address, verified, identity, setup, call>>

(***************************************************************************)
(* Callback, OrgCallback, OrgSAMLCallback, and SCIM's CreateUser: they     *)
(* begin differently and share resolveUser.                                *)
(***************************************************************************)
Resolve(c, p, s, e, by) ==
  Receive(c, [pc |-> "byIdentity",
              claim |-> [provider |-> p, subject |-> s, email |-> e, by |-> by]])

ProviderCallback(c, p, s, e) ==
  /\ p # Workspace
  /\ Resolve(c, p, s, e, "sso")
  /\ UNCHANGED <<rows, identity, setup>>

\* The configuration is read again: one of the other kind refuses.
WorkspaceCallback(c, s, e, kind) ==
  /\ config = kind
  /\ Resolve(c, Workspace, s, e, "sso")
  /\ UNCHANGED <<rows, identity, setup>>

OrgCallback(c, s, e) == WorkspaceCallback(c, s, e, "oidc")
OrgSAMLCallback(c, s, e) == WorkspaceCallback(c, s, e, "saml")

ProvisionUser(c, s, e) ==
  /\ scim
  /\ Resolve(c, Workspace, s, e, "scim")
  /\ UNCHANGED <<rows, identity, setup>>

\* A sign-in takes every error for "no such row"; SCIM gives up, as in Drop.
FindByIdentity(c) ==
  /\ call[c].pc = "byIdentity"
  /\ LET m == call[c].claim  u == identity[m.provider][m.subject] IN
       \/ u # Absent /\ Answer(c)
       \/ /\ u = Absent \/ m.by = "sso"
          /\ Continue(c, [call[c] EXCEPT !.pc = "byEmail"])
  /\ UNCHANGED <<rows, identity, setup>>

FindByEmail(c) ==
  /\ call[c].pc = "byEmail"
  /\ LET m == call[c].claim IN
       \/ \E u \in verified :
            address[u] = m.email /\ Continue(c, [pc |-> "link", claim |-> m, user |-> u])
       \/ /\ Free(m.email) \/ m.by = "sso"
          /\ Continue(c, [call[c] EXCEPT !.pc = "create"])
  /\ UNCHANGED <<rows, identity, setup>>

\* A plausible mistake, to test the properties: the provider's word is not taken.
InsertUnverified(c, u) ==
  /\ call[c].pc = "create"
  /\ LET m == call[c].claim IN
       /\ NewPerson(u, m.email, FALSE, FALSE)
       /\ Continue(c, [pc |-> "link", claim |-> m, user |-> u])
  /\ UNCHANGED <<identity, setup>>

\* INSERT INTO users ... ON CONFLICT (email) DO UPDATE ... RETURNING id: an account
\* that has come into being since it was looked for is taken as it is.
InsertPerson(c, u) ==
  /\ call[c].pc = "create"
  /\ LET m == call[c].claim IN
       /\ IF address[u] = m.email THEN UNCHANGED rows ELSE NewPerson(u, m.email, TRUE, FALSE)
       /\ Continue(c, [pc |-> "link", claim |-> m, user |-> u])
  /\ UNCHANGED <<identity, setup>>

LinkIdentity(c) ==
  /\ call[c].pc = "link"
  /\ InsertIdentity(call[c].claim.provider, call[c].claim.subject, call[c].user)
  /\ Answer(c)
  /\ UNCHANGED <<rows, setup>>

(***************************************************************************)
(* SCIM's ReplaceUser and PatchUser: the profile, then the membership      *)
(* (OrgMembership), then the external id.  A provider names accounts it    *)
(* was told of: any account may be a member.                               *)
(***************************************************************************)
Rename(u, e) ==
  /\ address[u] = e \/ Free(e)
  /\ address' = [address EXCEPT ![u] = e]

ApplyUserUpdate(c, u) ==
  /\ scim /\ Exists(u)
  /\ Receive(c, [pc |-> "external", user |-> u])
  /\ UNCHANGED <<verified, secret, identity, setup>>

ReplaceUser(c, u) == (\E e \in Addresses : Rename(u, e)) /\ ApplyUserUpdate(c, u)

\* One operation of the patch, which need not rename.
PatchUser(c, u) == UNCHANGED address /\ ApplyUserUpdate(c, u)

UpsertExternalIdentity(c) ==
  /\ call[c].pc = "external"
  /\ \E s \in Subjects : InsertIdentity(Workspace, s, call[c].user)
  /\ Answer(c)
  /\ UNCHANGED <<rows, setup>>

(***************************************************************************)
(* UnlinkIdentity: the password is read, the identities are counted, those *)
(* of one provider are deleted.                                            *)
(***************************************************************************)
Unlink(c, u, p) ==
  /\ Exists(u)
  /\ Receive(c, [pc |-> IF u \in secret THEN "unlink" ELSE "count", user |-> u, provider |-> p])
  /\ UNCHANGED <<rows, identity, setup>>

CountIdentities(c) ==
  /\ call[c].pc = "count"
  /\ IF Cardinality(IdentitiesOf(call[c].user)) <= 1
       THEN Answer(c) ELSE Continue(c, [call[c] EXCEPT !.pc = "unlink"])
  /\ UNCHANGED <<rows, identity, setup>>

DeleteIdentities(c) ==
  /\ call[c].pc = "unlink"
  /\ LET u == call[c].user  p == call[c].provider IN
       identity' = [identity EXCEPT ![p] =
         [s \in Subjects |-> IF identity[p][s] = u THEN Absent ELSE identity[p][s]]]
  /\ Answer(c)
  /\ UNCHANGED <<rows, setup>>

(***************************************************************************)
(* SaveConfig of either kind, DeleteConfig, GenerateSCIMToken,             *)
(* RevokeSCIMToken, by an owner or an administrator.  An OIDC              *)
(* configuration without a secret keeps the stored one, which an OIDC      *)
(* configuration alone has.                                                *)
(***************************************************************************)
ChangeConfig(c, next) ==
  /\ Receive(c, next)
  /\ UNCHANGED <<rows, identity, setup>>

SaveOIDCConfig(c) ==
  \/ ChangeConfig(c, [pc |-> "reuse"])
  \/ ChangeConfig(c, [pc |-> "upsert", config |-> "oidc"])

SaveSAMLConfig(c) == ChangeConfig(c, [pc |-> "upsert", config |-> "saml"])
DeleteConfig(c) == ChangeConfig(c, [pc |-> "upsert", config |-> "none"])

ReuseSecret(c) ==
  /\ call[c].pc = "reuse" /\ config = "oidc"
  /\ Continue(c, [pc |-> "upsert", config |-> "oidc"])
  /\ UNCHANGED <<rows, identity, setup>>

UpsertConfig(c) ==
  /\ call[c].pc = "upsert"
  /\ config' = call[c].config
  /\ Answer(c)
  /\ UNCHANGED <<rows, identity, scim>>

GenerateSCIMToken == scim' = TRUE /\ UNCHANGED <<rows, identity, config, call>>

\* Or the end of the plan.
RevokeSCIMToken == scim' = FALSE /\ UNCHANGED <<rows, identity, config, call>>

\* An error, a refusal or the death of the process.
Drop(c) ==
  /\ call[c].pc # "idle"
  /\ Answer(c)
  /\ UNCHANGED <<rows, identity, setup>>

-----------------------------------------------------------------------------
IdentitiesNext ==
  \/ \E u \in People : ConfirmAddress(u) \/ ResetSecret(u)
  \/ \E u \in People, e \in Addresses : SelfRegister(u, e)
  \/ \E c \in Calls, s \in Subjects, e \in Addresses :
       \/ ProvisionUser(c, s, e)
       \/ \E p \in Providers : ProviderCallback(c, p, s, e)
       \/ OrgCallback(c, s, e) \/ OrgSAMLCallback(c, s, e)
  \/ \E c \in Calls :
       \/ FindByIdentity(c) \/ FindByEmail(c) \/ LinkIdentity(c)
       \/ UpsertExternalIdentity(c) \/ CountIdentities(c) \/ DeleteIdentities(c) \/ Drop(c)
       \/ SaveOIDCConfig(c) \/ SaveSAMLConfig(c) \/ DeleteConfig(c)
       \/ ReuseSecret(c) \/ UpsertConfig(c)
  \/ \E c \in Calls, u \in People :
       \/ InsertPerson(c, u) \/ ReplaceUser(c, u) \/ PatchUser(c, u)
       \/ \E p \in Providers : Unlink(c, u, p)
  \/ GenerateSCIMToken \/ RevokeSCIMToken

IdentitiesSpec == IdentitiesInit /\ [][IdentitiesNext]_identityVars

-----------------------------------------------------------------------------
IdentitiesTypeOK ==
  /\ address \in [People -> Addresses \cup {Absent}]
  /\ \A u, v \in People : Exists(u) /\ address[u] = address[v] => u = v
  /\ verified \subseteq People /\ secret \subseteq People
  /\ identity \in [Providers -> [Subjects -> People \cup {Absent}]]
  /\ config \in {"none", "oidc", "saml"} /\ scim \in BOOLEAN
  /\ call \in [Calls -> Call]

\* An account without a password is verified: whatever step a first sign-in stopped at,
\* and whatever was unlinked since, the next sign-in with the address finds the account
\* and links it, where it would refuse an unverified one for ever.
PasswordlessAreVerified == \A u \in People : Exists(u) /\ u \notin secret => u \in verified

\* An identity is never passed from one account to another: it is its account's until
\* that account unlinks it.
IdentityStays ==
  [][\A p \in Providers, s \in Subjects :
       identity[p][s] # Absent /\ identity'[p][s] # identity[p][s] =>
         /\ identity'[p][s] = Absent
         /\ \E c \in Calls : DeleteIdentities(c) /\ call[c].user = identity[p][s]]_identityVars
=============================================================================
