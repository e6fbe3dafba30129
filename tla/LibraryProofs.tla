--------------------------- MODULE LibraryProofs ----------------------------
(***************************************************************************)
(* Who a sign-in becomes, what people put in order, and what their reports *)
(* count: theorems about Identities, Library, Playlists and Analytics,     *)
(* each with its type and the invariant its safety rests on, for any       *)
(* numbers of people, providers, rows and requests; and that the runs of   *)
(* MCSafety are behaviours of these.                                       *)
(***************************************************************************)
EXTENDS MCSafety, FiniteSetTheorems, WellFoundedInduction, TLAPS

(***************************************************************************)
(* Accounts that identity providers make (Identities).                     *)
(***************************************************************************)
LEMMA CallShape ==
  ASSUME NEW j \in Call
  PROVE  /\ j.pc \in {"byIdentity", "byEmail", "create", "link"} => j.claim \in Claim
         /\ j.pc \in {"link", "external", "count", "unlink"} => j.user \in People
         /\ j.pc \in {"count", "unlink"} => j.provider \in Providers
         /\ j.pc = "upsert" => j.config \in {"oidc", "saml", "none"}
         /\ j.pc = "byIdentity" => [j EXCEPT !.pc = "byEmail"] \in Call
         /\ j.pc = "byEmail" => [j EXCEPT !.pc = "create"] \in Call
         /\ j.pc = "count" => [j EXCEPT !.pc = "unlink"] \in Call
  BY DEF Call

LEMMA IdentitiesTypeInit == IdentitiesInit => IdentitiesTypeOK
<1> SUFFICES ASSUME IdentitiesInit PROVE IdentitiesTypeOK
  OBVIOUS
<1>1. NoCall \in Call
  BY DEF NoCall, Call
<1>2. [s \in Subjects |-> Absent] \in [Subjects -> People \cup {Absent}]
  OBVIOUS
<1> QED BY <1>1, <1>2 DEF IdentitiesInit, IdentitiesTypeOK, Exists

LEMMA NewPersonTyped ==
  ASSUME IdentitiesTypeOK, NEW u \in People, NEW e \in Addresses,
         NEW isVerified \in BOOLEAN, NEW hasPassword \in BOOLEAN,
         NewPerson(u, e, isVerified, hasPassword)
  PROVE  /\ address' \in [People -> Addresses \cup {Absent}]
         /\ \A v, w \in People : address'[v] # Absent /\ address'[v] = address'[w] => v = w
         /\ verified' \subseteq People /\ secret' \subseteq People
  BY DEF NewPerson, Free, Exists, IdentitiesTypeOK

LEMMA InsertIdentityTyped ==
  ASSUME IdentitiesTypeOK, NEW p \in Providers, NEW s \in Subjects, NEW u \in People,
         InsertIdentity(p, s, u)
  PROVE  identity' \in [Providers -> [Subjects -> People \cup {Absent}]]
<1>1. [identity[p] EXCEPT ![s] = u] \in [Subjects -> People \cup {Absent}]
  BY DEF IdentitiesTypeOK
<1> QED BY <1>1 DEF InsertIdentity, IdentitiesTypeOK

LEMMA IdentitiesTypeStep == IdentitiesTypeOK /\ [IdentitiesNext]_identityVars => IdentitiesTypeOK'
<1> SUFFICES ASSUME IdentitiesTypeOK, [IdentitiesNext]_identityVars PROVE IdentitiesTypeOK'
  OBVIOUS
<1> USE DEF rows, setup
<1>0. NoCall \in Call
  BY DEF NoCall, Call
<1>1. ASSUME NEW u \in People, ConfirmAddress(u) \/ ResetSecret(u) PROVE IdentitiesTypeOK'
  <2>1. /\ UNCHANGED <<address, identity, setup, call>>
        /\ verified' \in {verified, verified \cup {u}} /\ secret' \in {secret, secret \cup {u}}
    BY <1>1 DEF ConfirmAddress, ResetSecret
  <2>2. verified' \subseteq People /\ secret' \subseteq People
    BY <2>1 DEF IdentitiesTypeOK
  <2> QED BY <2>1, <2>2 DEF IdentitiesTypeOK, Exists
<1>2. ASSUME NEW u \in People, NEW e \in Addresses, SelfRegister(u, e) PROVE IdentitiesTypeOK'
  <2>1. PICK autoVerify \in BOOLEAN : NewPerson(u, e, autoVerify, TRUE)
    BY <1>2 DEF SelfRegister
  <2>2. /\ address' \in [People -> Addresses \cup {Absent}]
        /\ \A v, w \in People : address'[v] # Absent /\ address'[v] = address'[w] => v = w
        /\ verified' \subseteq People /\ secret' \subseteq People
    BY <2>1, NewPersonTyped
  <2> QED BY <1>2, <2>2 DEF SelfRegister, IdentitiesTypeOK, Exists
<1>3. ASSUME NEW c \in Calls, NEW p \in Providers, NEW s \in Subjects, NEW e \in Addresses,
             ProviderCallback(c, p, s, e)
      PROVE  IdentitiesTypeOK'
  BY <1>3 DEF ProviderCallback, Resolve, Receive, Call, Claim, IdentitiesTypeOK, Exists
<1>4. ASSUME NEW c \in Calls, NEW s \in Subjects, NEW e \in Addresses,
             OrgCallback(c, s, e) \/ OrgSAMLCallback(c, s, e) \/ ProvisionUser(c, s, e)
      PROVE  IdentitiesTypeOK'
  BY <1>4, IdentitiesAssumption
     DEF OrgCallback, OrgSAMLCallback, WorkspaceCallback, ProvisionUser, Resolve, Receive, Call, Claim,
         IdentitiesTypeOK, Exists
<1>5. ASSUME NEW c \in Calls, FindByIdentity(c) PROVE IdentitiesTypeOK'
  <2>1. [call[c] EXCEPT !.pc = "byEmail"] \in Call
    BY <1>5, CallShape DEF FindByIdentity, IdentitiesTypeOK
  <2> QED BY <1>0, <1>5, <2>1 DEF FindByIdentity, Answer, Continue, IdentitiesTypeOK, Exists
<1>6. ASSUME NEW c \in Calls, FindByEmail(c) PROVE IdentitiesTypeOK'
  <2>1. call[c].claim \in Claim /\ [call[c] EXCEPT !.pc = "create"] \in Call
    BY <1>6, CallShape DEF FindByEmail, IdentitiesTypeOK
  <2>2. \A u \in People : [pc |-> "link", claim |-> call[c].claim, user |-> u] \in Call
    BY <2>1 DEF Call
  <2>3. call' \in [Calls -> Call]
    BY <1>6, <2>1, <2>2 DEF FindByEmail, Continue, IdentitiesTypeOK
  <2> QED BY <1>6, <2>3 DEF FindByEmail, IdentitiesTypeOK, Exists
<1>7. ASSUME NEW c \in Calls, NEW u \in People, InsertPerson(c, u) PROVE IdentitiesTypeOK'
  <2> DEFINE m == call[c].claim
  <2>1. m \in Claim /\ m.email \in Addresses
    BY <1>7, CallShape DEF InsertPerson, IdentitiesTypeOK, Claim
  <2>2. [pc |-> "link", claim |-> m, user |-> u] \in Call
    BY <2>1 DEF Call
  <2>3. /\ UNCHANGED rows \/ NewPerson(u, m.email, TRUE, FALSE)
        /\ Continue(c, [pc |-> "link", claim |-> m, user |-> u])
        /\ UNCHANGED <<identity, setup>>
    BY <1>7 DEF InsertPerson
  <2>4. /\ address' \in [People -> Addresses \cup {Absent}]
        /\ \A v, w \in People : address'[v] # Absent /\ address'[v] = address'[w] => v = w
        /\ verified' \subseteq People /\ secret' \subseteq People
    BY <2>1, <2>3, NewPersonTyped DEF IdentitiesTypeOK, Exists
  <2> QED BY <2>2, <2>3, <2>4 DEF Continue, IdentitiesTypeOK, Exists
<1>8. ASSUME NEW c \in Calls, LinkIdentity(c) PROVE IdentitiesTypeOK'
  <2>1. call[c].claim.provider \in Providers /\ call[c].claim.subject \in Subjects /\ call[c].user \in People
    BY <1>8, CallShape DEF LinkIdentity, IdentitiesTypeOK, Claim
  <2>2. identity' \in [Providers -> [Subjects -> People \cup {Absent}]]
    BY <1>8, <2>1, InsertIdentityTyped DEF LinkIdentity
  <2> QED BY <1>0, <1>8, <2>2 DEF LinkIdentity, Answer, IdentitiesTypeOK, Exists
<1>9. ASSUME NEW c \in Calls, NEW u \in People, ReplaceUser(c, u) \/ PatchUser(c, u)
      PROVE  IdentitiesTypeOK'
  <2>1. [pc |-> "external", user |-> u] \in Call
    BY DEF Call
  <2>2. /\ address' \in [People -> Addresses \cup {Absent}]
        /\ \A v, w \in People : address'[v] # Absent /\ address'[v] = address'[w] => v = w
    BY <1>9 DEF ReplaceUser, PatchUser, Rename, Free, IdentitiesTypeOK, Exists
  <2> QED BY <1>9, <2>1, <2>2
          DEF ReplaceUser, PatchUser, ApplyUserUpdate, Receive, IdentitiesTypeOK, Exists
<1>10. ASSUME NEW c \in Calls, UpsertExternalIdentity(c) PROVE IdentitiesTypeOK'
  <2>1. call[c].user \in People
    BY <1>10, CallShape DEF UpsertExternalIdentity, IdentitiesTypeOK
  <2>2. identity' \in [Providers -> [Subjects -> People \cup {Absent}]]
    BY <1>10, <2>1, InsertIdentityTyped, IdentitiesAssumption DEF UpsertExternalIdentity
  <2> QED BY <1>0, <1>10, <2>2 DEF UpsertExternalIdentity, Answer, IdentitiesTypeOK, Exists
<1>11. ASSUME NEW c \in Calls, NEW u \in People, NEW p \in Providers, Unlink(c, u, p)
       PROVE  IdentitiesTypeOK'
  BY <1>11 DEF Unlink, Receive, Call, IdentitiesTypeOK, Exists
<1>12. ASSUME NEW c \in Calls, CountIdentities(c) PROVE IdentitiesTypeOK'
  <2>1. [call[c] EXCEPT !.pc = "unlink"] \in Call
    BY <1>12, CallShape DEF CountIdentities, IdentitiesTypeOK
  <2> QED BY <1>0, <1>12, <2>1 DEF CountIdentities, Answer, Continue, IdentitiesTypeOK, Exists
<1>13. ASSUME NEW c \in Calls, DeleteIdentities(c) PROVE IdentitiesTypeOK'
  BY <1>0, <1>13, CallShape DEF DeleteIdentities, Answer, IdentitiesTypeOK, Exists
<1>14. ASSUME NEW c \in Calls, SaveOIDCConfig(c) \/ SaveSAMLConfig(c) \/ DeleteConfig(c) \/ ReuseSecret(c)
       PROVE  IdentitiesTypeOK'
  BY <1>14 DEF SaveOIDCConfig, SaveSAMLConfig, DeleteConfig, ReuseSecret, ChangeConfig, Receive,
     Continue, Call, IdentitiesTypeOK, Exists
<1>15. ASSUME NEW c \in Calls, UpsertConfig(c) PROVE IdentitiesTypeOK'
  BY <1>0, <1>15, CallShape DEF UpsertConfig, Answer, IdentitiesTypeOK, Exists
<1>16. ASSUME NEW c \in Calls, Drop(c) PROVE IdentitiesTypeOK'
  BY <1>0, <1>16 DEF Drop, Answer, IdentitiesTypeOK, Exists
<1>17. CASE GenerateSCIMToken \/ RevokeSCIMToken \/ UNCHANGED identityVars
  BY <1>17 DEF GenerateSCIMToken, RevokeSCIMToken, identityVars, IdentitiesTypeOK, Exists
<1> QED BY <1>1, <1>2, <1>3, <1>4, <1>5, <1>6, <1>7, <1>8, <1>9, <1>10, <1>11, <1>12, <1>13,
           <1>14, <1>15, <1>16, <1>17 DEF IdentitiesNext

\* Rows and requests have their types, and no two accounts have one address.
THEOREM IdentitiesTyped == IdentitiesSpec => []IdentitiesTypeOK
  BY IdentitiesTypeInit, IdentitiesTypeStep, PTL DEF IdentitiesSpec

LEMMA PasswordlessStep ==
  ASSUME IdentitiesTypeOK, PasswordlessAreVerified, [IdentitiesNext]_identityVars
  PROVE  PasswordlessAreVerified'
<1> USE DEF rows, setup
<1>1. ASSUME NEW u \in People, NEW e, NEW isVerified \in BOOLEAN, NEW hasPassword \in BOOLEAN,
             NewPerson(u, e, isVerified, hasPassword), isVerified \/ hasPassword
      PROVE  PasswordlessAreVerified'
  BY <1>1 DEF NewPerson, PasswordlessAreVerified, Exists, IdentitiesTypeOK
<1>2. ASSUME UNCHANGED rows PROVE PasswordlessAreVerified'
  BY <1>2 DEF PasswordlessAreVerified, Exists
<1>3. ASSUME NEW u \in People, ConfirmAddress(u) \/ ResetSecret(u) PROVE PasswordlessAreVerified'
  BY <1>3 DEF ConfirmAddress, ResetSecret, PasswordlessAreVerified, Exists
<1>4. ASSUME NEW u \in People, NEW e \in Addresses, SelfRegister(u, e) PROVE PasswordlessAreVerified'
  BY <1>1, <1>4 DEF SelfRegister
<1>5. ASSUME NEW c \in Calls, NEW u \in People, InsertPerson(c, u) PROVE PasswordlessAreVerified'
  BY <1>1, <1>2, <1>5 DEF InsertPerson
\* A new address for an account that has one: the account exists already.
<1>6. ASSUME NEW c \in Calls, NEW u \in People, ReplaceUser(c, u) PROVE PasswordlessAreVerified'
  <2>1. /\ \A v \in People : address'[v] # Absent => address[v] # Absent
        /\ UNCHANGED <<verified, secret>>
    BY <1>6 DEF ReplaceUser, ApplyUserUpdate, Rename, Exists, IdentitiesTypeOK
  <2> QED BY <2>1 DEF PasswordlessAreVerified, Exists
<1>7. ASSUME NEW c \in Calls, NEW s \in Subjects, NEW e \in Addresses,
             \/ ProvisionUser(c, s, e) \/ OrgCallback(c, s, e) \/ OrgSAMLCallback(c, s, e)
             \/ \E p \in Providers : ProviderCallback(c, p, s, e)
      PROVE  PasswordlessAreVerified'
  BY <1>2, <1>7 DEF ProvisionUser, OrgCallback, OrgSAMLCallback, WorkspaceCallback, ProviderCallback
<1>8. ASSUME NEW c \in Calls,
             \/ FindByIdentity(c) \/ FindByEmail(c) \/ LinkIdentity(c)
             \/ UpsertExternalIdentity(c) \/ CountIdentities(c) \/ DeleteIdentities(c) \/ Drop(c)
      PROVE  PasswordlessAreVerified'
  BY <1>2, <1>8 DEF FindByIdentity, FindByEmail, LinkIdentity, UpsertExternalIdentity,
     CountIdentities, DeleteIdentities, Drop
<1>9. ASSUME NEW c \in Calls,
             \/ SaveOIDCConfig(c) \/ SaveSAMLConfig(c) \/ DeleteConfig(c)
             \/ ReuseSecret(c) \/ UpsertConfig(c)
      PROVE  PasswordlessAreVerified'
  BY <1>2, <1>9 DEF SaveOIDCConfig, SaveSAMLConfig, DeleteConfig, ReuseSecret, UpsertConfig, ChangeConfig
<1>10. ASSUME NEW c \in Calls, NEW u \in People, PatchUser(c, u) \/ \E p \in Providers : Unlink(c, u, p)
       PROVE  PasswordlessAreVerified'
  BY <1>2, <1>10 DEF PatchUser, ApplyUserUpdate, Unlink
<1>11. CASE GenerateSCIMToken \/ RevokeSCIMToken \/ UNCHANGED identityVars
  BY <1>2, <1>11 DEF GenerateSCIMToken, RevokeSCIMToken, identityVars
<1> QED BY <1>3, <1>4, <1>5, <1>6, <1>7, <1>8, <1>9, <1>10, <1>11 DEF IdentitiesNext

\* An account without a password can always be signed in to: it is verified.
THEOREM PasswordlessStayVerified == IdentitiesSpec => []PasswordlessAreVerified
<1>1. IdentitiesInit => PasswordlessAreVerified
  BY DEF IdentitiesInit, PasswordlessAreVerified, Exists
<1>2. IdentitiesTypeOK /\ PasswordlessAreVerified /\ [IdentitiesNext]_identityVars
        => (IdentitiesTypeOK /\ PasswordlessAreVerified)'
  BY IdentitiesTypeStep, PasswordlessStep
<1> QED BY <1>1, <1>2, IdentitiesTypeInit, PTL DEF IdentitiesSpec

\* Only the account that has an identity gives it up.
NotPassedOn ==
  \A p \in Providers, s \in Subjects :
    identity[p][s] # Absent /\ identity'[p][s] # identity[p][s] =>
      /\ identity'[p][s] = Absent
      /\ \E c \in Calls : DeleteIdentities(c) /\ call[c].user = identity[p][s]

LEMMA InsertionPassesNothing ==
  ASSUME IdentitiesTypeOK, NEW p \in Providers, NEW s \in Subjects, NEW u, InsertIdentity(p, s, u)
  PROVE  NotPassedOn
<1> SUFFICES ASSUME NEW q \in Providers, NEW t \in Subjects, identity[q][t] # Absent
             PROVE  identity'[q][t] = identity[q][t]
  BY DEF NotPassedOn
<1>1. CASE identity[p][s] # Absent
  BY <1>1 DEF InsertIdentity
<1>2. CASE identity[p][s] = Absent
  <2>1. identity' = [identity EXCEPT ![p] = [identity[p] EXCEPT ![s] = u]]
    BY <1>2 DEF InsertIdentity
  <2>2. CASE q # p
    BY <2>1, <2>2 DEF IdentitiesTypeOK
  <2>3. CASE q = p /\ t # s
    BY <2>1, <2>3 DEF IdentitiesTypeOK
  <2> QED BY <1>2, <2>2, <2>3
<1> QED BY <1>1, <1>2

LEMMA IdentityStaysStep == IdentitiesTypeOK /\ [IdentitiesNext]_identityVars => NotPassedOn
<1> SUFFICES ASSUME IdentitiesTypeOK, [IdentitiesNext]_identityVars PROVE NotPassedOn
  OBVIOUS
<1> USE DEF rows, setup
<1>1. ASSUME UNCHANGED identity PROVE NotPassedOn
  BY <1>1 DEF NotPassedOn
<1>2. ASSUME NEW c \in Calls, LinkIdentity(c) PROVE NotPassedOn
  <2>1. call[c].claim.provider \in Providers /\ call[c].claim.subject \in Subjects
    BY <1>2, CallShape DEF LinkIdentity, IdentitiesTypeOK, Claim
  <2> QED BY <1>2, <2>1, InsertionPassesNothing DEF LinkIdentity
<1>3. ASSUME NEW c \in Calls, UpsertExternalIdentity(c) PROVE NotPassedOn
  BY <1>3, InsertionPassesNothing, IdentitiesAssumption DEF UpsertExternalIdentity
<1>4. ASSUME NEW c \in Calls, DeleteIdentities(c) PROVE NotPassedOn
  <2> SUFFICES ASSUME NEW p \in Providers, NEW s \in Subjects, identity[p][s] # Absent,
                      identity'[p][s] # identity[p][s]
               PROVE  identity'[p][s] = Absent /\ call[c].user = identity[p][s]
    BY <1>4 DEF NotPassedOn
  <2>1. identity' = [identity EXCEPT ![call[c].provider] =
          [t \in Subjects |-> IF identity[call[c].provider][t] = call[c].user
                                THEN Absent ELSE identity[call[c].provider][t]]]
    BY <1>4 DEF DeleteIdentities
  <2>2. p = call[c].provider
    BY <2>1 DEF IdentitiesTypeOK
  <2> QED BY <2>1, <2>2 DEF IdentitiesTypeOK
<1>5. ASSUME NEW u \in People, \/ ConfirmAddress(u) \/ ResetSecret(u)
                              \/ \E e \in Addresses : SelfRegister(u, e)
      PROVE  NotPassedOn
  BY <1>1, <1>5 DEF ConfirmAddress, ResetSecret, SelfRegister
<1>6. ASSUME NEW c \in Calls, NEW s \in Subjects, NEW e \in Addresses,
             \/ ProvisionUser(c, s, e) \/ OrgCallback(c, s, e) \/ OrgSAMLCallback(c, s, e)
             \/ \E p \in Providers : ProviderCallback(c, p, s, e)
      PROVE  NotPassedOn
  BY <1>1, <1>6 DEF ProvisionUser, OrgCallback, OrgSAMLCallback, WorkspaceCallback, ProviderCallback
<1>7. ASSUME NEW c \in Calls,
             \/ FindByIdentity(c) \/ FindByEmail(c) \/ CountIdentities(c) \/ Drop(c)
             \/ SaveOIDCConfig(c) \/ SaveSAMLConfig(c) \/ DeleteConfig(c)
             \/ ReuseSecret(c) \/ UpsertConfig(c)
      PROVE  NotPassedOn
  BY <1>1, <1>7 DEF FindByIdentity, FindByEmail, CountIdentities, Drop, SaveOIDCConfig,
     SaveSAMLConfig, DeleteConfig, ReuseSecret, UpsertConfig, ChangeConfig
<1>8. ASSUME NEW c \in Calls, NEW u \in People,
             \/ InsertPerson(c, u) \/ ReplaceUser(c, u) \/ PatchUser(c, u)
             \/ \E p \in Providers : Unlink(c, u, p)
      PROVE  NotPassedOn
  BY <1>1, <1>8 DEF InsertPerson, ReplaceUser, PatchUser, ApplyUserUpdate, Unlink
<1>9. CASE GenerateSCIMToken \/ RevokeSCIMToken \/ UNCHANGED identityVars
  BY <1>1, <1>9 DEF GenerateSCIMToken, RevokeSCIMToken, identityVars
<1> QED BY <1>2, <1>3, <1>4, <1>5, <1>6, <1>7, <1>8, <1>9 DEF IdentitiesNext

\* No sign-in, provisioning or renaming passes an identity from one account to another.
THEOREM IdentitiesStay == IdentitiesSpec => IdentityStays
<1>1. IdentitiesTypeOK /\ [IdentitiesNext]_identityVars => [NotPassedOn]_identityVars
  BY IdentityStaysStep
<1> QED BY <1>1, IdentitiesTyped, PTL DEF IdentitiesSpec, IdentityStays, NotPassedOn

-----------------------------------------------------------------------------
(***************************************************************************)
(* Library.  A request carries what it verified; the rows it was verified  *)
(* against may be gone when it writes, but an identifier that it names is  *)
(* not given to another row meanwhile.                                     *)
(***************************************************************************)
LEMMA JobOf ==
  ASSUME LibraryTypeOK, NEW e \in Edits
  PROVE  /\ edit[e] \in Edit
         /\ edit[e].pc \in {"idle", "addFolder", "addTag", "file", "clear", "label", "move", "strip"}
         /\ edit[e].pc \in {"addFolder", "addTag"} => edit[e].scope \in Scope
         /\ edit[e].pc = "file" => /\ edit[e].scope \in Scope /\ edit[e].mine \in BOOLEAN
                                   /\ edit[e].clips \subseteq Clips
                                   /\ edit[e].folder \in Folders \cup {Nowhere}
         /\ edit[e].pc \in {"clear", "label"} =>
              edit[e].clips \subseteq Clips /\ edit[e].tags \subseteq Tags
         /\ edit[e].pc = "label" => edit[e].clip \in Clips /\ edit[e].left \subseteq Tags
         /\ edit[e].pc = "move" => edit[e].clip \in Clips /\ edit[e].org \in Teams \cup {Nowhere}
         /\ edit[e].pc = "strip" => edit[e].clip \in Clips
<1>1. edit[e] \in Edit
  BY DEF LibraryTypeOK
<1> QED
  BY <1>1 DEF Edit

\* The jobs that requests are given.
LEMMA NoEditIsEdit == NoEdit \in Edit
  BY DEF NoEdit, Edit

LEMMA ClearIsEdit ==
  ASSUME NEW clips \in SUBSET Clips, NEW tags \in SUBSET Tags
  PROVE  [pc |-> "clear", clips |-> clips, tags |-> tags] \in Edit
  BY DEF Edit

LEMMA LabelIsEdit ==
  ASSUME NEW v \in Clips, NEW left \in SUBSET Tags, NEW clips \in SUBSET Clips,
         NEW tags \in SUBSET Tags
  PROVE  [pc |-> "label", clip |-> v, left |-> left, clips |-> clips, tags |-> tags] \in Edit
  BY DEF Edit

LEMMA GivesEdit ==
  ASSUME LibraryTypeOK, NEW e \in Edits, NEW job \in Edit, edit' = [edit EXCEPT ![e] = job]
  PROVE  /\ edit' \in [Edits -> Edit]
         /\ \A d \in Edits : edit'[d] = IF d = e THEN job ELSE edit[d]
  BY DEF LibraryTypeOK

\* The next video of a batch, or the end of it.
LEMMA NextClipGives ==
  ASSUME LibraryTypeOK, NEW e \in Edits, NEW clips \in SUBSET Clips, NEW tags \in SUBSET Tags,
         NextClip(e, clips, tags)
  PROVE  \E job \in Edit : /\ edit' = [edit EXCEPT ![e] = job]
                           /\ \/ job = NoEdit
                              \/ job = [pc |-> "clear", clips |-> clips, tags |-> tags]
  BY NoEditIsEdit, ClearIsEdit DEF NextClip, EndEdit, GoOn

\* A step of one request, or of none.  What it does to the tags of a video: clears those
\* of one and begins to insert, inserts one of those left, or drops some.
LEMMA ClearLabelsGives ==
  ASSUME LibraryTypeOK, NEW e \in Edits, ClearLabels(e)
  PROVE  \E v \in Clips, job \in Edit :
           /\ labels' = [labels EXCEPT ![v] = {}]
           /\ edit' = [edit EXCEPT ![e] = job]
           /\ \/ job = NoEdit
              \/ job = [pc |-> "clear", clips |-> edit[e].clips \ {v}, tags |-> edit[e].tags]
              \/ job = [pc |-> "label", clip |-> v, left |-> edit[e].tags,
                        clips |-> edit[e].clips \ {v}, tags |-> edit[e].tags]
<1>1. edit[e].clips \in SUBSET Clips /\ edit[e].tags \in SUBSET Tags
  BY JobOf DEF ClearLabels
<1>2. PICK v \in edit[e].clips :
        /\ labels' = [labels EXCEPT ![v] = {}]
        /\ IF edit[e].tags = {}
             THEN NextClip(e, edit[e].clips \ {v}, edit[e].tags)
             ELSE GoOn(e, [pc |-> "label", clip |-> v, left |-> edit[e].tags,
                           clips |-> edit[e].clips \ {v}, tags |-> edit[e].tags])
  BY DEF ClearLabels
<1>3. v \in Clips /\ edit[e].clips \ {v} \in SUBSET Clips
  BY <1>1
<1>4. CASE edit[e].tags = {}
  <2>1. NextClip(e, edit[e].clips \ {v}, edit[e].tags)
    BY <1>2, <1>4
  <2>2. PICK job \in Edit :
          /\ edit' = [edit EXCEPT ![e] = job]
          /\ \/ job = NoEdit
             \/ job = [pc |-> "clear", clips |-> edit[e].clips \ {v}, tags |-> edit[e].tags]
    BY <1>1, <1>3, <2>1, NextClipGives
  <2> QED
    BY <1>2, <1>3, <2>2
<1>5. CASE edit[e].tags # {}
  <2> DEFINE job == [pc |-> "label", clip |-> v, left |-> edit[e].tags,
                     clips |-> edit[e].clips \ {v}, tags |-> edit[e].tags]
  <2>1. job \in Edit
    BY <1>1, <1>3, LabelIsEdit
  <2>2. labels' = [labels EXCEPT ![v] = {}] /\ edit' = [edit EXCEPT ![e] = job]
    BY <1>2, <1>5 DEF GoOn
  <2> QED
    BY <1>3, <2>1, <2>2
<1> QED
  BY <1>4, <1>5

LEMMA InsertLabelGives ==
  ASSUME LibraryTypeOK, NEW e \in Edits, InsertLabel(e)
  PROVE  \E t \in edit[e].left, job \in Edit :
           /\ edit' = [edit EXCEPT ![e] = job]
           /\ \/ job = NoEdit
              \/ job = [pc |-> "clear", clips |-> edit[e].clips, tags |-> edit[e].tags]
              \/ job = [pc |-> "label", clip |-> edit[e].clip, left |-> edit[e].left \ {t},
                        clips |-> edit[e].clips, tags |-> edit[e].tags]
           /\ \/ labels' = labels /\ job = NoEdit
              \/ /\ labels' = [labels EXCEPT ![edit[e].clip] = labels[edit[e].clip] \cup {t}]
                 /\ clip[edit[e].clip] # Nowhere
<1>0. /\ edit[e] \in Edit /\ edit[e].pc = "label"
      /\ edit[e].clips \in SUBSET Clips /\ edit[e].tags \in SUBSET Tags
      /\ edit[e].clip \in Clips /\ edit[e].left \in SUBSET Tags
  BY JobOf DEF InsertLabel
<1> DEFINE v == edit[e].clip
           stuck(t) == t \in labels[v] \/ tag[t] = Nowhere \/ clip[v] = Nowhere
<1>1. PICK t \in edit[e].left :
        IF stuck(t)
          THEN EndEdit(e) /\ UNCHANGED labels
          ELSE /\ labels' = [labels EXCEPT ![v] = labels[v] \cup {t}]
               /\ IF edit[e].left = {t} THEN NextClip(e, edit[e].clips, edit[e].tags)
                  ELSE GoOn(e, [edit[e] EXCEPT !.left = edit[e].left \ {t}])
  BY DEF InsertLabel
<1>2. CASE stuck(t)
  BY <1>1, <1>2, NoEditIsEdit DEF EndEdit
<1>3. CASE ~stuck(t) /\ edit[e].left = {t}
  <2>1. NextClip(e, edit[e].clips, edit[e].tags)
    BY <1>1, <1>3
  <2> QED
    BY <1>0, <1>1, <1>3, <2>1, NextClipGives
<1>4. CASE ~stuck(t) /\ edit[e].left # {t}
  <2>0. edit[e] \in [pc : {"label"}, clip : Clips, left : SUBSET Tags, clips : SUBSET Clips,
                     tags : SUBSET Tags]
    BY <1>0 DEF Edit
  <2>1. [edit[e] EXCEPT !.left = edit[e].left \ {t}]
          = [pc |-> "label", clip |-> edit[e].clip, left |-> edit[e].left \ {t},
             clips |-> edit[e].clips, tags |-> edit[e].tags]
    BY <1>0, <2>0
  <2>2. [edit[e] EXCEPT !.left = edit[e].left \ {t}] \in Edit
    BY <1>0, <2>1, LabelIsEdit
  <2> QED
    BY <1>1, <1>4, <2>1, <2>2 DEF GoOn
<1> QED
  BY <1>2, <1>3, <1>4

\* A video that is being moved has a row: without it the update would have no sense.
MovesStored == \A e \in Edits : edit[e].pc = "move" => clip[edit[e].clip] # Nowhere

LEMMA LibraryInitTypes == LibraryInit => LibraryTypeOK
  BY NoEditIsEdit DEF LibraryInit, LibraryTypeOK

\* The requests that begin: each gets a job, and nothing else changes.
LEMMA BeginGives ==
  ASSUME LibraryTypeOK, NEW e \in Edits, NEW scope \in Scope,
         \/ CreateFolder(e, scope) \/ CreateTag(e, scope)
         \/ \E v \in Clips, tags \in SUBSET Tags : SetVideoTags(e, scope, v, tags)
         \/ \E clips \in SUBSET Clips \ {{}}, tags \in SUBSET Tags :
              BatchSetTags(e, scope, clips, tags)
         \/ \E v \in Clips, org \in Teams \cup {Nowhere} : Transfer(e, scope, v, org)
  PROVE  /\ UNCHANGED <<clip, filed, folder, tag, labels>>
         /\ \E job \in Edit :
              /\ edit' = [edit EXCEPT ![e] = job]
              /\ job.pc \in {"addFolder", "addTag", "clear", "move"}
              /\ job.pc = "clear" => Cardinality(job.tags) <= MaxTagsPerClip
              /\ job.pc = "move" => clip[job.clip] # Nowhere
<1>1. CASE CreateFolder(e, scope)
  <2>1. [pc |-> "addFolder", scope |-> scope] \in Edit
    BY DEF Edit
  <2> QED
    BY <1>1, <2>1 DEF CreateFolder, BeginEdit
<1>2. CASE CreateTag(e, scope)
  <2>1. [pc |-> "addTag", scope |-> scope] \in Edit
    BY DEF Edit
  <2> QED
    BY <1>2, <2>1 DEF CreateTag, BeginEdit
<1>3. ASSUME NEW v \in Clips, NEW tags \in SUBSET Tags, SetVideoTags(e, scope, v, tags)
      PROVE  /\ UNCHANGED <<clip, filed, folder, tag, labels>>
             /\ \E job \in Edit :
                  /\ edit' = [edit EXCEPT ![e] = job] /\ job.pc = "clear"
                  /\ Cardinality(job.tags) <= MaxTagsPerClip
  <2>1. [pc |-> "clear", clips |-> {v}, tags |-> tags] \in Edit
    BY ClearIsEdit
  <2> QED
    BY <1>3, <2>1 DEF SetVideoTags, BeginEdit
<1>4. ASSUME NEW clips \in SUBSET Clips, NEW tags \in SUBSET Tags,
             BatchSetTags(e, scope, clips, tags)
      PROVE  /\ UNCHANGED <<clip, filed, folder, tag, labels>>
             /\ \E job \in Edit :
                  /\ edit' = [edit EXCEPT ![e] = job] /\ job.pc = "clear"
                  /\ Cardinality(job.tags) <= MaxTagsPerClip
  <2>1. [pc |-> "clear", clips |-> clips, tags |-> tags] \in Edit
    BY ClearIsEdit
  <2> QED
    BY <1>4, <2>1 DEF BatchSetTags, BeginEdit
<1>5. ASSUME NEW v \in Clips, NEW org \in Teams \cup {Nowhere}, Transfer(e, scope, v, org)
      PROVE  /\ UNCHANGED <<clip, filed, folder, tag, labels>>
             /\ \E job \in Edit : /\ edit' = [edit EXCEPT ![e] = job]
                                  /\ job.pc = "move" /\ clip[job.clip] # Nowhere
  <2>1. [pc |-> "move", clip |-> v, org |-> org] \in Edit
    BY DEF Edit
  <2> QED
    BY <1>5, <2>1 DEF Transfer, BeginEdit, Kept
<1> QED
  BY <1>1, <1>2, <1>3, <1>4, <1>5

LEMMA SetFolderGives ==
  ASSUME LibraryTypeOK, NEW e \in Edits, NEW scope \in Scope,
         \/ \E v \in Clips, f \in Folders \cup {Nowhere} : SetVideoFolder(e, scope, v, f)
         \/ \E clips \in SUBSET Clips \ {{}}, f \in Folders \cup {Nowhere} :
              BatchSetFolder(e, scope, clips, f)
  PROVE  /\ UNCHANGED <<clip, filed, folder, tag, labels>>
         /\ \E job \in Edit :
              /\ edit' = [edit EXCEPT ![e] = job]
              /\ job.pc = "file" /\ job.scope = scope
              /\ job.folder # Nowhere => Within(folder[job.folder], scope)
<1>1. PICK clips \in SUBSET Clips, f \in Folders \cup {Nowhere}, mine \in BOOLEAN :
        SetFolder(e, scope, clips, f, mine)
  BY DEF SetVideoFolder, BatchSetFolder
<1> DEFINE job == [pc |-> "file", scope |-> scope, clips |-> clips, folder |-> f, mine |-> mine]
<1>2. job \in Edit
  BY DEF Edit
<1>3. edit' = [edit EXCEPT ![e] = job] /\ UNCHANGED <<clip, filed, folder, tag, labels>>
  BY <1>1 DEF SetFolder, BeginEdit
<1>4. job.pc = "file" /\ job.scope = scope /\ job.folder = f
  OBVIOUS
<1>5. f # Nowhere => Within(folder[f], scope)
  BY <1>1 DEF SetFolder, ListFolders
<1> HIDE DEF job
<1> QED
  BY <1>2, <1>3, <1>4, <1>5

\* A request goes on or ends, and the rows it writes keep their shape.
LEMMA GoOnTypes ==
  ASSUME LibraryTypeOK, MovesStored, NEW e \in Edits,
         \/ FileClips(e) \/ ClearLabels(e) \/ InsertLabel(e) \/ MoveClip(e) \/ StripLabels(e)
         \/ BreakEdit(e)
         \/ \E f \in Folders : InsertFolder(e, f)
         \/ \E t \in Tags : InsertTag(e, t)
  PROVE  LibraryTypeOK'
<1>0. NoEdit \in Edit
  BY NoEditIsEdit
<1>1. CASE FileClips(e)
  <2>1. edit[e].folder \in Folders \cup {Nowhere}
    BY <1>1, JobOf DEF FileClips
  <2>2. filed' \in [Clips -> Folders \cup {Nowhere}]
    BY <1>1, <2>1 DEF FileClips, LibraryTypeOK
  <2>3. edit' \in [Edits -> Edit]
    BY <1>0, <1>1, GivesEdit DEF FileClips, EndEdit
  <2> QED
    BY <1>1, <2>2, <2>3 DEF FileClips, LibraryTypeOK
<1>2. CASE ClearLabels(e)
  <2>1. PICK v \in Clips, job \in Edit :
          labels' = [labels EXCEPT ![v] = {}] /\ edit' = [edit EXCEPT ![e] = job]
    BY <1>2, ClearLabelsGives
  <2> QED
    BY <1>2, <2>1 DEF ClearLabels, LibraryTypeOK
<1>3. CASE InsertLabel(e)
  <2>1. PICK t \in edit[e].left, job \in Edit :
          /\ edit' = [edit EXCEPT ![e] = job]
          /\ \/ labels' = labels
             \/ labels' = [labels EXCEPT ![edit[e].clip] = labels[edit[e].clip] \cup {t}]
    BY <1>3, InsertLabelGives
  <2>2. t \in Tags /\ edit[e].clip \in Clips
    BY <1>3, JobOf DEF InsertLabel
  <2>3. labels' \in [Clips -> SUBSET Tags]
    BY <2>1, <2>2 DEF LibraryTypeOK
  <2>4. edit' \in [Edits -> Edit]
    BY <2>1, GivesEdit
  <2> QED
    BY <1>3, <2>3, <2>4 DEF InsertLabel, LibraryTypeOK
<1>4. CASE MoveClip(e)
  <2>1. /\ edit[e].clip \in Clips /\ edit[e].org \in Teams \cup {Nowhere}
    BY <1>4, JobOf DEF MoveClip
  <2> DEFINE v == edit[e].clip
  <2>2. [pc |-> "strip", clip |-> v] \in Edit
    BY <2>1 DEF Edit
  <2>3. edit' \in [Edits -> Edit]
    BY <1>4, <2>2, GivesEdit DEF MoveClip, GoOn
  <2>4. clip[v] \in Clip
    BY <1>4, <2>1 DEF LibraryTypeOK, MovesStored, MoveClip
  <2>5. [clip[v] EXCEPT !.org = edit[e].org] \in Clip
    BY <2>1, <2>4 DEF Clip
  <2>6. clip' = [clip EXCEPT ![v] = [clip[v] EXCEPT !.org = edit[e].org]]
    BY <1>4, <2>1 DEF MoveClip, LibraryTypeOK
  <2>7. clip' \in [Clips -> Clip \cup {Nowhere}] /\ filed' \in [Clips -> Folders \cup {Nowhere}]
    BY <1>4, <2>1, <2>5, <2>6 DEF MoveClip, LibraryTypeOK
  <2> QED
    BY <1>4, <2>3, <2>7 DEF MoveClip, LibraryTypeOK
<1>5. CASE StripLabels(e)
  <2>1. edit' \in [Edits -> Edit]
    BY <1>0, <1>5, GivesEdit DEF StripLabels, EndEdit
  <2> QED
    BY <1>5, <2>1 DEF StripLabels, LibraryTypeOK
<1>6. CASE BreakEdit(e)
  <2>1. edit' \in [Edits -> Edit]
    BY <1>0, <1>6, GivesEdit DEF BreakEdit, EndEdit
  <2> QED
    BY <1>6, <2>1 DEF BreakEdit, LibraryTypeOK
<1>7. ASSUME NEW f \in Folders, InsertFolder(e, f)
      PROVE  LibraryTypeOK'
  <2>1. edit' \in [Edits -> Edit]
    BY <1>0, <1>7, GivesEdit DEF InsertFolder, EndEdit
  <2>2. edit[e].scope \in Scope
    BY <1>7, JobOf DEF InsertFolder
  <2> QED
    BY <1>7, <2>1, <2>2 DEF InsertFolder, LibraryTypeOK
<1>8. ASSUME NEW t \in Tags, InsertTag(e, t)
      PROVE  LibraryTypeOK'
  <2>1. edit' \in [Edits -> Edit]
    BY <1>0, <1>8, GivesEdit DEF InsertTag, EndEdit
  <2>2. edit[e].scope \in Scope
    BY <1>8, JobOf DEF InsertTag
  <2> QED
    BY <1>8, <2>1, <2>2 DEF InsertTag, LibraryTypeOK
<1> QED
  BY <1>1, <1>2, <1>3, <1>4, <1>5, <1>6, <1>7, <1>8

\* A row of videos is written, or a folder or a tag is deleted.
LEMMA RowTypes ==
  ASSUME LibraryTypeOK,
         \/ \E v \in Clips : \/ \E scope \in Scope : AddClip(v, scope)
                             \/ \E status \in {"processing", "ready", "deleted"} : SetStatus(v, status)
         \/ \E scope \in Scope : \/ \E f \in Folders : DeleteFolder(scope, f)
                                 \/ \E t \in Tags : DeleteTag(scope, t)
  PROVE  LibraryTypeOK'
<1>1. ASSUME NEW v \in Clips, NEW scope \in Scope, AddClip(v, scope)
      PROVE  LibraryTypeOK'
  <2>1. [user |-> scope.user, org |-> scope.org, status |-> "processing"] \in Clip
    BY DEF Scope, Clip
  <2> QED
    BY <1>1, <2>1 DEF AddClip, LibraryTypeOK
<1>2. ASSUME NEW v \in Clips, NEW status \in {"processing", "ready", "deleted"},
             SetStatus(v, status)
      PROVE  LibraryTypeOK'
  <2>1. clip[v] \in Clip
    BY <1>2 DEF LibraryTypeOK, SetStatus, Kept
  <2>2. [clip[v] EXCEPT !.status = status] \in Clip
    BY <2>1 DEF Clip
  <2> QED
    BY <1>2, <2>2 DEF SetStatus, LibraryTypeOK
<1>3. ASSUME NEW scope \in Scope, NEW f \in Folders, DeleteFolder(scope, f)
      PROVE  LibraryTypeOK'
  BY <1>3 DEF DeleteFolder, LibraryTypeOK
<1>4. ASSUME NEW scope \in Scope, NEW t \in Tags, DeleteTag(scope, t)
      PROVE  LibraryTypeOK'
  BY <1>4 DEF DeleteTag, LibraryTypeOK
<1> QED
  BY <1>1, <1>2, <1>3, <1>4

LEMMA LibraryStepTypes ==
  ASSUME LibraryTypeOK, MovesStored, [LibraryNext]_libraryVars
  PROVE  LibraryTypeOK'
<1>1. ASSUME NEW e \in Edits, NEW job \in Edit, edit' = [edit EXCEPT ![e] = job],
             UNCHANGED <<clip, filed, folder, tag, labels>>
      PROVE  LibraryTypeOK'
  BY <1>1, GivesEdit DEF LibraryTypeOK
<1>2. ASSUME NEW e \in Edits, NEW scope \in Scope,
             \/ CreateFolder(e, scope) \/ CreateTag(e, scope)
             \/ \E v \in Clips, tags \in SUBSET Tags : SetVideoTags(e, scope, v, tags)
             \/ \E clips \in SUBSET Clips \ {{}}, tags \in SUBSET Tags :
                  BatchSetTags(e, scope, clips, tags)
             \/ \E v \in Clips, org \in Teams \cup {Nowhere} : Transfer(e, scope, v, org)
      PROVE  LibraryTypeOK'
  BY <1>1, <1>2, BeginGives
<1>3. ASSUME NEW e \in Edits, NEW scope \in Scope,
             \/ \E v \in Clips, f \in Folders \cup {Nowhere} : SetVideoFolder(e, scope, v, f)
             \/ \E clips \in SUBSET Clips \ {{}}, f \in Folders \cup {Nowhere} :
                  BatchSetFolder(e, scope, clips, f)
      PROVE  LibraryTypeOK'
  BY <1>1, <1>3, SetFolderGives
<1>4. CASE UNCHANGED libraryVars
  BY <1>4 DEF libraryVars, LibraryTypeOK
<1> QED
  BY <1>2, <1>3, <1>4, RowTypes, GoOnTypes DEF LibraryNext

\* A step keeps the rows of videos, and of videos that are filed their scope; and it gives
\* one request a job, those of kinds that need it with what they need.
LEMMA LibraryStepRows ==
  ASSUME LibraryTypeOK, MovesStored, [LibraryNext]_libraryVars
  PROVE  /\ \A v \in Clips : clip[v] # Nowhere => clip'[v] # Nowhere
         /\ \A e \in Edits : edit'[e].pc = "move" =>
              edit'[e] = edit[e] \/ clip[edit'[e].clip] # Nowhere
<1>1. ASSUME NEW e \in Edits, NEW job \in Edit, edit' = [edit EXCEPT ![e] = job],
             job.pc = "move" => clip[job.clip] # Nowhere
      PROVE  \A d \in Edits : edit'[d].pc = "move" =>
               edit'[d] = edit[d] \/ clip[edit'[d].clip] # Nowhere
  BY <1>1, GivesEdit
<1>2. ASSUME NEW v \in Clips, NEW scope \in Scope, AddClip(v, scope)
      PROVE  UNCHANGED edit /\ \A u \in Clips : clip[u] # Nowhere => clip'[u] # Nowhere
  BY <1>2 DEF AddClip, LibraryTypeOK
<1>3. ASSUME NEW v \in Clips, NEW status \in {"processing", "ready", "deleted"},
             SetStatus(v, status)
      PROVE  UNCHANGED edit /\ \A u \in Clips : clip[u] # Nowhere => clip'[u] # Nowhere
  <2>1. clip[v] \in Clip
    BY <1>3 DEF LibraryTypeOK, SetStatus, Kept
  <2>2. [clip[v] EXCEPT !.status = status] \in Clip
    BY <2>1 DEF Clip
  <2> QED
    BY <1>3, <2>2, NoSuchRow DEF SetStatus, LibraryTypeOK
<1>4. ASSUME NEW scope \in Scope,
             \/ \E f \in Folders : DeleteFolder(scope, f)
             \/ \E t \in Tags : DeleteTag(scope, t)
      PROVE  UNCHANGED <<clip, edit>>
  BY <1>4 DEF DeleteFolder, DeleteTag
<1>5. ASSUME NEW e \in Edits, NEW scope \in Scope,
             \/ CreateFolder(e, scope) \/ CreateTag(e, scope)
             \/ \E v \in Clips, tags \in SUBSET Tags : SetVideoTags(e, scope, v, tags)
             \/ \E clips \in SUBSET Clips \ {{}}, tags \in SUBSET Tags :
                  BatchSetTags(e, scope, clips, tags)
             \/ \E v \in Clips, org \in Teams \cup {Nowhere} : Transfer(e, scope, v, org)
      PROVE  /\ UNCHANGED clip
             /\ \E job \in Edit : /\ edit' = [edit EXCEPT ![e] = job]
                                  /\ job.pc = "move" => clip[job.clip] # Nowhere
  BY <1>5, BeginGives
<1>6. ASSUME NEW e \in Edits, NEW scope \in Scope,
             \/ \E v \in Clips, f \in Folders \cup {Nowhere} : SetVideoFolder(e, scope, v, f)
             \/ \E clips \in SUBSET Clips \ {{}}, f \in Folders \cup {Nowhere} :
                  BatchSetFolder(e, scope, clips, f)
      PROVE  /\ UNCHANGED clip
             /\ \E job \in Edit : edit' = [edit EXCEPT ![e] = job] /\ job.pc # "move"
  BY <1>6, SetFolderGives
<1>7. ASSUME NEW e \in Edits,
             \/ FileClips(e) \/ StripLabels(e) \/ BreakEdit(e)
             \/ \E f \in Folders : InsertFolder(e, f)
             \/ \E t \in Tags : InsertTag(e, t)
      PROVE  /\ UNCHANGED clip
             /\ \E job \in Edit : edit' = [edit EXCEPT ![e] = job] /\ job.pc # "move"
  <2>1. NoEdit \in Edit /\ NoEdit.pc # "move"
    BY NoEditIsEdit DEF NoEdit
  <2>2. UNCHANGED clip /\ edit' = [edit EXCEPT ![e] = NoEdit]
    BY <1>7 DEF FileClips, StripLabels, BreakEdit, InsertFolder, InsertTag, EndEdit
  <2> QED
    BY <2>1, <2>2
<1>8. ASSUME NEW e \in Edits, ClearLabels(e) \/ InsertLabel(e)
      PROVE  /\ UNCHANGED clip
             /\ \E job \in Edit : edit' = [edit EXCEPT ![e] = job] /\ job.pc # "move"
  <2>1. NoEdit.pc # "move"
    BY DEF NoEdit
  <2>2. CASE ClearLabels(e)
    <3>1. PICK v \in Clips, job \in Edit :
            /\ edit' = [edit EXCEPT ![e] = job]
            /\ \/ job = NoEdit
               \/ job = [pc |-> "clear", clips |-> edit[e].clips \ {v}, tags |-> edit[e].tags]
               \/ job = [pc |-> "label", clip |-> v, left |-> edit[e].tags,
                         clips |-> edit[e].clips \ {v}, tags |-> edit[e].tags]
      BY <2>2, ClearLabelsGives
    <3>2. job.pc # "move"
      BY <2>1, <3>1
    <3> QED
      BY <2>2, <3>1, <3>2 DEF ClearLabels
  <2>3. CASE InsertLabel(e)
    <3>1. PICK t \in edit[e].left, job \in Edit :
            /\ edit' = [edit EXCEPT ![e] = job]
            /\ \/ job = NoEdit
               \/ job = [pc |-> "clear", clips |-> edit[e].clips, tags |-> edit[e].tags]
               \/ job = [pc |-> "label", clip |-> edit[e].clip, left |-> edit[e].left \ {t},
                         clips |-> edit[e].clips, tags |-> edit[e].tags]
      BY <2>3, InsertLabelGives
    <3>2. job.pc # "move"
      BY <2>1, <3>1
    <3> QED
      BY <2>3, <3>1, <3>2 DEF InsertLabel
  <2> QED
    BY <1>8, <2>2, <2>3
<1>9. ASSUME NEW e \in Edits, MoveClip(e)
      PROVE  /\ \A u \in Clips : clip[u] # Nowhere => clip'[u] # Nowhere
             /\ \E job \in Edit : edit' = [edit EXCEPT ![e] = job] /\ job.pc # "move"
  <2> DEFINE v == edit[e].clip
  <2>1. v \in Clips /\ edit[e].org \in Teams \cup {Nowhere} /\ edit[e].pc = "move"
    BY <1>9, JobOf DEF MoveClip
  <2>2. clip[v] \in Clip
    BY <2>1 DEF MovesStored, LibraryTypeOK
  <2>3. [clip[v] EXCEPT !.org = edit[e].org] \in Clip
    BY <2>1, <2>2 DEF Clip
  <2>4. \A u \in Clips : clip[u] # Nowhere => clip'[u] # Nowhere
    BY <1>9, <2>1, <2>3, NoSuchRow DEF MoveClip, LibraryTypeOK
  <2>5. [pc |-> "strip", clip |-> v] \in Edit
    BY <2>1 DEF Edit
  <2> QED
    BY <1>9, <2>4, <2>5 DEF MoveClip, GoOn
<1>10. CASE UNCHANGED libraryVars
  BY <1>10 DEF libraryVars
<1> QED
  BY <1>1, <1>2, <1>3, <1>4, <1>5, <1>6, <1>7, <1>8, <1>9, <1>10 DEF LibraryNext

LEMMA MovesStay ==
  ASSUME LibraryTypeOK, MovesStored, [LibraryNext]_libraryVars
  PROVE  LibraryTypeOK' /\ MovesStored'
<1>1. LibraryTypeOK'
  BY LibraryStepTypes
<1>2. ASSUME NEW e \in Edits, edit'[e].pc = "move"
      PROVE  clip'[edit'[e].clip] # Nowhere
  <2>1. edit'[e].clip \in Clips
    BY <1>1, <1>2 DEF LibraryTypeOK, Edit
  <2> QED
    BY <1>2, <2>1, LibraryStepRows DEF MovesStored
<1> QED
  BY <1>1, <1>2 DEF MovesStored

\* Folders, tags, what is filed under them and every request keep their types (folder.go,
\* tag.go, transfer.go, batch.go).  The move of a video relies on its row being there.
THEOREM LibraryTyped == LibrarySpec => []LibraryTypeOK
<1>1. LibraryInit => LibraryTypeOK /\ MovesStored
  BY LibraryInitTypes DEF LibraryInit, MovesStored, NoEdit
<1>2. LibraryTypeOK /\ MovesStored /\ [LibraryNext]_libraryVars => LibraryTypeOK' /\ MovesStored'
  BY MovesStay
<1> QED
  BY <1>1, <1>2, PTL DEF LibrarySpec

\* Folders.  A video can be opened by its creator from the folder of a row r.
InReach(place, r) ==
  r # Nowhere /\ (place.user = r.user \/ (place.org # Nowhere /\ place.org = r.org))

Unborn == \A v \in Clips : clip[v] = Nowhere => filed[v] = Nowhere

\* The folder a request has verified is one of its scope, or is gone by now.
FilesVerified ==
  \A e \in Edits : (edit[e].pc = "file" /\ edit[e].folder # Nowhere) =>
    (folder[edit[e].folder] = Nowhere \/ Within(folder[edit[e].folder], edit[e].scope))

FiledInReach ==
  \A v \in Clips : filed[v] # Nowhere => InReach(clip[v], folder[filed[v]])

FolderInv == LibraryTypeOK /\ MovesStored /\ Unborn /\ FilesVerified /\ FiledInReach

LEMMA ReachIs == LibraryTypeOK /\ FiledInReach => FolderInReach
<1> SUFFICES ASSUME LibraryTypeOK, FiledInReach, NEW v \in Clips, filed[v] # Nowhere
             PROVE  filed[v] \in ListFolders([user |-> clip[v].user, org |-> clip[v].org])
                                   \cup ListFolders([user |-> clip[v].user, org |-> Nowhere])
  BY DEF FolderInReach
<1>1. filed[v] \in Folders /\ InReach(clip[v], folder[filed[v]])
  BY DEF LibraryTypeOK, FiledInReach
<1>2. folder[filed[v]] # Nowhere
  BY <1>1 DEF InReach
<1>3. CASE clip[v].user = folder[filed[v]].user
  BY <1>1, <1>2, <1>3 DEF ListFolders, Within
<1>4. CASE clip[v].org # Nowhere /\ clip[v].org = folder[filed[v]].org
  BY <1>1, <1>2, <1>4 DEF ListFolders, Within
<1> QED
  BY <1>1, <1>3, <1>4 DEF InReach

\* A step that neither files a video nor touches a folder.
LEMMA FolderQuiet ==
  ASSUME FolderInv, LibraryTypeOK', MovesStored', UNCHANGED <<filed, folder>>,
         \A v \in Clips : clip[v] = Nowhere
                            \/ (clip'[v] # Nowhere /\ clip'[v].user = clip[v].user
                                                   /\ clip'[v].org = clip[v].org),
         \A e \in Edits : edit'[e].pc = "file" =>
            \/ edit'[e] = edit[e]
            \/ edit'[e].folder # Nowhere => Within(folder[edit'[e].folder], edit'[e].scope)
  PROVE  FolderInv'
<1>1. Unborn'
  BY DEF FolderInv, Unborn
<1>2. FilesVerified'
  BY DEF FolderInv, FilesVerified, Within
<1>3. ASSUME NEW v \in Clips, filed'[v] # Nowhere
      PROVE  InReach(clip'[v], folder'[filed'[v]])
  BY <1>3 DEF FolderInv, Unborn, FiledInReach, InReach
<1> QED
  BY <1>1, <1>2, <1>3 DEF FolderInv, FiledInReach, InReach

\* A video's row is made, or its status changes.
LEMMA ClipKeepsFolders ==
  ASSUME FolderInv, LibraryTypeOK', MovesStored', NEW v \in Clips,
         \/ \E scope \in Scope : AddClip(v, scope)
         \/ \E status \in {"processing", "ready", "deleted"} : SetStatus(v, status)
  PROVE  FolderInv'
<1>1. CASE \E scope \in Scope : AddClip(v, scope)
  <2>1. clip[v] = Nowhere /\ \A u \in Clips \ {v} : clip'[u] = clip[u]
    BY <1>1 DEF AddClip, FolderInv, LibraryTypeOK
  <2>2. UNCHANGED <<filed, folder, edit>>
    BY <1>1 DEF AddClip
  <2> QED
    BY <2>1, <2>2, FolderQuiet
<1>2. ASSUME NEW status \in {"processing", "ready", "deleted"}, SetStatus(v, status)
      PROVE  FolderInv'
  <2>1. clip[v] \in Clip /\ UNCHANGED <<filed, folder, edit>>
    BY <1>2 DEF SetStatus, Kept, FolderInv, LibraryTypeOK
  <2>2. /\ clip'[v] = [clip[v] EXCEPT !.status = status]
        /\ \A u \in Clips \ {v} : clip'[u] = clip[u]
    BY <1>2 DEF SetStatus, FolderInv, LibraryTypeOK
  <2>3. clip'[v] \in Clip /\ clip'[v].user = clip[v].user /\ clip'[v].org = clip[v].org
    BY <2>1, <2>2 DEF Clip
  <2>4. clip'[v] # Nowhere
    BY <2>3, NoSuchRow
  <2> QED
    BY <2>1, <2>2, <2>3, <2>4, FolderQuiet
<1> QED
  BY <1>1, <1>2

LEMMA DeleteFolderKeeps ==
  ASSUME FolderInv, LibraryTypeOK', MovesStored', NEW scope \in Scope, NEW f \in Folders,
         DeleteFolder(scope, f)
  PROVE  FolderInv'
<1>1. /\ UNCHANGED <<clip, edit>>
      /\ \A v \in Clips : filed'[v] = IF filed[v] = f THEN Nowhere ELSE filed[v]
      /\ \A g \in Folders : folder'[g] = IF g = f THEN Nowhere ELSE folder[g]
  BY DEF DeleteFolder, FolderInv, LibraryTypeOK
<1>2. Unborn'
  BY <1>1 DEF FolderInv, Unborn
<1>3. ASSUME NEW e \in Edits, edit'[e].pc = "file", edit'[e].folder # Nowhere
      PROVE  folder'[edit'[e].folder] = Nowhere \/ Within(folder'[edit'[e].folder], edit'[e].scope)
  <2>1. edit[e].folder \in Folders
    BY <1>1, <1>3, JobOf DEF FolderInv
  <2> QED
    BY <1>1, <1>3, <2>1 DEF FolderInv, FilesVerified
<1>4. ASSUME NEW v \in Clips, filed'[v] # Nowhere
      PROVE  InReach(clip'[v], folder'[filed'[v]])
  BY <1>1, <1>4 DEF FolderInv, LibraryTypeOK, FiledInReach
<1> QED
  BY <1>2, <1>3, <1>4 DEF FolderInv, FilesVerified, FiledInReach, Within, InReach

\* The identifier of a new folder is named by no request and no video.
LEMMA InsertFolderKeeps ==
  ASSUME FolderInv, LibraryTypeOK', MovesStored', NEW e \in Edits, NEW f \in Folders,
         InsertFolder(e, f)
  PROVE  FolderInv'
<1>1. /\ UNCHANGED <<clip, filed>> /\ folder[f] = Nowhere
      /\ \A d \in Edits : edit[d].pc = "file" => edit[d].folder # f
      /\ \A g \in Folders : g # f => folder'[g] = folder[g]
      /\ \A d \in Edits : edit'[d] = edit[d] \/ edit'[d] = NoEdit
  BY DEF InsertFolder, NewFolder, EndEdit, FolderInv, LibraryTypeOK
<1>2. Unborn'
  BY <1>1 DEF FolderInv, Unborn
<1>3. ASSUME NEW d \in Edits, edit'[d].pc = "file", edit'[d].folder # Nowhere
      PROVE  folder'[edit'[d].folder] = Nowhere \/ Within(folder'[edit'[d].folder], edit'[d].scope)
  <2>1. edit'[d] = edit[d]
    BY <1>1, <1>3 DEF NoEdit
  <2>2. edit[d].folder \in Folders \ {f}
    BY <1>1, <1>3, <2>1, JobOf DEF FolderInv
  <2> QED
    BY <1>1, <1>3, <2>1, <2>2 DEF FolderInv, FilesVerified
<1>4. ASSUME NEW v \in Clips, filed'[v] # Nowhere
      PROVE  InReach(clip'[v], folder'[filed'[v]])
  <2>1. filed[v] \in Folders /\ InReach(clip[v], folder[filed[v]])
    BY <1>1, <1>4 DEF FolderInv, LibraryTypeOK, FiledInReach
  <2>2. filed[v] # f
    BY <1>1, <2>1 DEF InReach
  <2> QED
    BY <1>1, <2>1, <2>2
<1> QED
  BY <1>2, <1>3, <1>4 DEF FolderInv, FilesVerified, FiledInReach, Within, InReach

\* The update files only videos of the scope that the folder was verified in.
LEMMA FileClipsKeeps ==
  ASSUME FolderInv, LibraryTypeOK', MovesStored', NEW e \in Edits, FileClips(e)
  PROVE  FolderInv'
<1> DEFINE j == edit[e]
           reached == {v \in j.clips : Kept(v) /\ Within(clip[v], j.scope)
                                         /\ (j.mine => clip[v].user = j.scope.user)}
<1>1. /\ j.pc = "file" /\ UNCHANGED <<clip, folder>>
      /\ \A d \in Edits : edit'[d] = edit[d] \/ edit'[d] = NoEdit
      /\ \A v \in Clips : filed'[v] # filed[v] =>
           /\ v \in reached /\ filed'[v] = j.folder
           /\ j.folder = Nowhere \/ folder[j.folder] # Nowhere
  BY DEF FileClips, EndEdit, FolderInv, LibraryTypeOK
<1>2. Unborn'
  BY <1>1 DEF FolderInv, Unborn, Kept
<1>3. FilesVerified'
  BY <1>1 DEF FolderInv, FilesVerified, NoEdit, Within
<1>4. ASSUME NEW v \in Clips, filed'[v] # Nowhere
      PROVE  InReach(clip'[v], folder'[filed'[v]])
  <2>1. CASE filed'[v] = filed[v]
    BY <1>1, <1>4, <2>1 DEF FolderInv, FiledInReach
  <2>2. CASE filed'[v] # filed[v]
    <3>1. v \in reached /\ filed'[v] = j.folder /\ folder[j.folder] # Nowhere
      BY <1>1, <1>4, <2>2
    <3>2. Within(clip[v], j.scope)
      BY <3>1
    <3>3. Within(folder[j.folder], j.scope)
      BY <1>1, <1>4, <3>1 DEF FolderInv, FilesVerified
    <3>4. InReach(clip[v], folder[j.folder])
      BY <3>2, <3>3 DEF Within, InReach
    <3> QED
      BY <1>1, <3>1, <3>4
  <2> QED
    BY <2>1, <2>2
<1> QED
  BY <1>2, <1>3, <1>4 DEF FolderInv, FiledInReach, InReach

\* A video that moves lets go of its folder in the same statement.
LEMMA MoveClipKeeps ==
  ASSUME FolderInv, LibraryTypeOK', MovesStored', NEW e \in Edits, MoveClip(e)
  PROVE  FolderInv'
<1> DEFINE v == edit[e].clip
<1>1. v \in Clips
  BY JobOf DEF MoveClip, FolderInv
<1>2. /\ UNCHANGED folder
      /\ filed'[v] = Nowhere
      /\ \A u \in Clips \ {v} : clip'[u] = clip[u] /\ filed'[u] = filed[u]
  BY <1>1 DEF MoveClip, FolderInv, LibraryTypeOK
<1>3. \A d \in Edits : edit'[d] = edit[d] \/ edit'[d].pc = "strip"
  BY DEF MoveClip, GoOn, FolderInv, LibraryTypeOK
<1>4. Unborn'
  BY <1>2 DEF FolderInv, Unborn
<1>5. FilesVerified'
  BY <1>2, <1>3 DEF FolderInv, FilesVerified, Within
<1>6. ASSUME NEW u \in Clips, filed'[u] # Nowhere
      PROVE  InReach(clip'[u], folder'[filed'[u]])
  BY <1>2, <1>6 DEF FolderInv, FiledInReach
<1> QED
  BY <1>4, <1>5, <1>6 DEF FolderInv, FiledInReach, InReach

LEMMA FolderStep ==
  ASSUME FolderInv, [LibraryNext]_libraryVars
  PROVE  FolderInv'
<1>0. LibraryTypeOK' /\ MovesStored' /\ LibraryTypeOK
  BY MovesStay DEF FolderInv
<1>1. ASSUME NEW e \in Edits, NEW job \in Edit, edit' = [edit EXCEPT ![e] = job],
             UNCHANGED <<clip, filed, folder>>,
             job.pc = "file" => (job.folder # Nowhere => Within(folder[job.folder], job.scope))
      PROVE  FolderInv'
  <2>1. \A d \in Edits : edit'[d] = IF d = e THEN job ELSE edit[d]
    BY <1>0, <1>1, GivesEdit
  <2>2. \A d \in Edits : edit'[d].pc = "file" =>
          \/ edit'[d] = edit[d]
          \/ edit'[d].folder # Nowhere => Within(folder[edit'[d].folder], edit'[d].scope)
    BY <1>1, <2>1
  <2>3. \A v \in Clips : clip[v] = Nowhere
                            \/ (clip'[v] # Nowhere /\ clip'[v].user = clip[v].user
                                                   /\ clip'[v].org = clip[v].org)
    BY <1>1
  <2> QED
    BY <1>0, <1>1, <2>2, <2>3, FolderQuiet
<1>2. ASSUME NEW e \in Edits, NEW scope \in Scope,
             \/ CreateFolder(e, scope) \/ CreateTag(e, scope)
             \/ \E v \in Clips, tags \in SUBSET Tags : SetVideoTags(e, scope, v, tags)
             \/ \E clips \in SUBSET Clips \ {{}}, tags \in SUBSET Tags :
                  BatchSetTags(e, scope, clips, tags)
             \/ \E v \in Clips, org \in Teams \cup {Nowhere} : Transfer(e, scope, v, org)
      PROVE  FolderInv'
  <2>1. PICK job \in Edit : /\ edit' = [edit EXCEPT ![e] = job]
                            /\ job.pc \in {"addFolder", "addTag", "clear", "move"}
    BY <1>0, <1>2, BeginGives
  <2>2. UNCHANGED <<clip, filed, folder>>
    BY <1>0, <1>2, BeginGives
  <2> QED
    BY <1>1, <2>1, <2>2
<1>3. ASSUME NEW e \in Edits, NEW scope \in Scope,
             \/ \E v \in Clips, f \in Folders \cup {Nowhere} : SetVideoFolder(e, scope, v, f)
             \/ \E clips \in SUBSET Clips \ {{}}, f \in Folders \cup {Nowhere} :
                  BatchSetFolder(e, scope, clips, f)
      PROVE  FolderInv'
  <2>1. PICK job \in Edit : /\ edit' = [edit EXCEPT ![e] = job]
                            /\ job.pc = "file" /\ job.scope = scope
                            /\ job.folder # Nowhere => Within(folder[job.folder], scope)
    BY <1>0, <1>3, SetFolderGives
  <2>2. UNCHANGED <<clip, filed, folder>>
    BY <1>0, <1>3, SetFolderGives
  <2> QED
    BY <1>1, <2>1, <2>2
<1>4. ASSUME NEW e \in Edits, StripLabels(e) \/ BreakEdit(e) \/ \E t \in Tags : InsertTag(e, t)
      PROVE  FolderInv'
  <2>1. edit' = [edit EXCEPT ![e] = NoEdit] /\ UNCHANGED <<clip, filed, folder>>
    BY <1>4 DEF StripLabels, BreakEdit, InsertTag, EndEdit
  <2>2. NoEdit \in Edit /\ NoEdit.pc # "file"
    BY NoEditIsEdit DEF NoEdit
  <2> QED
    BY <1>1, <2>1, <2>2
<1>5. ASSUME NEW e \in Edits, ClearLabels(e)
      PROVE  FolderInv'
  <2>1. PICK v \in Clips, job \in Edit :
          /\ edit' = [edit EXCEPT ![e] = job]
          /\ \/ job = NoEdit
             \/ job = [pc |-> "clear", clips |-> edit[e].clips \ {v}, tags |-> edit[e].tags]
             \/ job = [pc |-> "label", clip |-> v, left |-> edit[e].tags,
                       clips |-> edit[e].clips \ {v}, tags |-> edit[e].tags]
    BY <1>0, <1>5, ClearLabelsGives
  <2>2. job.pc # "file"
    BY <2>1 DEF NoEdit
  <2>3. UNCHANGED <<clip, filed, folder>>
    BY <1>5 DEF ClearLabels
  <2> QED
    BY <1>1, <2>1, <2>2, <2>3
<1>6. ASSUME NEW e \in Edits, InsertLabel(e)
      PROVE  FolderInv'
  <2>1. PICK t \in edit[e].left, job \in Edit :
          /\ edit' = [edit EXCEPT ![e] = job]
          /\ \/ job = NoEdit
             \/ job = [pc |-> "clear", clips |-> edit[e].clips, tags |-> edit[e].tags]
             \/ job = [pc |-> "label", clip |-> edit[e].clip, left |-> edit[e].left \ {t},
                       clips |-> edit[e].clips, tags |-> edit[e].tags]
    BY <1>0, <1>6, InsertLabelGives
  <2>2. job.pc # "file"
    BY <2>1 DEF NoEdit
  <2>3. UNCHANGED <<clip, filed, folder>>
    BY <1>6 DEF InsertLabel
  <2> QED
    BY <1>1, <2>1, <2>2, <2>3
<1>7. ASSUME UNCHANGED <<clip, filed, folder, edit>> PROVE FolderInv'
  BY <1>0, <1>7, FolderQuiet
<1>8. ASSUME NEW scope \in Scope, NEW t \in Tags, DeleteTag(scope, t) PROVE FolderInv'
  BY <1>7, <1>8 DEF DeleteTag
<1>9. CASE UNCHANGED libraryVars
  BY <1>7, <1>9 DEF libraryVars
<1> QED
  BY <1>0, <1>2, <1>3, <1>4, <1>5, <1>6, <1>8, <1>9, ClipKeepsFolders, DeleteFolderKeeps,
     InsertFolderKeeps, FileClipsKeeps, MoveClipKeeps DEF LibraryNext

\* A video is in a folder of its workspace or of its creator, for any requests and moves
\* in between (SetVideoFolder and BatchSetFolder verify before they write; Transfer
\* clears the folder).
THEOREM FoldersStayInReach == LibrarySpec => []FolderInReach
<1>1. LibraryInit => FolderInv
  BY LibraryInitTypes
  DEF LibraryInit, FolderInv, MovesStored, Unborn, FilesVerified, FiledInReach, NoEdit
<1>2. FolderInv /\ [LibraryNext]_libraryVars => FolderInv'
  BY FolderStep
<1>3. FolderInv => FolderInReach
  BY ReachIs DEF FolderInv
<1> QED
  BY <1>1, <1>2, <1>3, PTL DEF LibrarySpec

\* Tags.  A request never has more to insert than it was allowed; what all of them have
\* still to insert for a video is numbered by the request and a place in its set.
Pending(jobs, v) == {i \in Edits \X Tags :
  jobs[i[1]].pc = "label" /\ jobs[i[1]].clip = v /\ i[2] \in jobs[i[1]].left}

FullSets(jobs) ==
  \A e \in Edits :
    /\ jobs[e].pc \in {"clear", "label"} =>
         jobs[e].tags \subseteq Tags /\ Cardinality(jobs[e].tags) <= MaxTagsPerClip
    /\ jobs[e].pc = "label" => jobs[e].left \subseteq jobs[e].tags

AllTags == MaxTagsPerClip * Cardinality(Edits)

LabelsInv == LibraryTypeOK /\ MovesStored /\ FullSets(edit) /\ LabelsBounded

\* Every set with at most n members can be numbered from 1 to n.
LEMMA Numbered ==
  ASSUME NEW S, IsFiniteSet(S), NEW n \in Nat, Cardinality(S) <= n
  PROVE  \E f \in [S -> 1..n] : \A x, y \in S : f[x] = f[y] => x = y
<1>1. PICK m \in Nat : ExistsBijection(1..m, S)
  BY FS_NatBijection
<1>2. PICK g \in Bijection(1..m, S) : TRUE
  BY <1>1 DEF ExistsBijection
<1>3. m = Cardinality(S)
  BY <1>1, FS_CountingElements
<1>4. g \in [1..m -> S] /\ \A x \in S : \E k \in 1..m : g[k] = x
  BY <1>2 DEF Bijection, Injection, Surjection
<1> DEFINE f == [x \in S |-> CHOOSE k \in 1..m : g[k] = x]
<1>5. \A x \in S : f[x] \in 1..m /\ g[f[x]] = x
  BY <1>4
<1>6. 1..m \subseteq 1..n
  BY <1>3
<1>7. f \in [S -> 1..n]
  BY <1>5, <1>6
<1> HIDE DEF f
<1>8. \A x, y \in S : f[x] = f[y] => x = y
  BY <1>5
<1> QED
  BY <1>7, <1>8

LEMMA PendingFinite ==
  ASSUME NEW jobs, NEW v
  PROVE  IsFiniteSet(Pending(jobs, v)) /\ Cardinality(Pending(jobs, v)) \in Nat
<1>1. IsFiniteSet(Edits \X Tags)
  BY FS_Product, LibraryAssumption
<1>2. Pending(jobs, v) \subseteq Edits \X Tags
  BY DEF Pending
<1> QED
  BY <1>1, <1>2, FS_Subset, FS_CardinalityType

LEMMA PendingBounded ==
  ASSUME NEW jobs, FullSets(jobs), NEW v
  PROVE  Cardinality(Pending(jobs, v)) <= AllTags
<1> DEFINE P == Pending(jobs, v)
           places == 1..MaxTagsPerClip
           Numbering(e) == {f \in [jobs[e].tags -> places] :
                              \A x, y \in jobs[e].tags : f[x] = f[y] => x = y}
           number == [e \in Edits |-> CHOOSE f \in Numbering(e) : TRUE]
           h == [i \in P |-> <<i[1], number[i[1]][i[2]]>>]
<1>1. ASSUME NEW e \in Edits, jobs[e].pc = "label"
      PROVE  number[e] \in Numbering(e)
  <2>1. jobs[e].tags \subseteq Tags /\ Cardinality(jobs[e].tags) <= MaxTagsPerClip
    BY <1>1 DEF FullSets
  <2>2. IsFiniteSet(jobs[e].tags)
    BY <2>1, FS_Subset, LibraryAssumption
  <2>3. \E f \in Numbering(e) : TRUE
    BY <2>1, <2>2, Numbered, LibraryAssumption
  <2> QED
    BY <2>3
<1>2. ASSUME NEW i \in P
      PROVE  /\ i[1] \in Edits /\ jobs[i[1]].pc = "label" /\ i[2] \in jobs[i[1]].tags
             /\ i = <<i[1], i[2]>>
  BY DEF Pending, FullSets
<1>3. h \in [P -> Edits \X places]
  BY <1>1, <1>2
<1>4. ASSUME NEW i \in P, NEW j \in P, h[i] = h[j]
      PROVE  i = j
  <2> HIDE DEF number, P
  <2>0. /\ h[i] = <<i[1], number[i[1]][i[2]]>>
        /\ h[j] = <<j[1], number[j[1]][j[2]]>>
    OBVIOUS
  <2>1. i[1] = j[1] /\ number[i[1]][i[2]] = number[j[1]][j[2]]
    <3>1. /\ h[i][1] = i[1] /\ h[i][2] = number[i[1]][i[2]]
          /\ h[j][1] = j[1] /\ h[j][2] = number[j[1]][j[2]]
      BY <2>0
    <3> HIDE DEF h
    <3> QED
      BY <1>4, <3>1
  <2>2. i[2] = j[2]
    BY <1>1, <1>2, <2>1
  <2> QED
    BY <1>2, <2>1, <2>2
<1>5. h \in Injection(P, Edits \X places)
  BY <1>3, <1>4 DEF Injection, IsInjective
<1>6. IsFiniteSet(places) /\ Cardinality(places) = MaxTagsPerClip
  BY FS_Interval, LibraryAssumption
<1>7. /\ IsFiniteSet(Edits \X places)
      /\ Cardinality(Edits \X places) = Cardinality(Edits) * MaxTagsPerClip
  BY <1>6, FS_Product, LibraryAssumption
<1> HIDE DEF P, places, h
<1>8. Cardinality(P) <= Cardinality(Edits \X places)
  BY <1>5, <1>7, FS_Injection
<1>9. Cardinality(Edits) \in Nat /\ MaxTagsPerClip \in Nat
  BY FS_CardinalityType, LibraryAssumption
<1>10. Cardinality(Edits) * MaxTagsPerClip = AllTags
  BY <1>9 DEF AllTags
<1> QED
  BY <1>7, <1>8, <1>10 DEF P

LEMMA LabelsFinite ==
  ASSUME LibraryTypeOK, NEW v \in Clips
  PROVE  IsFiniteSet(labels[v]) /\ Cardinality(labels[v]) \in Nat
<1>1. labels[v] \subseteq Tags
  BY DEF LibraryTypeOK
<1> QED
  BY <1>1, FS_Subset, FS_CardinalityType, LibraryAssumption

\* A video that gets no tag, and for which no request begins to insert.
LEMMA FewerLabels ==
  ASSUME LibraryTypeOK, NEW v \in Clips, NEW later,
         Cardinality(labels[v]) + Cardinality(Pending(edit, v)) <= AllTags,
         NEW jobs, Pending(jobs, v) \subseteq Pending(edit, v), later \subseteq labels[v]
  PROVE  Cardinality(later) + Cardinality(Pending(jobs, v)) <= AllTags
<1>1. IsFiniteSet(later) /\ Cardinality(later) <= Cardinality(labels[v])
  BY LabelsFinite, FS_Subset
<1>2. Cardinality(Pending(jobs, v)) <= Cardinality(Pending(edit, v))
  BY PendingFinite, FS_Subset
<1>3. /\ Cardinality(later) \in Nat /\ Cardinality(labels[v]) \in Nat
      /\ Cardinality(Pending(jobs, v)) \in Nat /\ Cardinality(Pending(edit, v)) \in Nat
  BY <1>1, LabelsFinite, PendingFinite, FS_CardinalityType
<1>4. AllTags \in Nat
  BY FS_CardinalityType, LibraryAssumption DEF AllTags
<1> QED
  BY <1>1, <1>2, <1>3, <1>4

LEMMA BoundIs ==
  LabelsBounded <=>
    \A v \in Clips : Cardinality(labels[v]) + Cardinality(Pending(edit, v)) <= AllTags
  BY DEF LabelsBounded, Still, Pending, AllTags

LEMMA BoundIsLater ==
  LabelsBounded' <=>
    \A v \in Clips : Cardinality(labels'[v]) + Cardinality(Pending(edit', v)) <= AllTags
  BY DEF LabelsBounded, Still, Pending, AllTags

\* A step of one request that inserts no tag and does not begin to.
LEMMA LabelQuiet ==
  ASSUME LabelsInv, LibraryTypeOK', MovesStored',
         \A v \in Clips : labels'[v] \subseteq labels[v],
         \A e \in Edits : \/ edit'[e] = edit[e]
                          \/ /\ edit'[e].pc # "label"
                             /\ edit'[e].pc = "clear" => /\ edit'[e].tags \subseteq Tags
                                                         /\ Cardinality(edit'[e].tags) <= MaxTagsPerClip
  PROVE  LabelsInv'
<1>1. FullSets(edit')
  BY DEF LabelsInv, FullSets
<1>2. ASSUME NEW v \in Clips
      PROVE  Cardinality(labels'[v]) + Cardinality(Pending(edit', v)) <= AllTags
  <2>1. Pending(edit', v) \subseteq Pending(edit, v)
    BY DEF Pending
  <2>2. Cardinality(labels[v]) + Cardinality(Pending(edit, v)) <= AllTags
    BY BoundIs DEF LabelsInv
  <2>3. labels'[v] \subseteq labels[v]
    OBVIOUS
  <2> QED
    BY <2>1, <2>2, <2>3, FewerLabels DEF LabelsInv
<1>3. LabelsBounded'
  BY <1>2, BoundIsLater
<1> QED
  BY <1>1, <1>3 DEF LabelsInv, FullSets

LEMMA ClearKeepsBound ==
  ASSUME LabelsInv, LibraryTypeOK', MovesStored', NEW e \in Edits, ClearLabels(e)
  PROVE  LabelsInv'
<1>0. LibraryTypeOK
  BY DEF LabelsInv
<1>1. PICK v \in Clips, job \in Edit :
        /\ labels' = [labels EXCEPT ![v] = {}]
        /\ edit' = [edit EXCEPT ![e] = job]
        /\ \/ job = NoEdit
           \/ job = [pc |-> "clear", clips |-> edit[e].clips \ {v}, tags |-> edit[e].tags]
           \/ job = [pc |-> "label", clip |-> v, left |-> edit[e].tags,
                     clips |-> edit[e].clips \ {v}, tags |-> edit[e].tags]
  BY <1>0, ClearLabelsGives
<1>2. \A d \in Edits : edit'[d] = IF d = e THEN job ELSE edit[d]
  BY <1>0, <1>1, GivesEdit
<1>3. edit[e].tags \subseteq Tags /\ Cardinality(edit[e].tags) <= MaxTagsPerClip
  BY DEF LabelsInv, FullSets, ClearLabels
<1>4. /\ job.pc \in {"clear", "label"} => job.tags = edit[e].tags
      /\ job.pc = "label" => job.left = edit[e].tags /\ job.clip = v
  BY <1>1 DEF NoEdit
<1>5. FullSets(edit')
  BY <1>2, <1>3, <1>4 DEF LabelsInv, FullSets
<1>6. ASSUME NEW u \in Clips
      PROVE  Cardinality(labels'[u]) + Cardinality(Pending(edit', u)) <= AllTags
  <2>1. CASE u = v
    <3>1. Cardinality(labels'[u]) = 0
      BY <1>0, <1>1, <2>1, FS_EmptySet DEF LibraryTypeOK
    <3>2. Cardinality(Pending(edit', u)) <= AllTags /\ Cardinality(Pending(edit', u)) \in Nat
      BY <1>5, PendingBounded, PendingFinite
    <3> QED
      BY <3>1, <3>2
  <2>2. CASE u # v
    <3>1. labels'[u] = labels[u]
      BY <1>0, <1>1, <2>2 DEF LibraryTypeOK
    <3>2. Pending(edit', u) \subseteq Pending(edit, u)
      BY <1>2, <1>4, <2>2 DEF Pending
    <3>3. Cardinality(labels[u]) + Cardinality(Pending(edit, u)) <= AllTags
      BY BoundIs DEF LabelsInv
    <3> QED
      BY <1>0, <3>1, <3>2, <3>3, FewerLabels
  <2> QED
    BY <2>1, <2>2
<1>7. LabelsBounded'
  BY <1>6, BoundIsLater
<1> QED
  BY <1>5, <1>7 DEF LabelsInv, FullSets

LEMMA InsertKeepsBound ==
  ASSUME LabelsInv, LibraryTypeOK', MovesStored', NEW e \in Edits, InsertLabel(e)
  PROVE  LabelsInv'
<1>0. LibraryTypeOK
  BY DEF LabelsInv
<1> DEFINE v == edit[e].clip
<1>1. PICK t \in edit[e].left, job \in Edit :
        /\ edit' = [edit EXCEPT ![e] = job]
        /\ \/ job = NoEdit
           \/ job = [pc |-> "clear", clips |-> edit[e].clips, tags |-> edit[e].tags]
           \/ job = [pc |-> "label", clip |-> v, left |-> edit[e].left \ {t},
                     clips |-> edit[e].clips, tags |-> edit[e].tags]
        /\ \/ labels' = labels
           \/ labels' = [labels EXCEPT ![v] = labels[v] \cup {t}]
  BY <1>0, InsertLabelGives
<1>2. \A d \in Edits : edit'[d] = IF d = e THEN job ELSE edit[d]
  BY <1>0, <1>1, GivesEdit
<1>3. /\ edit[e].pc = "label" /\ v \in Clips /\ t \in Tags
      /\ edit[e].tags \subseteq Tags /\ Cardinality(edit[e].tags) <= MaxTagsPerClip
      /\ edit[e].left \subseteq edit[e].tags
  BY <1>0, JobOf DEF LabelsInv, FullSets, InsertLabel
<1>4. /\ job.pc \in {"clear", "label"} => job.tags = edit[e].tags
      /\ job.pc = "label" => job.left = edit[e].left \ {t} /\ job.clip = v
  BY <1>1 DEF NoEdit
<1>5. FullSets(edit')
  BY <1>2, <1>3, <1>4 DEF LabelsInv, FullSets
<1>6. \A u \in Clips : Pending(edit', u) \subseteq Pending(edit, u)
  BY <1>2, <1>3, <1>4 DEF Pending
<1>7. \A u \in Clips : Cardinality(labels[u]) + Cardinality(Pending(edit, u)) <= AllTags
  BY BoundIs DEF LabelsInv
<1>8. ASSUME NEW u \in Clips
      PROVE  Cardinality(labels'[u]) + Cardinality(Pending(edit', u)) <= AllTags
  <2>1. CASE labels'[u] = labels[u]
    BY <1>0, <1>6, <1>7, <2>1, FewerLabels
  <2>2. CASE labels'[u] # labels[u]
    <3>1. u = v /\ labels'[u] = labels[u] \cup {t}
      BY <1>0, <1>1, <1>3, <2>2 DEF LibraryTypeOK
    <3> DEFINE old == Pending(edit, u)
               new == Pending(edit', u)
               one == <<e, t>>
    <3>2. one \in old /\ one \notin new
      BY <1>1, <1>2, <1>3, <1>4, <3>1 DEF Pending
    <3>3. new \subseteq old \ {one}
      BY <1>6, <3>2
    <3>4. IsFiniteSet(old) /\ Cardinality(old) \in Nat /\ Cardinality(new) \in Nat
      BY PendingFinite
    <3>5. IsFiniteSet(labels[u]) /\ Cardinality(labels[u]) \in Nat
      BY <1>0, LabelsFinite
    <3> HIDE DEF old, new, one
    <3>6. IsFiniteSet(old \ {one}) /\ Cardinality(old \ {one}) = Cardinality(old) - 1
      BY <3>2, <3>4, FS_RemoveElement
    <3>7. Cardinality(new) <= Cardinality(old) - 1
      BY <3>3, <3>6, FS_Subset
    <3>8. \/ Cardinality(labels'[u]) = Cardinality(labels[u]) + 1
          \/ Cardinality(labels'[u]) = Cardinality(labels[u])
      <4> DEFINE had == labels[u]
      <4>1. IsFiniteSet(had)
        BY <3>5
      <4> HIDE DEF had
      <4>2. Cardinality(had \cup {t}) = IF t \in had THEN Cardinality(had) ELSE Cardinality(had) + 1
        BY <4>1, FS_AddElement
      <4>3. labels'[u] = had \cup {t}
        BY <3>1 DEF had
      <4>4. \/ Cardinality(labels'[u]) = Cardinality(had) + 1
            \/ Cardinality(labels'[u]) = Cardinality(had)
        BY <4>2, <4>3
      <4> QED BY <4>4 DEF had
    <3>9. AllTags \in Nat
      BY FS_CardinalityType, LibraryAssumption DEF AllTags
    <3>10. Cardinality(labels[u]) + Cardinality(old) <= AllTags
      BY <1>7 DEF old
    <3>11. Cardinality(labels'[u]) + Cardinality(new) <= AllTags
      BY <3>4, <3>5, <3>7, <3>8, <3>9, <3>10
    <3> QED
      BY <3>11 DEF new
  <2> QED
    BY <2>1, <2>2
<1>9. LabelsBounded'
  BY <1>8, BoundIsLater
<1> QED
  BY <1>5, <1>9 DEF LabelsInv, FullSets

LEMMA LabelStep ==
  ASSUME LabelsInv, [LibraryNext]_libraryVars
  PROVE  LabelsInv'
<1>0. LibraryTypeOK' /\ MovesStored' /\ LibraryTypeOK
  BY MovesStay DEF LabelsInv
<1>1. ASSUME NEW e \in Edits, NEW job \in Edit, edit' = [edit EXCEPT ![e] = job],
             \A v \in Clips : labels'[v] \subseteq labels[v], job.pc # "label",
             job.pc = "clear" => Cardinality(job.tags) <= MaxTagsPerClip
      PROVE  LabelsInv'
  <2>1. \A d \in Edits : edit'[d] = IF d = e THEN job ELSE edit[d]
    BY <1>0, <1>1, GivesEdit
  <2>2. job.pc = "clear" => job.tags \subseteq Tags
    BY DEF Edit
  <2> QED
    BY <1>0, <1>1, <2>1, <2>2, LabelQuiet
<1>2. ASSUME UNCHANGED edit, \A v \in Clips : labels'[v] \subseteq labels[v] PROVE LabelsInv'
  BY <1>0, <1>2, LabelQuiet
<1>3. ASSUME NEW v \in Clips,
             \/ \E scope \in Scope : AddClip(v, scope)
             \/ \E status \in {"processing", "ready", "deleted"} : SetStatus(v, status)
      PROVE  LabelsInv'
  BY <1>2, <1>3 DEF AddClip, SetStatus
<1>4. ASSUME NEW scope \in Scope,
             \/ \E f \in Folders : DeleteFolder(scope, f)
             \/ \E t \in Tags : DeleteTag(scope, t)
      PROVE  LabelsInv'
  <2>1. UNCHANGED edit /\ \A v \in Clips : labels'[v] \subseteq labels[v]
    BY <1>4 DEF DeleteFolder, DeleteTag
  <2> QED
    BY <1>2, <2>1
<1>5. ASSUME NEW e \in Edits, NEW scope \in Scope,
             \/ CreateFolder(e, scope) \/ CreateTag(e, scope)
             \/ \E v \in Clips, tags \in SUBSET Tags : SetVideoTags(e, scope, v, tags)
             \/ \E clips \in SUBSET Clips \ {{}}, tags \in SUBSET Tags :
                  BatchSetTags(e, scope, clips, tags)
             \/ \E v \in Clips, org \in Teams \cup {Nowhere} : Transfer(e, scope, v, org)
      PROVE  LabelsInv'
  <2>1. PICK job \in Edit : /\ edit' = [edit EXCEPT ![e] = job]
                            /\ job.pc \in {"addFolder", "addTag", "clear", "move"}
                            /\ job.pc = "clear" => Cardinality(job.tags) <= MaxTagsPerClip
    BY <1>0, <1>5, BeginGives
  <2>2. UNCHANGED labels
    BY <1>0, <1>5, BeginGives
  <2> QED
    BY <1>1, <2>1, <2>2
<1>6. ASSUME NEW e \in Edits, NEW scope \in Scope,
             \/ \E v \in Clips, f \in Folders \cup {Nowhere} : SetVideoFolder(e, scope, v, f)
             \/ \E clips \in SUBSET Clips \ {{}}, f \in Folders \cup {Nowhere} :
                  BatchSetFolder(e, scope, clips, f)
      PROVE  LabelsInv'
  <2>1. PICK job \in Edit : edit' = [edit EXCEPT ![e] = job] /\ job.pc = "file"
    BY <1>0, <1>6, SetFolderGives
  <2>2. UNCHANGED labels
    BY <1>0, <1>6, SetFolderGives
  <2> QED
    BY <1>1, <2>1, <2>2
<1>7. ASSUME NEW e \in Edits,
             \/ FileClips(e) \/ StripLabels(e) \/ BreakEdit(e)
             \/ \E f \in Folders : InsertFolder(e, f)
             \/ \E t \in Tags : InsertTag(e, t)
      PROVE  LabelsInv'
  <2>1. edit' = [edit EXCEPT ![e] = NoEdit]
    BY <1>7 DEF FileClips, StripLabels, BreakEdit, InsertFolder, InsertTag, EndEdit
  <2>2. \A v \in Clips : labels'[v] \subseteq labels[v]
    BY <1>0, <1>7 DEF FileClips, StripLabels, BreakEdit, InsertFolder, InsertTag, LibraryTypeOK
  <2>3. NoEdit \in Edit /\ NoEdit.pc = "idle"
    BY NoEditIsEdit DEF NoEdit
  <2> QED
    BY <1>1, <2>1, <2>2, <2>3
<1>8. ASSUME NEW e \in Edits, MoveClip(e)
      PROVE  LabelsInv'
  <2>1. edit[e].clip \in Clips
    BY <1>0, <1>8, JobOf DEF MoveClip
  <2>2. [pc |-> "strip", clip |-> edit[e].clip] \in Edit
    BY <2>1 DEF Edit
  <2>3. edit' = [edit EXCEPT ![e] = [pc |-> "strip", clip |-> edit[e].clip]] /\ UNCHANGED labels
    BY <1>8 DEF MoveClip, GoOn
  <2> QED
    BY <1>1, <2>2, <2>3
<1>9. CASE UNCHANGED libraryVars
  BY <1>2, <1>9 DEF libraryVars
<1> QED
  BY <1>0, <1>3, <1>4, <1>5, <1>6, <1>7, <1>8, <1>9, ClearKeepsBound, InsertKeepsBound
  DEF LibraryNext

\* Concurrent requests put no more tags on a video than a full set each, for any numbers
\* of requests, tags and videos (setVideoTags and batchSetTags delete before they insert).
THEOREM TagsStayBounded == LibrarySpec => []LabelsBounded
<1>1. ASSUME LibraryInit PROVE LabelsInv
  <2>1. LibraryTypeOK /\ MovesStored /\ FullSets(edit)
    BY <1>1, LibraryInitTypes DEF LibraryInit, MovesStored, FullSets, NoEdit
  <2>2. ASSUME NEW v \in Clips
        PROVE  Cardinality(labels[v]) + Cardinality(Pending(edit, v)) <= AllTags
    <3>1. Cardinality(labels[v]) = 0
      BY <1>1, FS_EmptySet DEF LibraryInit
    <3>2. Cardinality(Pending(edit, v)) <= AllTags /\ Cardinality(Pending(edit, v)) \in Nat
      BY <2>1, PendingBounded, PendingFinite
    <3> QED
      BY <3>1, <3>2
  <2>3. LabelsBounded
    BY <2>2, BoundIs
  <2> QED
    BY <2>1, <2>3 DEF LabelsInv
<1>2. LabelsInv /\ [LibraryNext]_libraryVars => LabelsInv'
  BY LabelStep
<1>3. LabelsInv => LabelsBounded
  BY DEF LabelsInv
<1> QED
  BY <1>1, <1>2, <1>3, PTL DEF LibrarySpec

-----------------------------------------------------------------------------
(***************************************************************************)
(* Playlists.  While no request works on a playlist across another, a row  *)
(* that is about to be inserted is numbered after all others, and the rows *)
(* that a new order has written have its numbers, which are all different. *)
(***************************************************************************)
\* A set of integers between -1 and a bound has a largest member.
LEMMA LargestOf ==
  ASSUME NEW n \in Nat, NEW S, S # {}, S \subseteq -1..n
  PROVE  Max(S) \in S /\ \A y \in S : Max(S) >= y
<1> DEFINE T == {n - x : x \in S}
<1>0. \A x \in S : x \in Int /\ x <= n /\ n - x \in Nat
  OBVIOUS
<1>1. T \subseteq Nat /\ T # {}
  BY <1>0
<1>2. PICK m \in T : \A y \in T : ~ (<<y, m>> \in OpToRel(<, Nat))
  BY <1>1, WFMin, NatLessThanWellFounded
<1>3. \A y \in T : ~(y < m)
  BY <1>1, <1>2 DEF OpToRel
<1>4. PICK x \in S : m = n - x
  BY <1>2
<1>5. \A y \in S : x >= y
  <2> TAKE y \in S
  <2>1. ~(n - y < n - x)
    BY <1>3, <1>4
  <2>2. x \in Int /\ y \in Int /\ n \in Int
    BY <1>0
  <2> HIDE DEF T
  <2> QED
    BY <2>1, <2>2
<1> QED
  BY <1>5 DEF Max

Change1 == [pc : {"look"}, list : Lists, left : SUBSET Films]
Change2 == [pc : {"insert"}, list : Lists, left : SUBSET Films, film : Films, at : Positions]
Change3 == [pc : {"move"}, list : Lists, left : SUBSET Films,
            to : UNION {[S -> Positions] : S \in SUBSET Films}]

LEMMA ChangeAt ==
  ASSUME PlaylistsTypeOK, NEW c \in Changes
  PROVE  /\ change[c].pc \in {"idle", "create", "look", "insert", "move"}
         /\ change[c].pc = "look" => change[c] \in Change1
         /\ change[c].pc = "insert" => change[c] \in Change2
         /\ change[c].pc = "move" => change[c] \in Change3
<1>1. change[c] \in Change
  BY DEF PlaylistsTypeOK
<1> QED
  BY <1>1 DEF Change, Change1, Change2, Change3

LEMMA ChangesAre ==
  /\ NoChange \in Change /\ [pc |-> "create"] \in Change
  /\ Change1 \subseteq Change /\ Change2 \subseteq Change /\ Change3 \subseteq Change
  BY DEF NoChange, Change, Change1, Change2, Change3

LEMMA GivesChange ==
  ASSUME PlaylistsTypeOK, NEW c \in Changes, NEW job \in Change,
         change' = [change EXCEPT ![c] = job]
  PROVE  /\ change' \in [Changes -> Change]
         /\ \A d \in Changes : change'[d] = IF d = c THEN job ELSE change[d]
  BY DEF PlaylistsTypeOK

LEMMA PositionAt ==
  ASSUME PlaylistsTypeOK, NEW p \in Lists, NEW v \in Films
  PROVE  /\ position[p][v] \in Positions \cup {Unlisted}
         /\ Unlisted \notin Positions /\ Positions \subseteq Nat
         /\ position[p][v] # Unlisted => position[p][v] \in Nat
  BY PlaylistsAssumption DEF PlaylistsTypeOK, Positions

\* The next position is a number, and above every row's.
LEMMA NextIsHigher ==
  ASSUME PlaylistsTypeOK, NEW p \in Lists
  PROVE  /\ NextPosition(p) \in Nat
         /\ \A v \in Films : position[p][v] # Unlisted => position[p][v] < NextPosition(p)
<1> DEFINE S == {-1} \cup {position[p][v] : v \in Rows(p)}
<1>1. \A v \in Rows(p) : v \in Films /\ position[p][v] \in 0..MaxPosition
  BY PositionAt DEF Rows, Positions
<1>2. S \subseteq -1..MaxPosition /\ S # {} /\ MaxPosition \in Nat
  BY <1>1, PlaylistsAssumption
<1> HIDE DEF S
<1>3. Max(S) \in S /\ \A y \in S : Max(S) >= y
  BY <1>2, LargestOf
<1>4. Max(S) \in Int /\ Max(S) >= -1
  BY <1>2, <1>3 DEF S
<1>5. NextPosition(p) = Max(S) + 1
  BY DEF NextPosition, S
<1>6. ASSUME NEW v \in Films, position[p][v] # Unlisted
      PROVE  position[p][v] < NextPosition(p)
  <2>1. v \in Rows(p) /\ position[p][v] \in Nat
    BY <1>6, PositionAt DEF Rows
  <2>2. position[p][v] \in S
    BY <2>1 DEF S
  <2>3. Max(S) >= position[p][v]
    BY <1>3, <2>2
  <2> QED
    BY <1>4, <1>5, <2>1, <2>3
<1> QED
  BY <1>4, <1>5, <1>6

\* A row's position is written, or none is.
LEMMA WritesPosition ==
  ASSUME PlaylistsTypeOK, NEW p \in Lists, NEW v \in Films, NEW n \in Positions \cup {Unlisted},
         position' = [position EXCEPT ![p][v] = n]
  PROVE  /\ position' \in [Lists -> [Films -> Positions \cup {Unlisted}]]
         /\ \A q \in Lists, w \in Films :
              position'[q][w] = IF q = p /\ w = v THEN n ELSE position[q][w]
  BY DEF PlaylistsTypeOK

\* What the numbers of a new order are.
LEMMA NumberingsAre ==
  ASSUME NEW films \in SUBSET Films, NEW to \in Numberings(films)
  PROVE  /\ to \in [films -> Positions]
         /\ \A v, w \in films : to[v] = to[w] => v = w
<1>1. IsFiniteSet(films) /\ Cardinality(films) <= Cardinality(Films)
  BY FS_Subset, PlaylistsAssumption
<1>2. Cardinality(films) \in Nat /\ Cardinality(Films) \in Nat
  BY <1>1, FS_CardinalityType, PlaylistsAssumption
<1>3. 0..(Cardinality(films) - 1) \subseteq 0..MaxPosition
  BY <1>1, <1>2, PlaylistsAssumption
<1> QED
  BY <1>3 DEF Numberings, Positions

\* The steps of requests, with what they give.
LEMMA LookUpFilmGives ==
  ASSUME PlaylistsTypeOK, NEW c \in Changes, LookUpFilm(c)
  PROVE  /\ change[c] \in Change1
         /\ \E job \in Change :
              /\ change' = [change EXCEPT ![c] = job]
              /\ \/ job = NoChange
                 \/ /\ job \in Change2 /\ job.list = change[c].list
                    /\ job.at = NextPosition(change[c].list)
<1>1. change[c] \in Change1
  BY ChangeAt DEF LookUpFilm
<1> DEFINE p == change[c].list
<1>2. PICK v \in change[c].left :
        IF v \in gone
          THEN change' = [change EXCEPT ![c] = NoChange]
          ELSE /\ NextPosition(p) <= MaxPosition
               /\ change' = [change EXCEPT ![c] =
                    [pc |-> "insert", list |-> p, left |-> change[c].left \ {v}, film |-> v,
                     at |-> NextPosition(p)]]
  BY DEF LookUpFilm
<1>3. p \in Lists /\ v \in Films /\ change[c].left \ {v} \in SUBSET Films
  BY <1>1 DEF Change1
<1>4. CASE v \in gone
  BY <1>1, <1>2, <1>4, ChangesAre
<1>5. CASE v \notin gone
  <2>1. NextPosition(p) \in Positions
    BY <1>2, <1>3, <1>5, NextIsHigher, PlaylistsAssumption DEF Positions
  <2> DEFINE job == [pc |-> "insert", list |-> p, left |-> change[c].left \ {v}, film |-> v,
                     at |-> NextPosition(p)]
  <2>2. job \in Change2 /\ job.list = p /\ job.at = NextPosition(p)
    BY <1>3, <2>1 DEF Change2
  <2>3. change' = [change EXCEPT ![c] = job]
    BY <1>2, <1>5
  <2> HIDE DEF job
  <2> QED
    BY <1>1, <2>2, <2>3, ChangesAre
<1> QED
  BY <1>4, <1>5

LEMMA InsertFilmGives ==
  ASSUME PlaylistsTypeOK, NEW c \in Changes, InsertFilm(c)
  PROVE  /\ change[c] \in Change2
         /\ position' = position \/ position' = [position EXCEPT ![change[c].list][change[c].film] = change[c].at]
         /\ position' # position =>
              /\ change[c].list \in playlist
              /\ position[change[c].list][change[c].film] = Unlisted
         /\ \E job \in Change :
              /\ change' = [change EXCEPT ![c] = job]
              /\ job = NoChange \/ (job \in Change1 /\ job.list = change[c].list)
<1>1. change[c] \in Change2
  BY ChangeAt DEF InsertFilm
<1> DEFINE j == change[c]
           next == [pc |-> "look", list |-> j.list, left |-> j.left]
<1>2. next \in Change1 /\ next.list = j.list
  BY <1>1 DEF Change1, Change2
<1>3. change' = [change EXCEPT ![c] = NoChange] \/ change' = [change EXCEPT ![c] = next]
  BY DEF InsertFilm
<1>4. /\ position' = position \/ position' = [position EXCEPT ![j.list][j.film] = j.at]
      /\ position' # position => j.list \in playlist /\ j.film \notin Rows(j.list)
  BY DEF InsertFilm
<1>5. j.film \notin Rows(j.list) => position[j.list][j.film] = Unlisted
  BY <1>1 DEF Rows, Change2
<1> HIDE DEF next
<1> QED
  BY <1>1, <1>2, <1>3, <1>4, <1>5, ChangesAre

LEMMA MoveFilmGives ==
  ASSUME PlaylistsTypeOK, NEW c \in Changes, MoveFilm(c)
  PROVE  /\ change[c] \in Change3
         /\ \E v \in change[c].left, job \in Change :
              /\ position' = IF position[change[c].list][v] # Unlisted
                               THEN [position EXCEPT ![change[c].list][v] = change[c].to[v]]
                               ELSE position
              /\ change' = [change EXCEPT ![c] = job]
              /\ \/ job = NoChange /\ change[c].left = {v}
                 \/ /\ job \in Change3 /\ job.list = change[c].list /\ job.to = change[c].to
                    /\ job.left = change[c].left \ {v}
<1>1. change[c] \in Change3
  BY ChangeAt DEF MoveFilm
<1> DEFINE j == change[c]
<1>2. PICK v \in j.left :
        /\ position' = IF v \in Rows(j.list)
                         THEN [position EXCEPT ![j.list][v] = j.to[v]] ELSE position
        /\ change' = [change EXCEPT ![c] =
             IF j.left = {v} THEN NoChange ELSE [j EXCEPT !.left = j.left \ {v}]]
  BY DEF MoveFilm
<1>3. v \in Films /\ (v \in Rows(j.list) <=> position[j.list][v] # Unlisted)
  BY <1>1 DEF Rows, Change3
<1>4. CASE j.left = {v}
  BY <1>1, <1>2, <1>3, <1>4, ChangesAre
<1>5. CASE j.left # {v}
  <2> DEFINE job == [j EXCEPT !.left = j.left \ {v}]
  <2>1. job \in Change3 /\ job.list = j.list /\ job.to = j.to /\ job.left = j.left \ {v}
    BY <1>1 DEF Change3
  <2>2. change' = [change EXCEPT ![c] = job]
    BY <1>2, <1>5
  <2> HIDE DEF job
  <2> QED
    BY <1>1, <1>2, <1>3, <2>1, <2>2, ChangesAre
<1> QED
  BY <1>4, <1>5

\* A position that a new order gives is one.
LEMMA OrderAt ==
  ASSUME NEW j \in Change3, NEW v \in j.left, j.left \subseteq DOMAIN j.to
  PROVE  j.to[v] \in Positions
<1>1. PICK S \in SUBSET Films : j.to \in [S -> Positions]
  BY DEF Change3
<1> QED
  BY <1>1

\* Every film that a new order has still to write has a number.
MovesNumbered == \A c \in Changes : change[c].pc = "move" => change[c].left \subseteq DOMAIN change[c].to

LEMMA PlaylistsStepTypes ==
  ASSUME PlaylistsTypeOK, MovesNumbered, [PlaylistsNext]_playlistVars
  PROVE  PlaylistsTypeOK' /\ MovesNumbered'
<1>1. ASSUME NEW c \in Changes, NEW job \in Change, change' = [change EXCEPT ![c] = job],
             job.pc = "move" => job.left \subseteq DOMAIN job.to
      PROVE  change' \in [Changes -> Change] /\ MovesNumbered'
  BY <1>1, GivesChange DEF MovesNumbered
<1>2. NoChange.pc = "idle" /\ \A job \in Change1 \cup Change2 : job.pc # "move"
  BY DEF NoChange, Change1, Change2
<1>3. CASE ChangePlan
  BY <1>3 DEF ChangePlan, PlaylistsTypeOK, MovesNumbered
<1>4. ASSUME NEW v \in Films, DeleteFilm(v)
      PROVE  PlaylistsTypeOK' /\ MovesNumbered'
  BY <1>4 DEF DeleteFilm, PlaylistsTypeOK, MovesNumbered
<1>5. ASSUME NEW p \in Lists, DeletePlaylist(p)
      PROVE  PlaylistsTypeOK' /\ MovesNumbered'
  BY <1>5 DEF DeletePlaylist, PlaylistsTypeOK, MovesNumbered
<1>6. ASSUME NEW p \in Lists, NEW v \in Films, RemovePlaylistVideo(p, v)
      PROVE  PlaylistsTypeOK' /\ MovesNumbered'
  BY <1>6 DEF RemovePlaylistVideo, PlaylistsTypeOK, MovesNumbered
<1>7. ASSUME NEW c \in Changes, CreatePlaylist(c)
      PROVE  PlaylistsTypeOK' /\ MovesNumbered'
  <2> DEFINE job == [pc |-> "create"]
  <2>1. job \in Change /\ job.pc # "move"
    BY ChangesAre
  <2>2. change' = [change EXCEPT ![c] = job]
    BY <1>7 DEF CreatePlaylist
  <2> HIDE DEF job
  <2> QED
    BY <1>1, <1>7, <2>1, <2>2 DEF CreatePlaylist, PlaylistsTypeOK
<1>8. ASSUME NEW c \in Changes, NEW p \in Lists, InsertPlaylist(c, p)
      PROVE  PlaylistsTypeOK' /\ MovesNumbered'
  BY <1>1, <1>2, <1>8, ChangesAre DEF InsertPlaylist, PlaylistsTypeOK
<1>9. ASSUME NEW c \in Changes, NEW p \in Lists, NEW films \in SUBSET Films,
             AddPlaylistVideos(c, p, films)
      PROVE  PlaylistsTypeOK' /\ MovesNumbered'
  <2> DEFINE job == [pc |-> "look", list |-> p, left |-> films]
  <2>1. job \in Change1
    BY DEF Change1
  <2>2. change' = [change EXCEPT ![c] = job] /\ mixed' \subseteq Lists
        /\ UNCHANGED <<playlist, position, gone, paying>>
    BY <1>9 DEF AddPlaylistVideos, Mix, PlaylistsTypeOK
  <2> HIDE DEF job
  <2> QED
    BY <1>1, <1>2, <2>1, <2>2, ChangesAre DEF PlaylistsTypeOK
<1>10. ASSUME NEW c \in Changes, LookUpFilm(c)
      PROVE  PlaylistsTypeOK' /\ MovesNumbered'
  <2>1. PICK job \in Change : /\ change' = [change EXCEPT ![c] = job]
                              /\ job = NoChange \/ job \in Change2
    BY <1>10, LookUpFilmGives
  <2> QED
    BY <1>1, <1>2, <1>10, <2>1 DEF LookUpFilm, PlaylistsTypeOK
<1>11. ASSUME NEW c \in Changes, InsertFilm(c)
      PROVE  PlaylistsTypeOK' /\ MovesNumbered'
  <2>1. PICK job \in Change : /\ change' = [change EXCEPT ![c] = job]
                              /\ job = NoChange \/ job \in Change1
    BY <1>11, InsertFilmGives
  <2>2. /\ change[c].list \in Lists /\ change[c].film \in Films /\ change[c].at \in Positions
    BY <1>11, InsertFilmGives DEF Change2
  <2>3. position' \in [Lists -> [Films -> Positions \cup {Unlisted}]]
    <3>1. CASE position' = position
      BY <3>1 DEF PlaylistsTypeOK
    <3>2. CASE position' = [position EXCEPT ![change[c].list][change[c].film] = change[c].at]
      BY <2>2, <3>2, WritesPosition
    <3> QED
      BY <1>11, <3>1, <3>2, InsertFilmGives
  <2> QED
    BY <1>1, <1>2, <1>11, <2>1, <2>3 DEF InsertFilm, PlaylistsTypeOK
<1>12. ASSUME NEW c \in Changes, NEW p \in Lists, NEW films \in SUBSET Films,
              ReorderPlaylistVideos(c, p, films)
      PROVE  PlaylistsTypeOK' /\ MovesNumbered'
  <2>1. PICK to \in Numberings(films) :
          change' = [change EXCEPT ![c] = [pc |-> "move", list |-> p, left |-> films, to |-> to]]
    BY <1>12 DEF ReorderPlaylistVideos
  <2> DEFINE job == [pc |-> "move", list |-> p, left |-> films, to |-> to]
  <2>2. to \in [films -> Positions]
    BY NumberingsAre
  <2>3. job \in Change3 /\ job.left \subseteq DOMAIN job.to
    BY <2>2 DEF Change3
  <2>4. change' = [change EXCEPT ![c] = job]
    BY <2>1
  <2>5. mixed' \subseteq Lists /\ UNCHANGED <<playlist, position, gone, paying>>
    BY <1>12 DEF ReorderPlaylistVideos, Mix, PlaylistsTypeOK
  <2> HIDE DEF job
  <2> QED
    BY <1>1, <2>3, <2>4, <2>5, ChangesAre DEF PlaylistsTypeOK
<1>13. ASSUME NEW c \in Changes, MoveFilm(c)
      PROVE  PlaylistsTypeOK' /\ MovesNumbered'
  <2>1. change[c] \in Change3 /\ change[c].left \subseteq DOMAIN change[c].to
    BY <1>13, MoveFilmGives DEF MovesNumbered, MoveFilm
  <2>2. PICK v \in change[c].left, job \in Change :
          /\ position' = IF position[change[c].list][v] # Unlisted
                           THEN [position EXCEPT ![change[c].list][v] = change[c].to[v]]
                           ELSE position
          /\ change' = [change EXCEPT ![c] = job]
          /\ \/ job = NoChange
             \/ job \in Change3 /\ job.to = change[c].to /\ job.left = change[c].left \ {v}
    BY <1>13, MoveFilmGives
  <2>3. change[c].to[v] \in Positions /\ change[c].list \in Lists /\ v \in Films
    BY <2>1, OrderAt DEF Change3
  <2>4. position' \in [Lists -> [Films -> Positions \cup {Unlisted}]]
    <3>1. CASE position' = position
      BY <3>1 DEF PlaylistsTypeOK
    <3>2. CASE position' = [position EXCEPT ![change[c].list][v] = change[c].to[v]]
      BY <2>3, <3>2, WritesPosition
    <3> QED
      BY <2>2, <3>1, <3>2
  <2> QED
    BY <1>1, <1>2, <1>13, <2>1, <2>2, <2>4 DEF MoveFilm, PlaylistsTypeOK
<1>14. ASSUME NEW c \in Changes, BreakChange(c)
      PROVE  PlaylistsTypeOK' /\ MovesNumbered'
  <2>1. mixed' \subseteq Lists
    <3>1. change[c].pc = "move" => change[c].list \in Lists
      BY ChangeAt DEF Change3
    <3> QED
      BY <1>14, <3>1 DEF BreakChange, PlaylistsTypeOK
  <2> QED
    BY <1>1, <1>2, <1>14, <2>1, ChangesAre DEF BreakChange, PlaylistsTypeOK
<1>15. CASE UNCHANGED playlistVars
  BY <1>15 DEF playlistVars, PlaylistsTypeOK, MovesNumbered
<1> QED
  BY <1>3, <1>4, <1>5, <1>6, <1>7, <1>8, <1>9, <1>10, <1>11, <1>12, <1>13, <1>14, <1>15
  DEF PlaylistsNext

LEMMA PlaylistsStart == PlaylistsInit => PlaylistsTypeOK /\ MovesNumbered
<1> SUFFICES ASSUME PlaylistsInit PROVE PlaylistsTypeOK /\ MovesNumbered
  OBVIOUS
<1>1. \A c \in Changes : change[c] = NoChange
  BY DEF PlaylistsInit
<1>2. MovesNumbered
  BY <1>1 DEF MovesNumbered, NoChange
<1>3. change \in [Changes -> Change]
  BY ChangesAre DEF PlaylistsInit
<1>4. position \in [Lists -> [Films -> Positions \cup {Unlisted}]]
  BY DEF PlaylistsInit
<1> QED
  BY <1>2, <1>3, <1>4 DEF PlaylistsInit, PlaylistsTypeOK

\* Playlists, their rows and the requests keep their types (playlist.go): a new order
\* numbers every film it has still to write.
THEOREM PlaylistsTyped == PlaylistsSpec => []PlaylistsTypeOK
<1>1. PlaylistsTypeOK /\ MovesNumbered /\ [PlaylistsNext]_playlistVars
        => PlaylistsTypeOK' /\ MovesNumbered'
  BY PlaylistsStepTypes
<1> QED
  BY <1>1, PlaylistsStart, PTL DEF PlaylistsSpec

\* What is known of the rows of one playlist, and of a request that works on it.
Touches(j, p) == j.pc \notin {"idle", "create"} /\ j.list = p

EndFree(j, listed) ==
  j.pc = "insert" => \A v \in Films : listed[v] # Unlisted => listed[v] < j.at

HalfMoved(j, listed, away) ==
  j.pc = "move" =>
    /\ \A v, w \in DOMAIN j.to : j.to[v] = j.to[w] => v = w
    /\ j.left \subseteq DOMAIN j.to
    /\ \A v \in Films \ away : listed[v] # Unlisted =>
         v \in DOMAIN j.to /\ (v \notin j.left => listed[v] = j.to[v])

Strict(listed, away) ==
  \A v, w \in Films \ away : (listed[v] # Unlisted /\ listed[v] = listed[w]) => v = w

Alone(jobs, p) == \A c, d \in Changes : Touches(jobs[c], p) /\ Touches(jobs[d], p) => c = d

InOrder(jobs, listed, away, p) ==
  /\ Alone(jobs, p)
  /\ \A c \in Changes : Touches(jobs[c], p) => EndFree(jobs[c], listed) /\ HalfMoved(jobs[c], listed, away)
  /\ (\A c \in Changes : Touches(jobs[c], p) => jobs[c].pc # "move") => Strict(listed, away)

OwnRows == \A p \in Lists \ playlist, v \in Films : position[p][v] = Unlisted

OrderInv ==
  /\ PlaylistsTypeOK /\ MovesNumbered /\ OwnRows
  /\ \A p \in playlist \ mixed : InOrder(change, position[p], gone, p)

LEMMA OrderIs == OrderInv => OrderIsStrict
<1> SUFFICES ASSUME OrderInv, NEW p \in playlist \ mixed,
                    \A c \in Changes : ~(WorksOn(c, p) /\ change[c].pc = "move"),
                    NEW v \in Visible(p), NEW w \in Visible(p), position[p][v] = position[p][w]
             PROVE  v = w
  BY DEF OrderIsStrict
<1>1. Strict(position[p], gone)
  BY DEF OrderInv, InOrder, WorksOn, Touches
<1> QED
  BY <1>1 DEF Strict, Visible, Rows

\* A step that takes rows away, hides films, and ends, or moves elsewhere, no new order.
LEMMA Calm ==
  ASSUME NEW p, NEW jobs, NEW listed, NEW away, InOrder(jobs, listed, away, p),
         NEW jobs2, NEW listed2, NEW away2, away \subseteq away2,
         \A v \in Films : listed2[v] \in {listed[v], Unlisted},
         \A c \in Changes : Touches(jobs2[c], p) => jobs2[c] = jobs[c],
         \A c \in Changes : Touches(jobs[c], p) /\ jobs[c].pc = "move" => jobs2[c] = jobs[c]
  PROVE  InOrder(jobs2, listed2, away2, p)
<1>1. Alone(jobs2, p)
  BY DEF InOrder, Alone
<1>2. ASSUME NEW c \in Changes, Touches(jobs2[c], p)
      PROVE  EndFree(jobs2[c], listed2) /\ HalfMoved(jobs2[c], listed2, away2)
  <2>1. jobs2[c] = jobs[c] /\ EndFree(jobs[c], listed) /\ HalfMoved(jobs[c], listed, away)
    BY <1>2 DEF InOrder
  <2>2. EndFree(jobs2[c], listed2)
    BY <2>1 DEF EndFree
  <2>3. HalfMoved(jobs2[c], listed2, away2)
    BY <2>1 DEF HalfMoved
  <2> QED
    BY <2>2, <2>3
<1>3. ASSUME \A c \in Changes : Touches(jobs2[c], p) => jobs2[c].pc # "move"
      PROVE  Strict(listed2, away2)
  <2>1. Strict(listed, away)
    BY <1>3 DEF InOrder
  <2> QED
    BY <2>1 DEF Strict
<1> QED
  BY <1>1, <1>2, <1>3 DEF InOrder

\* The only request that works on a playlist, and no new order, takes its next step.
LEMMA AloneStep ==
  ASSUME NEW p, NEW jobs, NEW listed, NEW away, NEW c \in Changes,
         \A d \in Changes \ {c} : ~Touches(jobs[d], p),
         NEW jobs2, NEW listed2,
         \A d \in Changes \ {c} : jobs2[d] = jobs[d],
         Touches(jobs2[c], p) => EndFree(jobs2[c], listed2) /\ HalfMoved(jobs2[c], listed2, away),
         (Touches(jobs2[c], p) => jobs2[c].pc # "move") => Strict(listed2, away)
  PROVE  InOrder(jobs2, listed2, away, p)
<1>1. \A d \in Changes : Touches(jobs2[d], p) => d = c
  OBVIOUS
<1> QED
  BY <1>1 DEF InOrder, Alone

LEMMA StrictBefore ==
  ASSUME NEW p, NEW jobs, NEW listed, NEW away, InOrder(jobs, listed, away, p), NEW c \in Changes,
         \A d \in Changes \ {c} : ~Touches(jobs[d], p), Touches(jobs[c], p) => jobs[c].pc # "move"
  PROVE  Strict(listed, away)
  BY DEF InOrder

\* A request begins or ends, or goes on at another playlist; it ends no new order of this.
LEMMA Elsewhere ==
  ASSUME OrderInv, NEW c \in Changes, NEW job \in Change, change' = [change EXCEPT ![c] = job],
         NEW p \in playlist \ mixed, position'[p] = position[p], gone' = gone,
         ~Touches(job, p), Touches(change[c], p) => change[c].pc # "move"
  PROVE  InOrder(change', position'[p], gone', p)
<1>1. \A d \in Changes : change'[d] = IF d = c THEN job ELSE change[d]
  BY GivesChange DEF OrderInv
<1>2. InOrder(change, position[p], gone, p)
  BY DEF OrderInv
<1>3. /\ \A d \in Changes : Touches(change'[d], p) => change'[d] = change[d]
      /\ \A d \in Changes : Touches(change[d], p) /\ change[d].pc = "move" => change'[d] = change[d]
  BY <1>1
<1> DEFINE listed == position[p]
           away == gone
<1>4. gone' = away /\ position'[p] = listed
  OBVIOUS
<1>5. InOrder(change, listed, away, p)
  BY <1>2
<1> HIDE DEF listed, away
<1>6. InOrder(change', listed, away, p)
  BY <1>3, <1>5, Calm
<1> QED
  BY <1>4, <1>6

\* Rows go, films are deleted, the plan changes: no request takes a step.
LEMMA RowsGo ==
  ASSUME OrderInv, NEW p \in playlist \ mixed, UNCHANGED change, gone \subseteq gone',
         \A v \in Films : position'[p][v] \in {position[p][v], Unlisted}
  PROVE  InOrder(change', position'[p], gone', p)
<1>1. InOrder(change, position[p], gone, p)
  BY DEF OrderInv
<1> QED
  BY <1>1, Calm

\* The others at a playlist, of a request that works on it.
LEMMA OthersAway ==
  ASSUME OrderInv, NEW c \in Changes, NEW p \in playlist \ mixed, Touches(change[c], p)
  PROVE  \A d \in Changes \ {c} : ~Touches(change[d], p)
  BY DEF OrderInv, InOrder, Alone

LEMMA OthersAwayMix ==
  ASSUME NEW c \in Changes, NEW p, NEW also, Mix(p, Meets(c, p) \/ also), p \notin mixed'
  PROVE  ~also /\ \A d \in Changes \ {c} : ~Touches(change[d], p)
  BY DEF Mix, Meets, WorksOn, Touches

LEMMA QuietOrder ==
  ASSUME OrderInv, PlaylistsTypeOK', MovesNumbered',
         \/ ChangePlan \/ UNCHANGED playlistVars
         \/ \E v \in Films : DeleteFilm(v)
         \/ \E p \in Lists : DeletePlaylist(p) \/ \E v \in Films : RemovePlaylistVideo(p, v)
  PROVE  OrderInv'
<1>1. /\ UNCHANGED change /\ gone \subseteq gone' /\ playlist' \subseteq playlist /\ mixed' = mixed
      /\ \A p \in Lists, v \in Films : position'[p][v] \in {position[p][v], Unlisted}
      /\ \A p \in playlist \ playlist', v \in Films : position'[p][v] = Unlisted
  <2>1. CASE ChangePlan \/ UNCHANGED playlistVars
    BY <2>1 DEF ChangePlan, playlistVars
  <2>2. ASSUME NEW v \in Films, DeleteFilm(v)
        PROVE  /\ UNCHANGED <<change, playlist, mixed>> /\ gone \subseteq gone'
               /\ \A p \in Lists, w \in Films : position'[p][w] \in {position[p][w], Unlisted}
    BY <2>2 DEF DeleteFilm, OrderInv, PlaylistsTypeOK
  <2>3. ASSUME NEW p \in Lists, DeletePlaylist(p)
        PROVE  /\ UNCHANGED <<change, gone, mixed>> /\ playlist' = playlist \ {p}
               /\ \A q \in Lists, w \in Films : position'[q][w] \in {position[q][w], Unlisted}
               /\ \A w \in Films : position'[p][w] = Unlisted
    BY <2>3 DEF DeletePlaylist, OrderInv, PlaylistsTypeOK
  <2>4. ASSUME NEW p \in Lists, NEW v \in Films, RemovePlaylistVideo(p, v)
        PROVE  /\ UNCHANGED <<change, gone, playlist, mixed>>
               /\ \A q \in Lists, w \in Films : position'[q][w] \in {position[q][w], Unlisted}
    BY <2>4 DEF RemovePlaylistVideo, OrderInv, PlaylistsTypeOK
  <2> QED
    BY <2>1, <2>2, <2>3, <2>4
<1>2. OwnRows'
  BY <1>1 DEF OrderInv, OwnRows
<1>3. ASSUME NEW p \in playlist' \ mixed'
      PROVE  InOrder(change', position'[p], gone', p)
  <2>1. p \in playlist \ mixed /\ p \in Lists
    BY <1>1 DEF OrderInv, PlaylistsTypeOK
  <2> QED
    BY <1>1, <2>1, RowsGo
<1> QED
  BY <1>2, <1>3 DEF OrderInv

LEMMA CreateKeepsOrder ==
  ASSUME OrderInv, PlaylistsTypeOK', MovesNumbered', NEW c \in Changes,
         CreatePlaylist(c) \/ \E p \in Lists : InsertPlaylist(c, p)
  PROVE  OrderInv'
<1>1. CASE CreatePlaylist(c)
  <2> DEFINE job == [pc |-> "create"]
  <2>1. job \in Change /\ (\A p : ~Touches(job, p)) /\ change[c].pc = "idle"
    BY <1>1, ChangesAre DEF Touches, CreatePlaylist
  <2>2. change' = [change EXCEPT ![c] = job] /\ UNCHANGED <<playlist, position, gone, mixed>>
    BY <1>1 DEF CreatePlaylist
  <2> HIDE DEF job
  <2>3. ASSUME NEW p \in playlist' \ mixed' PROVE InOrder(change', position'[p], gone', p)
    BY <2>1, <2>2, Elsewhere
  <2> QED
    BY <2>2, <2>3 DEF OrderInv, OwnRows
<1>2. ASSUME NEW q \in Lists, InsertPlaylist(c, q)
      PROVE  OrderInv'
  <2>1. /\ change' = [change EXCEPT ![c] = NoChange] /\ UNCHANGED <<position, gone>>
        /\ playlist' = playlist \cup {q} /\ mixed' = mixed \ {q} /\ q \notin playlist
        /\ change[c].pc = "create" /\ \A d \in Changes : ~Touches(change[d], q)
    BY <1>2 DEF InsertPlaylist, WorksOn, Touches
  <2>2. NoChange \in Change /\ \A p : ~Touches(NoChange, p)
    BY ChangesAre DEF NoChange, Touches
  <2>3. ASSUME NEW p \in playlist' \ mixed', p # q
        PROVE  InOrder(change', position'[p], gone', p)
    <3>1. p \in playlist \ mixed
      BY <2>1, <2>3
    <3> QED
      BY <2>1, <2>2, <3>1, Elsewhere
  <2>4. InOrder(change', position'[q], gone', q)
    <3>1. \A d \in Changes : ~Touches(change'[d], q)
      BY <2>1, <2>2, GivesChange DEF OrderInv
    <3>2. \A v \in Films : position'[q][v] = Unlisted
      BY <2>1 DEF OrderInv, OwnRows
    <3> QED
      BY <3>1, <3>2 DEF InOrder, Alone, Strict
  <2>5. OwnRows'
    BY <2>1 DEF OrderInv, OwnRows
  <2> QED
    BY <2>3, <2>4, <2>5 DEF OrderInv
<1> QED
  BY <1>1, <1>2

LEMMA AddKeepsOrder ==
  ASSUME OrderInv, PlaylistsTypeOK', MovesNumbered', NEW c \in Changes, NEW q \in Lists,
         NEW films \in SUBSET Films, AddPlaylistVideos(c, q, films)
  PROVE  OrderInv'
<1> DEFINE job == [pc |-> "look", list |-> q, left |-> films]
<1>1. job \in Change /\ job.pc = "look" /\ job.list = q
  <2>1. job \in Change1
    BY DEF Change1
  <2> QED
    BY <2>1, ChangesAre
<1>2. /\ change' = [change EXCEPT ![c] = job] /\ UNCHANGED <<playlist, position, gone>>
      /\ change[c].pc = "idle" /\ Mix(q, Meets(c, q))
  BY DEF AddPlaylistVideos
<1> HIDE DEF job
<1>3. \A d \in Changes : change'[d] = IF d = c THEN job ELSE change[d]
  BY <1>1, <1>2, GivesChange DEF OrderInv
<1>4. ~Touches(change[c], q) /\ mixed \subseteq mixed' /\ mixed' \subseteq mixed \cup {q}
  BY <1>2 DEF Touches, Mix
<1>5. ASSUME NEW p \in playlist' \ mixed', p # q
      PROVE  InOrder(change', position'[p], gone', p)
  <2>1. p \in playlist \ mixed /\ ~Touches(job, p) /\ change[c].pc # "move"
    BY <1>1, <1>2, <1>4, <1>5 DEF Touches
  <2> QED
    BY <1>1, <1>2, <2>1, Elsewhere
<1>6. ASSUME q \in playlist' \ mixed'
      PROVE  InOrder(change', position'[q], gone', q)
  <2>1. \A d \in Changes \ {c} : ~Touches(change[d], q)
    BY <1>2, <1>6 DEF Mix, Meets, WorksOn, Touches
  <2>2. q \in playlist \ mixed
    BY <1>2, <1>4, <1>6
  <2>3. InOrder(change, position[q], gone, q)
    BY <2>2 DEF OrderInv
  <2>4. Strict(position'[q], gone')
    BY <1>2, <1>4, <2>1, <2>3, StrictBefore
  <2>5. EndFree(change'[c], position'[q]) /\ HalfMoved(change'[c], position'[q], gone')
    BY <1>1, <1>3 DEF EndFree, HalfMoved
  <2> QED
    BY <1>3, <2>1, <2>4, <2>5, AloneStep
<1>7. OwnRows'
  BY <1>2 DEF OrderInv, OwnRows
<1> QED
  BY <1>5, <1>6, <1>7 DEF OrderInv

LEMMA LookKeepsOrder ==
  ASSUME OrderInv, PlaylistsTypeOK', MovesNumbered', NEW c \in Changes, LookUpFilm(c)
  PROVE  OrderInv'
<1>0. PlaylistsTypeOK
  BY DEF OrderInv
<1> DEFINE q == change[c].list
<1>1. /\ change[c] \in Change1 /\ q \in Lists /\ change[c].pc = "look"
      /\ UNCHANGED <<playlist, position, gone, mixed>>
  BY <1>0, LookUpFilmGives DEF LookUpFilm, Change1
<1>2. PICK job \in Change :
        /\ change' = [change EXCEPT ![c] = job]
        /\ \/ job = NoChange
           \/ job \in Change2 /\ job.list = q /\ job.at = NextPosition(q)
  BY <1>0, LookUpFilmGives
<1>3. \A d \in Changes : change'[d] = IF d = c THEN job ELSE change[d]
  BY <1>0, <1>2, GivesChange
<1>4. ASSUME NEW p \in playlist' \ mixed', p # q
      PROVE  InOrder(change', position'[p], gone', p)
  <2>1. p \in playlist \ mixed /\ ~Touches(job, p) /\ change[c].pc # "move"
    BY <1>1, <1>2, <1>4 DEF Touches, NoChange
  <2> QED
    BY <1>1, <1>2, <2>1, Elsewhere
<1>5. ASSUME q \in playlist' \ mixed'
      PROVE  InOrder(change', position'[q], gone', q)
  <2>1. q \in playlist \ mixed /\ Touches(change[c], q)
    BY <1>1, <1>5 DEF Touches
  <2>2. \A d \in Changes \ {c} : ~Touches(change[d], q)
    BY <2>1, OthersAway
  <2>3. Strict(position'[q], gone')
    <3>1. InOrder(change, position[q], gone, q)
      BY <2>1 DEF OrderInv
    <3> QED
      BY <1>1, <2>2, <3>1, StrictBefore
  <2>4. EndFree(change'[c], position'[q])
    BY <1>0, <1>1, <1>2, <1>3, NextIsHigher DEF EndFree, NoChange
  <2>5. HalfMoved(change'[c], position'[q], gone')
    BY <1>2, <1>3 DEF HalfMoved, NoChange, Change2
  <2> QED
    BY <1>1, <1>3, <2>2, <2>3, <2>4, <2>5, AloneStep
<1>6. OwnRows'
  BY <1>1 DEF OrderInv, OwnRows
<1> QED
  BY <1>4, <1>5, <1>6 DEF OrderInv

LEMMA InsertKeepsOrder ==
  ASSUME OrderInv, PlaylistsTypeOK', MovesNumbered', NEW c \in Changes, InsertFilm(c)
  PROVE  OrderInv'
<1>0. PlaylistsTypeOK
  BY DEF OrderInv
<1> DEFINE q == change[c].list
           f == change[c].film
           n == change[c].at
<1>1. /\ change[c] \in Change2 /\ q \in Lists /\ f \in Films /\ n \in Positions
      /\ change[c].pc = "insert"
      /\ UNCHANGED <<playlist, gone, mixed>>
  BY <1>0, InsertFilmGives DEF InsertFilm, Change2
<1>2. PICK job \in Change :
        /\ change' = [change EXCEPT ![c] = job]
        /\ job = NoChange \/ (job \in Change1 /\ job.list = q)
  BY <1>0, InsertFilmGives
<1>3. \A d \in Changes : change'[d] = IF d = c THEN job ELSE change[d]
  BY <1>0, <1>2, GivesChange
<1>4. /\ \A p \in Lists : p # q => position'[p] = position[p]
      /\ \A v \in Films : v # f => position'[q][v] = position[q][v]
      /\ \/ position'[q] = position[q]
         \/ position'[q][f] = n /\ position[q][f] = Unlisted /\ q \in playlist
  <2>1. CASE position' = position
    BY <2>1
  <2>2. CASE position' # position
    <3>1. /\ position' = [position EXCEPT ![q][f] = n]
          /\ q \in playlist /\ position[q][f] = Unlisted
      BY <1>0, <2>2, InsertFilmGives
    <3> QED
      BY <1>0, <1>1, <3>1 DEF PlaylistsTypeOK
  <2> QED
    BY <2>1, <2>2
<1>5. ASSUME NEW p \in playlist' \ mixed', p # q
      PROVE  InOrder(change', position'[p], gone', p)
  <2>1. p \in playlist \ mixed /\ ~Touches(job, p) /\ change[c].pc # "move" /\ p \in Lists
    BY <1>0, <1>1, <1>2, <1>5 DEF Touches, NoChange, PlaylistsTypeOK
  <2> QED
    BY <1>1, <1>2, <1>4, <1>5, <2>1, Elsewhere
<1>6. ASSUME q \in playlist' \ mixed'
      PROVE  InOrder(change', position'[q], gone', q)
  <2>1. q \in playlist \ mixed /\ Touches(change[c], q)
    BY <1>1, <1>6 DEF Touches
  <2>2. \A d \in Changes \ {c} : ~Touches(change[d], q)
    BY <2>1, OthersAway
  <2>3. InOrder(change, position[q], gone, q)
    BY <2>1 DEF OrderInv
  <2>4. Strict(position[q], gone)
    BY <1>1, <2>2, <2>3, StrictBefore
  <2>5. \A v \in Films : position[q][v] # Unlisted => position[q][v] < n /\ position[q][v] \in Nat
    BY <1>0, <1>1, <2>1, <2>3, PositionAt DEF InOrder, EndFree
  <2>6. n \in Nat
    BY <1>1, PlaylistsAssumption DEF Positions
  <2>7. Strict(position'[q], gone')
    BY <1>1, <1>4, <2>4, <2>5, <2>6 DEF Strict
  <2>8. EndFree(change'[c], position'[q]) /\ HalfMoved(change'[c], position'[q], gone')
    BY <1>2, <1>3 DEF EndFree, HalfMoved, NoChange, Change1
  <2> QED
    BY <1>1, <1>3, <2>2, <2>7, <2>8, AloneStep
<1>7. OwnRows'
  BY <1>0, <1>1, <1>4 DEF OrderInv, OwnRows
<1> QED
  BY <1>5, <1>6, <1>7 DEF OrderInv

LEMMA ReorderKeepsOrder ==
  ASSUME OrderInv, PlaylistsTypeOK', MovesNumbered', NEW c \in Changes, NEW q \in Lists,
         NEW films \in SUBSET Films, ReorderPlaylistVideos(c, q, films)
  PROVE  OrderInv'
<1>0. PlaylistsTypeOK
  BY DEF OrderInv
<1>1. PICK to \in Numberings(films) :
        change' = [change EXCEPT ![c] = [pc |-> "move", list |-> q, left |-> films, to |-> to]]
  BY DEF ReorderPlaylistVideos
<1> DEFINE job == [pc |-> "move", list |-> q, left |-> films, to |-> to]
<1>2. to \in [films -> Positions] /\ \A v, w \in films : to[v] = to[w] => v = w
  BY NumberingsAre
<1>3. /\ job \in Change /\ job.pc = "move" /\ job.list = q /\ job.left = films /\ job.to = to
  <2>1. job \in Change3
    BY <1>2 DEF Change3
  <2> QED
    BY <2>1, ChangesAre
<1>4. /\ change' = [change EXCEPT ![c] = job] /\ UNCHANGED <<playlist, position, gone>>
      /\ change[c].pc = "idle" /\ Mix(q, Meets(c, q) \/ films # Visible(q))
  BY <1>1 DEF ReorderPlaylistVideos
<1> HIDE DEF job
<1>5. \A d \in Changes : change'[d] = IF d = c THEN job ELSE change[d]
  BY <1>0, <1>3, <1>4, GivesChange
<1>6. mixed \subseteq mixed'
  BY <1>4 DEF Mix
<1>7. ASSUME NEW p \in playlist' \ mixed', p # q
      PROVE  InOrder(change', position'[p], gone', p)
  <2>1. p \in playlist \ mixed /\ ~Touches(job, p) /\ change[c].pc # "move"
    BY <1>3, <1>4, <1>6, <1>7 DEF Touches
  <2> QED
    BY <1>3, <1>4, <2>1, Elsewhere
<1>8. ASSUME q \in playlist' \ mixed'
      PROVE  InOrder(change', position'[q], gone', q)
  <2>1. films = Visible(q) /\ \A d \in Changes \ {c} : ~Touches(change[d], q)
    BY <1>4, <1>8, OthersAwayMix
  <2>2. EndFree(change'[c], position'[q])
    BY <1>3, <1>5 DEF EndFree
  <2>3. HalfMoved(change'[c], position'[q], gone')
    BY <1>2, <1>3, <1>4, <1>5, <2>1 DEF HalfMoved, Visible, Rows
  <2>4. Touches(change'[c], q) /\ change'[c].pc = "move"
    BY <1>3, <1>5 DEF Touches
  <2> QED
    BY <1>5, <2>1, <2>2, <2>3, <2>4, AloneStep
<1>9. OwnRows'
  BY <1>4 DEF OrderInv, OwnRows
<1> QED
  BY <1>7, <1>8, <1>9 DEF OrderInv

LEMMA MoveKeepsOrder ==
  ASSUME OrderInv, PlaylistsTypeOK', MovesNumbered', NEW c \in Changes, MoveFilm(c)
  PROVE  OrderInv'
<1>0. PlaylistsTypeOK
  BY DEF OrderInv
<1> DEFINE q == change[c].list
           to == change[c].to
<1>1. /\ change[c] \in Change3 /\ q \in Lists /\ change[c].pc = "move"
      /\ UNCHANGED <<playlist, gone, mixed>>
  BY <1>0, MoveFilmGives DEF MoveFilm, Change3
<1>2. PICK v \in change[c].left, job \in Change :
        /\ position' = IF position[q][v] # Unlisted
                         THEN [position EXCEPT ![q][v] = to[v]] ELSE position
        /\ change' = [change EXCEPT ![c] = job]
        /\ \/ job = NoChange /\ change[c].left = {v}
           \/ /\ job \in Change3 /\ job.list = q /\ job.to = to
              /\ job.left = change[c].left \ {v}
  BY <1>0, MoveFilmGives
<1>3. v \in Films
  BY <1>1 DEF Change3
<1>4. \A d \in Changes : change'[d] = IF d = c THEN job ELSE change[d]
  BY <1>0, <1>2, GivesChange
<1>5. /\ \A p \in Lists : p # q => position'[p] = position[p]
      /\ \A w \in Films : position'[q][w] =
           IF w = v /\ position[q][w] # Unlisted THEN to[v] ELSE position[q][w]
  BY <1>0, <1>1, <1>2, <1>3 DEF PlaylistsTypeOK
<1>6. ASSUME NEW p \in playlist' \ mixed', p # q
      PROVE  InOrder(change', position'[p], gone', p)
  <2>1. p \in playlist \ mixed /\ ~Touches(job, p) /\ ~Touches(change[c], p) /\ p \in Lists
    BY <1>0, <1>1, <1>2, <1>6 DEF Touches, NoChange, PlaylistsTypeOK
  <2> QED
    BY <1>1, <1>2, <1>5, <1>6, <2>1, Elsewhere
<1>7. ASSUME q \in playlist' \ mixed'
      PROVE  InOrder(change', position'[q], gone', q)
  <2>1. q \in playlist \ mixed /\ Touches(change[c], q)
    BY <1>1, <1>7 DEF Touches
  <2>2. \A d \in Changes \ {c} : ~Touches(change[d], q)
    BY <2>1, OthersAway
  <2>3. HalfMoved(change[c], position[q], gone)
    BY <2>1 DEF OrderInv, InOrder
  <2>4. /\ \A u, w \in DOMAIN to : to[u] = to[w] => u = w
        /\ change[c].left \subseteq DOMAIN to
        /\ \A w \in Films \ gone : position[q][w] # Unlisted =>
             w \in DOMAIN to /\ (w \notin change[c].left => position[q][w] = to[w])
    BY <1>1, <2>3 DEF HalfMoved
  <2>5. \A w \in Films \ gone : position'[q][w] # Unlisted =>
          w \in DOMAIN to /\ (w \notin change[c].left \ {v} => position'[q][w] = to[w])
    BY <1>5, <2>4
  <2>6. EndFree(change'[c], position'[q])
    BY <1>2, <1>4 DEF EndFree, NoChange, Change3
  <2>7. CASE job = NoChange /\ change[c].left = {v}
    <3>1. Strict(position'[q], gone')
      BY <1>1, <2>4, <2>5, <2>7 DEF Strict
    <3>2. ~Touches(change'[c], q)
      BY <1>4, <2>7 DEF Touches, NoChange
    <3> QED
      BY <1>1, <1>4, <2>2, <3>1, <3>2, AloneStep
  <2>8. CASE /\ job \in Change3 /\ job.list = q /\ job.to = to
             /\ job.left = change[c].left \ {v}
    <3>1. HalfMoved(change'[c], position'[q], gone')
      BY <1>1, <1>4, <2>4, <2>5, <2>8 DEF HalfMoved
    <3>2. Touches(change'[c], q) /\ change'[c].pc = "move"
      BY <1>4, <2>8 DEF Touches, Change3
    <3> QED
      BY <1>1, <1>4, <2>2, <2>6, <3>1, <3>2, AloneStep
  <2> QED
    BY <1>2, <2>7, <2>8
<1>8. OwnRows'
  BY <1>1, <1>5 DEF OrderInv, OwnRows
<1> QED
  BY <1>6, <1>7, <1>8 DEF OrderInv

LEMMA BreakKeepsOrder ==
  ASSUME OrderInv, PlaylistsTypeOK', MovesNumbered', NEW c \in Changes, BreakChange(c)
  PROVE  OrderInv'
<1>1. /\ change' = [change EXCEPT ![c] = NoChange] /\ UNCHANGED <<playlist, position, gone>>
      /\ mixed \subseteq mixed'
      /\ change[c].pc = "move" => change[c].list \in mixed'
  BY DEF BreakChange
<1>2. NoChange \in Change /\ \A p : ~Touches(NoChange, p)
  BY ChangesAre DEF NoChange, Touches
<1>3. ASSUME NEW p \in playlist' \ mixed'
      PROVE  InOrder(change', position'[p], gone', p)
  <2>1. p \in playlist \ mixed /\ (Touches(change[c], p) => change[c].pc # "move")
    BY <1>1, <1>3 DEF Touches
  <2> QED
    BY <1>1, <1>2, <2>1, Elsewhere
<1> QED
  BY <1>1, <1>3 DEF OrderInv, OwnRows

\* What a playlist shows is in one order, for any playlists, films and requests, unless
\* requests worked on it across each other (AddPlaylistVideos reads the highest position;
\* ReorderPlaylistVideos writes one row at a time).
THEOREM PlaylistsStayInOrder == PlaylistsSpec => []OrderIsStrict
<1>1. ASSUME PlaylistsInit PROVE OrderInv
  BY <1>1, PlaylistsStart DEF PlaylistsInit, OrderInv, OwnRows
<1>2. ASSUME OrderInv, [PlaylistsNext]_playlistVars
      PROVE  OrderInv'
  <2>1. PlaylistsTypeOK' /\ MovesNumbered'
    BY <1>2, PlaylistsStepTypes DEF OrderInv
  <2> QED
    BY <1>2, <2>1, QuietOrder, CreateKeepsOrder, AddKeepsOrder, LookKeepsOrder,
       InsertKeepsOrder, ReorderKeepsOrder, MoveKeepsOrder, BreakKeepsOrder DEF PlaylistsNext
<1> QED
  BY <1>1, <1>2, OrderIs, PTL DEF PlaylistsSpec

-----------------------------------------------------------------------------
(***************************************************************************)
(* Reports (Analytics).  Sums of counts, first: a sum over sets is the     *)
(* number of members of their union when no two of them meet.              *)
(***************************************************************************)
\* The values of a function on a finite set are finitely many.
LEMMA FiniteImage ==
  ASSUME NEW S, IsFiniteSet(S), NEW f, f = [x \in S |-> f[x]]
  PROVE  /\ IsFiniteSet({f[x] : x \in S})
         /\ Cardinality({f[x] : x \in S}) \in Nat
         /\ Cardinality({f[x] : x \in S}) <= Cardinality(S)
<1> DEFINE T == {f[x] : x \in S}
<1>1. f \in Surjection(S, T)
  BY DEF Surjection
<1> HIDE DEF T
<1>2. IsFiniteSet(T) /\ Cardinality(T) <= Cardinality(S)
  BY <1>1, FS_Surjection
<1> QED BY <1>2, FS_CardinalityType DEF T

\* The numbers up to n are n, also when told for one x.
LEMMA PairsOf ==
  ASSUME NEW x, NEW n \in Nat
  PROVE  IsFiniteSet({x} \X (1 .. n)) /\ Cardinality({x} \X (1 .. n)) = n
<1>1. IsFiniteSet({x}) /\ Cardinality({x}) = 1
  BY FS_Singleton
<1>2. IsFiniteSet(1 .. n) /\ Cardinality(1 .. n) = n
  BY FS_Interval
<1> DEFINE A == {x}
           B == 1 .. n
<1>3. IsFiniteSet(A) /\ IsFiniteSet(B) /\ Cardinality(A) = 1 /\ Cardinality(B) = n
  BY <1>1, <1>2
<1> HIDE DEF A, B
<1>4. IsFiniteSet(A \X B)
  BY <1>3, FS_Product
<1>5. Cardinality(A \X B) = Cardinality(A) * Cardinality(B)
  BY <1>3, FS_Product
<1>6. Cardinality(A \X B) = 1 * n
  BY <1>3, <1>5
<1>7. Cardinality(A \X B) = n
  BY <1>6
<1> QED BY <1>4, <1>7 DEF A, B

\* The pairs of a sum are finitely many.
LEMMA SumFinite ==
  ASSUME NEW S, IsFiniteSet(S), NEW f \in [S -> Nat]
  PROVE  /\ IsFiniteSet(UNION {{x} \X (1 .. f[x]) : x \in S})
         /\ SumOf(f) = Cardinality(UNION {{x} \X (1 .. f[x]) : x \in S})
         /\ SumOf(f) \in Nat
<1> DEFINE pairs == [x \in S |-> {x} \X (1 .. f[x])]
<1>1. \A x \in S : IsFiniteSet(pairs[x])
  BY PairsOf
<1>2. \A T \in {pairs[x] : x \in S} : IsFiniteSet(T)
  BY <1>1
<1>3. IsFiniteSet({pairs[x] : x \in S})
  <2>1. pairs = [x \in S |-> pairs[x]]
    OBVIOUS
  <2> HIDE DEF pairs
  <2> QED BY <2>1, FiniteImage
<1>4. IsFiniteSet(UNION {pairs[x] : x \in S})
  <2> HIDE DEF pairs
  <2> QED BY <1>2, <1>3, FS_UNION
<1>5. {pairs[x] : x \in S} = {{x} \X (1 .. f[x]) : x \in S}
  OBVIOUS
<1>6. SumOf(f) = Cardinality(UNION {{x} \X (1 .. f[x]) : x \in S})
  BY DEF SumOf
<1> QED BY <1>4, <1>5, <1>6, FS_CardinalityType

\* A sum of larger terms is no smaller.
LEMMA SumMonotone ==
  ASSUME NEW S, IsFiniteSet(S), NEW f \in [S -> Nat], NEW g \in [S -> Nat],
         \A x \in S : f[x] <= g[x]
  PROVE  SumOf(f) <= SumOf(g)
<1> DEFINE F == UNION {{x} \X (1 .. f[x]) : x \in S}
           G == UNION {{x} \X (1 .. g[x]) : x \in S}
<1>1. F \subseteq G
  <2>1. \A x \in S : 1 .. f[x] \subseteq 1 .. g[x]
    OBVIOUS
  <2>2. SUFFICES ASSUME NEW p \in F PROVE p \in G
    OBVIOUS
  <2>3. PICK x \in S : p \in {x} \X (1 .. f[x])
    OBVIOUS
  <2>4. p \in {x} \X (1 .. g[x])
    BY <2>1, <2>3
  <2> QED BY <2>4
<1>2. IsFiniteSet(G) /\ SumOf(g) = Cardinality(G) /\ SumOf(f) = Cardinality(F)
  BY SumFinite
<1> HIDE DEF F, G
<1> QED BY <1>1, <1>2, FS_Subset

\* No term is larger than the sum.
LEMMA TermOfSum ==
  ASSUME NEW S, IsFiniteSet(S), NEW f \in [S -> Nat], NEW x \in S
  PROVE  f[x] <= SumOf(f)
<1> DEFINE F == UNION {{y} \X (1 .. f[y]) : y \in S}
           X == {x} \X (1 .. f[x])
<1>1. X \subseteq F
  OBVIOUS
<1>2. IsFiniteSet(F) /\ SumOf(f) = Cardinality(F)
  BY SumFinite
<1>3. Cardinality(X) = f[x]
  BY PairsOf
<1> HIDE DEF X, F
<1> QED BY <1>1, <1>2, <1>3, FS_Subset

\* The union of sets has at most as many members as they have together, and as many if no
\* two of them meet.
LEMMA SumOfSets ==
  ASSUME NEW S, IsFiniteSet(S), NEW W, W = [x \in S |-> W[x]],
         \A x \in S : IsFiniteSet(W[x]),
         NEW f, f = [x \in S |-> Cardinality(W[x])]
  PROVE  /\ f \in [S -> Nat]
         /\ IsFiniteSet(UNION {W[x] : x \in S})
         /\ Cardinality(UNION {W[x] : x \in S}) <= SumOf(f)
         /\ (\A x, y \in S : x # y => W[x] \cap W[y] = {}) =>
              Cardinality(UNION {W[x] : x \in S}) = SumOf(f)
<1> DEFINE P == UNION {{x} \X (1 .. f[x]) : x \in S}
           U == UNION {W[x] : x \in S}
           count == [x \in S |-> CHOOSE b : b \in Bijection(1 .. f[x], W[x])]
           member == [p \in P |-> count[p[1]][p[2]]]
<1>1. \A x \in S : f[x] \in Nat /\ ExistsBijection(1 .. f[x], W[x])
  BY FS_CardinalityType
<1>2. f \in [S -> Nat]
  BY <1>1
<1>3. IsFiniteSet(P) /\ SumOf(f) = Cardinality(P)
  BY <1>2, SumFinite
<1>4. \A x \in S : count[x] \in Bijection(1 .. f[x], W[x])
  BY <1>1 DEF ExistsBijection
<1>5. ASSUME NEW x \in S
       PROVE  /\ count[x] \in [1 .. f[x] -> W[x]]
              /\ \A i, j \in 1 .. f[x] : count[x][i] = count[x][j] => i = j
              /\ \A y \in W[x] : \E i \in 1 .. f[x] : count[x][i] = y
  <2> DEFINE g == count[x]
             A == 1 .. f[x]
             B == W[x]
  <2>1. g \in Bijection(A, B)
    BY <1>4
  <2> HIDE DEF g, A, B
  <2>2. g \in Injection(A, B) /\ g \in Surjection(A, B)
    BY <2>1 DEF Bijection
  <2>3. g \in [A -> B]
    BY <2>2 DEF Injection
  <2>4. IsInjective(g)
    BY <2>2 DEF Injection
  <2>5. DOMAIN g = A
    BY <2>3
  <2>6. \A i, j \in A : g[i] = g[j] => i = j
    BY <2>4, <2>5 DEF IsInjective
  <2>7. \A y \in B : \E i \in A : g[i] = y
    BY <2>2 DEF Surjection
  <2> QED BY <2>3, <2>6, <2>7 DEF g, A, B
<1>6. \A p \in P : p = <<p[1], p[2]>> /\ p[1] \in S /\ p[2] \in 1 .. f[p[1]]
  <2> TAKE p \in P
  <2>1. PICK x \in S : p \in {x} \X (1 .. f[x])
    OBVIOUS
  <2> QED BY <2>1
<1>7. \A x \in S : \A i \in 1 .. f[x] : <<x, i>> \in P
  <2> TAKE x \in S
  <2> TAKE i \in 1 .. f[x]
  <2>1. <<x, i>> \in {x} \X (1 .. f[x])
    OBVIOUS
  <2> QED BY <2>1
<1>8. \A p \in P : member[p] = count[p[1]][p[2]]
  OBVIOUS
<1>9. member = [p \in P |-> member[p]]
  OBVIOUS
<1>10. \A y : y \in U <=> \E x \in S : y \in W[x]
  BY ZenonT(30)
<1> HIDE DEF P, U, count, member
<1>11. \A p \in P : member[p] \in W[p[1]]
  <2> TAKE p \in P
  <2> DEFINE x == p[1]
             i == p[2]
  <2>1. x \in S /\ i \in 1 .. f[x] /\ member[p] = count[x][i]
    BY <1>6, <1>8
  <2> HIDE DEF x, i
  <2>2. count[x] \in [1 .. f[x] -> W[x]]
    BY <1>5, <2>1
  <2>3. count[x][i] \in W[x]
    BY <2>1, <2>2
  <2> QED BY <2>1, <2>3 DEF x
<1>12. member \in Surjection(P, U)
  <2>0. \A p \in P : member[p] \in U
    BY <1>6, <1>10, <1>11
  <2>1. member \in [P -> U]
    BY <1>9, <2>0
  <2>2. ASSUME NEW y \in U PROVE \E p \in P : member[p] = y
    <3>1. PICK x \in S : y \in W[x]
      BY <1>10
    <3>2. PICK i \in 1 .. f[x] : count[x][i] = y
      BY <1>5, <3>1
    <3>3. <<x, i>> \in P /\ member[<<x, i>>] = count[x][i]
      BY <1>7, <1>8
    <3> QED BY <3>2, <3>3
  <2> QED BY <2>1, <2>2 DEF Surjection
<1>13. IsFiniteSet(U) /\ Cardinality(U) <= Cardinality(P)
  BY <1>3, <1>12, FS_Surjection
<1>14. ASSUME \A x, y \in S : x # y => W[x] \cap W[y] = {}
       PROVE  Cardinality(U) = Cardinality(P)
  <2>1. ASSUME NEW p \in P, NEW q \in P, member[p] = member[q] PROVE p = q
    <3>1. p[1] = q[1]
      BY <1>6, <1>11, <1>14, <2>1
    <3>2. count[p[1]][p[2]] = count[p[1]][q[2]]
      BY <1>8, <2>1, <3>1
    <3>3. p[2] \in 1 .. f[p[1]] /\ q[2] \in 1 .. f[p[1]] /\ p[1] \in S
      BY <1>6, <3>1
    <3>4. p[2] = q[2]
      BY <1>5, <3>2, <3>3
    <3> QED BY <1>6, <3>1, <3>4
  <2>2. member \in Injection(P, U)
    BY <1>12, <2>1 DEF Injection, Surjection, IsInjective
  <2> QED BY <1>3, <1>12, <2>2, FS_Surjection
<1> QED BY <1>2, <1>3, <1>13, <1>14 DEF U

(***************************************************************************)
(* Reports.                                                                *)
(***************************************************************************)
\* What a query counts.
LEMMA CountsTyped ==
  ASSUME IsFiniteSet(viewed), NEW V, NEW D
  PROVE  /\ IsFiniteSet(Views(V, D)) /\ IsFiniteSet(Watchers(V, D))
         /\ Cardinality(Views(V, D)) \in Nat /\ Cardinality(viewed) \in Nat
         /\ Cardinality(Views(V, D)) <= Cardinality(viewed)
         /\ Cardinality(Watchers(V, D)) \in Nat
         /\ Cardinality(Watchers(V, D)) <= Cardinality(Views(V, D))
<1>1. Views(V, D) \in SUBSET viewed
  BY DEF Views
<1>2. IsFiniteSet(Views(V, D)) /\ Cardinality(Views(V, D)) <= Cardinality(viewed)
  BY <1>1, FS_Subset
<1> DEFINE T == Views(V, D)
           by == [x \in T |-> x.by]
<1>3. Watchers(V, D) = {by[x] : x \in T}
  BY DEF Watchers
<1>4. by = [x \in T |-> by[x]]
  OBVIOUS
<1>5. IsFiniteSet(T)
  BY <1>2
<1> HIDE DEF T, by
<1>6. /\ IsFiniteSet({by[x] : x \in T}) /\ Cardinality({by[x] : x \in T}) \in Nat
      /\ Cardinality({by[x] : x \in T}) <= Cardinality(T)
  BY <1>4, <1>5, FiniteImage
<1> QED BY <1>2, <1>3, <1>6, FS_CardinalityType DEF T

\* A query over more days counts no less.
LEMMA CountsGrow ==
  ASSUME IsFiniteSet(viewed), NEW V, NEW D, NEW E, Views(V, D) \subseteq Views(V, E)
  PROVE  Cardinality(Views(V, D)) <= Cardinality(Views(V, E))
  BY CountsTyped, FS_Subset

\* The days a report lists.
Listed(V, now, days) == IF days = All THEN Exported(V, now, All) ELSE now - (days - 1) .. now

LEMMA DaysFinite ==
  ASSUME NEW V, NEW now \in CalendarDays, NEW days \in Ranges \cup {All}, viewed \subseteq ViewRow
  PROVE  /\ IsFiniteSet(Listed(V, now, days)) /\ Listed(V, now, days) \subseteq Int
         /\ DOMAIN Daily(V, now, days) = Listed(V, now, days)
<1>1. CASE days = All
  <2>1. Exported(V, now, All) \in SUBSET (0 .. LastDay)
    BY DEF Exported, Views, ViewRow, CalendarDays
  <2>2. IsFiniteSet(0 .. LastDay)
    BY FS_Interval, AnalyticsAssumption
  <2>3. IsFiniteSet(Exported(V, now, All))
    BY <2>1, <2>2, FS_Subset
  <2> QED BY <1>1, <2>1, <2>3 DEF Listed, Daily
<1>2. CASE days # All
  <2>1. now \in Int /\ days \in Int
    BY <1>2, AnalyticsAssumption DEF CalendarDays
  <2>2. IsFiniteSet(now - (days - 1) .. now)
    BY <2>1, FS_Interval
  <2> QED BY <1>2, <2>1, <2>2 DEF Listed, Daily
<1> QED BY <1>1, <1>2

\* The sums over the days of a report: the views of all days it lists, and at least their
\* viewers.
LEMMA SummaryOf ==
  ASSUME NEW V, NEW now \in CalendarDays, NEW days \in Ranges \cup {All},
         viewed \subseteq ViewRow, IsFiniteSet(viewed)
  PROVE  LET sum == Summary(Daily(V, now, days), now)
             listed == Listed(V, now, days) IN
         /\ sum.total = Cardinality(Views(V, listed))
         /\ sum.unique \in Nat /\ sum.unique <= sum.total
         /\ Cardinality(Watchers(V, listed)) <= sum.unique
         /\ sum.today = IF now \in listed THEN Cardinality(Views(V, {now})) ELSE 0
<1> DEFINE D == Listed(V, now, days)
           W == [d \in D |-> Views(V, {d})]
           A == [d \in D |-> Watchers(V, {d})]
           f == [d \in D |-> Cardinality(Views(V, {d}))]
           g == [d \in D |-> Cardinality(Watchers(V, {d}))]
           daily == Daily(V, now, days)
           sum == Summary(daily, now)
<1>1. IsFiniteSet(D) /\ DOMAIN daily = D
  BY DaysFinite
<1>2. daily = [d \in D |-> [views |-> Cardinality(Views(V, {d})),
                            unique |-> Cardinality(Watchers(V, {d}))]]
  BY DEF Daily, Listed
<1>3. \A d \in D : IsFiniteSet(W[d]) /\ IsFiniteSet(A[d]) /\ g[d] <= f[d]
  BY CountsTyped
<1>4. W = [d \in D |-> W[d]] /\ f = [d \in D |-> Cardinality(W[d])]
  OBVIOUS
<1>5. A = [d \in D |-> A[d]] /\ g = [d \in D |-> Cardinality(A[d])]
  OBVIOUS
<1>6. UNION {W[d] : d \in D} = Views(V, D)
  BY DEF Views
<1>7. UNION {A[d] : d \in D} = Watchers(V, D)
  BY DEF Watchers, Views
<1>8. \A d, e \in D : d # e => W[d] \cap W[e] = {}
  BY DEF Views
<1>9. [d \in DOMAIN daily |-> daily[d].views] = f /\ [d \in DOMAIN daily |-> daily[d].unique] = g
  BY <1>1, <1>2
<1>10. sum.total = SumOf(f) /\ sum.unique = SumOf(g)
  BY <1>9 DEF Summary
<1>11. sum.today = IF now \in D THEN Cardinality(Views(V, {now})) ELSE 0
  BY <1>1, <1>2 DEF Summary
<1> HIDE DEF D, W, A, f, g, daily, sum
<1>12. f \in [D -> Nat] /\ Cardinality(Views(V, D)) = SumOf(f)
  BY <1>1, <1>3, <1>4, <1>6, <1>8, SumOfSets
<1>13. g \in [D -> Nat] /\ Cardinality(Watchers(V, D)) <= SumOf(g)
  BY <1>1, <1>3, <1>5, <1>7, SumOfSets
<1>14. SumOf(g) <= SumOf(f) /\ SumOf(g) \in Nat
  BY <1>1, <1>3, <1>12, <1>13, SumMonotone, SumFinite
<1> QED BY <1>10, <1>11, <1>12, <1>13, <1>14 DEF D, sum, daily

\* No row is of a day to come.
NoneToCome == \A x \in viewed : x.day <= today

\* What a report lists is what counts, up to its now.
LEMMA ListedAreCounted ==
  ASSUME NEW V, NEW now \in CalendarDays, NEW days \in Ranges \cup {All}, viewed \subseteq ViewRow
  PROVE  Views(V, Listed(V, now, days)) = Views(V, Counted(now, days))
           \/ Views(V, Listed(V, now, days)) = {x \in Views(V, Counted(now, days)) : x.day <= now}
<1>1. \A x \in viewed : x.day \in CalendarDays /\ x.day \in Nat
  BY AnalyticsAssumption DEF ViewRow, CalendarDays
<1>2. CASE days = All
  <2>1. \A x \in viewed : x.day \in Counted(now, days)
    BY <1>1, <1>2 DEF Counted, Since
  <2>2. \A d \in CalendarDays : d \in Counted(now, All)
    BY AnalyticsAssumption DEF Counted, Since, CalendarDays
  <2>3. Views(V, Listed(V, now, days)) = Views(V, Counted(now, days))
    BY <1>1, <1>2, <2>1, <2>2 DEF Listed, Exported, Views
  <2> QED BY <2>3
<1>3. CASE days # All
  <2>1. now \in Int /\ days \in Int
    BY <1>3, AnalyticsAssumption DEF CalendarDays
  <2>2. \A x \in viewed : x.day \in Listed(V, now, days)
                            <=> x.day \in Counted(now, days) /\ x.day <= now
    BY <1>1, <1>3, <2>1 DEF Listed, Counted, Since
  <2>3. Views(V, Listed(V, now, days)) = {x \in Views(V, Counted(now, days)) : x.day <= now}
    BY <2>2 DEF Views
  <2> QED BY <2>3
<1> QED BY <1>2, <1>3

\* Until now no view is later.
LEMMA ListedToday ==
  ASSUME NEW V, NEW days \in Ranges \cup {All}, viewed \subseteq ViewRow,
         today \in CalendarDays, NoneToCome
  PROVE  Views(V, Listed(V, today, days)) = Views(V, Counted(today, days))
<1>1. {x \in Views(V, Counted(today, days)) : x.day <= today} = Views(V, Counted(today, days))
  BY DEF Views, NoneToCome
<1> QED BY <1>1, ListedAreCounted

LEMMA MaxOfOne ==
  ASSUME NEW n \in Nat, n <= 1
  PROVE  Max({1, n}) = 1
<1>1. \A y \in {1, n} : 1 >= y
  OBVIOUS
<1>2. \A x \in {1, n} : (\A y \in {1, n} : x >= y) => x = 1
  OBVIOUS
<1> QED BY <1>1, <1>2 DEF Max

LEMMA Agreement ==
  ASSUME AnalyticsTypeOK, IsFiniteSet(viewed), NoneToCome, IsFiniteSet(milestone)
  PROVE  ReportsAgree
<1> SUFFICES ASSUME NEW days \in Ranges \cup {All}
    PROVE  LET in(v) == Summary(Daily({v}, today, days), today)
               board == Summary(Daily(Watched, today, days), today)
               counted == Counted(today, days)
               total == Cardinality(Views(Watched, counted)) IN
           /\ total = SumOf([v \in Watched |-> in(v).total]) /\ total = board.total
           /\ Cardinality(Watchers(Watched, counted)) <= board.unique
           /\ board.today = Cardinality(Views(Watched, {today}))
           /\ days # All => \A v \in Watched :
                in(v).total + Previous(v, today, days)
                  = Cardinality(Views({v}, Counted(today, 2 * days)))
           /\ \A v \in Watched : Cardinality({x \in milestone : x[1] = v}) <= 1 =>
                TopViews(v, today, days) = in(v).total
  BY DEF ReportsAgree
<1> DEFINE in(v) == Summary(Daily({v}, today, days), today)
           board == Summary(Daily(Watched, today, days), today)
           counted == Counted(today, days)
           W == [v \in Watched |-> Views({v}, counted)]
           f == [v \in Watched |-> in(v).total]
<1>1. today \in CalendarDays /\ viewed \subseteq ViewRow /\ IsFiniteSet(Watched)
  BY AnalyticsAssumption DEF AnalyticsTypeOK
<1>2. \A v \in Watched : in(v).total = Cardinality(Views({v}, counted))
  <2>1. \A V : Summary(Daily(V, today, days), today).total = Cardinality(Views(V, counted))
    <3>1. \A V : Summary(Daily(V, today, days), today).total
                   = Cardinality(Views(V, Listed(V, today, days)))
      BY <1>1, SummaryOf
    <3>2. \A V : Views(V, Listed(V, today, days)) = Views(V, Counted(today, days))
      BY <1>1, ListedToday
    <3> QED BY <3>1, <3>2
  <2> HIDE DEF in, counted
  <2> QED BY <2>1 DEF in, counted
<1>3. /\ board.total = Cardinality(Views(Watched, counted))
      /\ Cardinality(Watchers(Watched, Listed(Watched, today, days))) <= board.unique
      /\ board.today = IF today \in Listed(Watched, today, days)
                       THEN Cardinality(Views(Watched, {today})) ELSE 0
  BY <1>1, SummaryOf, ListedToday
<1>4. Watchers(Watched, Listed(Watched, today, days)) = Watchers(Watched, counted)
  BY <1>1, ListedToday DEF Watchers
<1>5. Cardinality(Views(Watched, counted)) = SumOf(f)
  <2>1. W = [v \in Watched |-> W[v]] /\ f = [v \in Watched |-> Cardinality(W[v])]
    BY <1>2
  <2>2. \A v \in Watched : IsFiniteSet(W[v])
    BY CountsTyped
  <2>3. \A v, w \in Watched : v # w => W[v] \cap W[w] = {}
    BY DEF Views
  <2>4. UNION {W[v] : v \in Watched} = Views(Watched, counted)
    BY DEF Views
  <2> HIDE DEF W, f
  <2> QED BY <1>1, <2>1, <2>2, <2>3, <2>4, SumOfSets
<1>6. today \notin Listed(Watched, today, days) => Cardinality(Views(Watched, {today})) = 0
  <2>1. SUFFICES ASSUME today \notin Listed(Watched, today, days)
                 PROVE  Views(Watched, {today}) = {}
    BY FS_EmptySet
  <2>2. CASE days = All
    <3>1. \A d \in CalendarDays : d \in Counted(today, All)
      BY <1>1, AnalyticsAssumption DEF Counted, Since, CalendarDays
    <3> QED BY <1>1, <2>1, <2>2, <3>1 DEF Listed, Exported, Views
  <2>3. CASE days # All
    <3>1. days \in Nat \ {0} /\ today \in Int
      BY <1>1, <2>3, AnalyticsAssumption DEF CalendarDays
    <3> QED BY <2>1, <2>3, <3>1 DEF Listed
  <2> QED BY <2>2, <2>3
<1>7. ASSUME days # All, NEW v \in Watched
      PROVE  in(v).total + Previous(v, today, days)
               = Cardinality(Views({v}, Counted(today, 2 * days)))
  <2> DEFINE since == Since(today, days)
             A == Views({v}, counted)
             B == Views({v}, since - days .. since - 1)
  <2>1. days \in Nat \ {0} /\ today \in Int /\ 2 * days # All /\ 2 * days \in Int
    BY <1>1, <1>7, AnalyticsAssumption DEF CalendarDays, All
  <2>2. since = today - (days - 1) /\ Since(today, 2 * days) = since - days
    BY <1>7, <2>1 DEF Since
  <2>3. \A x \in viewed : x.day \in CalendarDays /\ x.day \in Int
    BY <1>1, AnalyticsAssumption DEF ViewRow, CalendarDays
  <2>4. since \in Int
    BY <2>1, <2>2
  <2>5. \A x \in viewed : /\ x.day \in counted <=> x.day >= since
                          /\ x.day \in Counted(today, 2 * days) <=> x.day >= since - days
    BY <2>2, <2>3 DEF Counted
  <2>6. \A x \in viewed : x.day \in since - days .. since - 1
                            <=> x.day >= since - days /\ ~(x.day >= since)
    <3> HIDE DEF since
    <3> QED BY <2>1, <2>3, <2>4
  <2>7. A \cup B = Views({v}, Counted(today, 2 * days)) /\ A \cap B = {}
    <3>1. since \in Int /\ days \in Nat
      BY <2>1, <2>4
    <3>2. \A x \in viewed : x.day >= since => x.day >= since - days
      <4> HIDE DEF since
      <4> QED BY <2>3, <3>1
    <3> HIDE DEF since
    <3> QED BY <2>5, <2>6, <3>2 DEF Views
  <2>8. IsFiniteSet(A) /\ IsFiniteSet(B) /\ Cardinality(A) \in Nat /\ Cardinality(B) \in Nat
    BY CountsTyped
  <2>9. Cardinality(A \cup B) = Cardinality(A) + Cardinality(B) - Cardinality(A \cap B)
    <3> HIDE DEF A, B
    <3> QED BY <2>8, FS_Union
  <2>10. Cardinality(A \cap B) = 0
    BY <2>7, FS_EmptySet
  <2>11. Previous(v, today, days) = Cardinality(B) /\ in(v).total = Cardinality(A)
    BY <1>2 DEF Previous
  <2>12. Cardinality(A \cup B) = Cardinality(Views({v}, Counted(today, 2 * days)))
    BY <2>7
  <2> HIDE DEF A, B, in
  <2> QED BY <2>8, <2>9, <2>10, <2>11, <2>12
<1>8. ASSUME NEW v \in Watched, Cardinality({x \in milestone : x[1] = v}) <= 1
      PROVE  TopViews(v, today, days) = in(v).total
  <2> DEFINE n == Cardinality({x \in milestone : x[1] = v})
  <2>1. n \in Nat
    <3>1. {x \in milestone : x[1] = v} \in SUBSET milestone
      OBVIOUS
    <3> QED BY <3>1, FS_Subset, FS_CardinalityType
  <2>2. Max({1, n}) = 1
    <3> HIDE DEF n
    <3> QED BY <1>8, <2>1, MaxOfOne DEF n
  <2>3. TopViews(v, today, days) = Cardinality(Views({v}, counted)) * 1
    BY <2>2 DEF TopViews
  <2>4. Cardinality(Views({v}, counted)) \in Nat
    BY CountsTyped
  <2> QED BY <1>2, <2>3, <2>4
<1> QED BY <1>3, <1>4, <1>5, <1>6, <1>7, <1>8

\* The tables hold what there was room for.
RowsFit ==
  /\ IsFiniteSet(viewed) /\ IsFiniteSet(clicked) /\ IsFiniteSet(milestone)
  /\ Cardinality(viewed) <= MaxRows /\ Cardinality(clicked) <= MaxRows
  /\ Cardinality(milestone) <= MaxRows

\* The views a report is to show are still there when it reads its days, and its total
\* are views that are still there.
ReportsWait ==
  report # NoReport =>
    /\ report.now <= today
    /\ report.pc \in {"totals", "daily"} =>
         report.floor <= Cardinality({x \in Views(report.of, Counted(report.now, report.days)) :
                                        x.day <= report.now})
    /\ report.pc = "daily" /\ report.kind = "board" =>
         report.total <= Cardinality(Views(report.of, Counted(report.now, report.days)))

ReportsInv == AnalyticsTypeOK /\ RowsFit /\ NoneToCome /\ ReportsWait /\ ReportsEveryView

LEMMA ReportsStart == AnalyticsInit => ReportsInv
<1> SUFFICES ASSUME AnalyticsInit PROVE ReportsInv
  OBVIOUS
<1>1. IsFiniteSet({}) /\ Cardinality({}) = 0
  BY FS_EmptySet
<1>2. MaxRows \in Nat /\ 0 \in CalendarDays
  BY AnalyticsAssumption DEF CalendarDays
<1>3. [v \in Watched |-> 0] \in [Watched -> 0 .. MaxRows]
  BY <1>2
<1>4. AnalyticsTypeOK
  BY <1>2, <1>3 DEF AnalyticsInit, AnalyticsTypeOK
<1>5. RowsFit /\ NoneToCome /\ ReportsWait /\ ReportsEveryView
  BY <1>1, <1>2 DEF AnalyticsInit, RowsFit, NoneToCome, ReportsWait, ReportsEveryView
<1> QED BY <1>4, <1>5 DEF ReportsInv

\* Where there is room, there is for one more row of each table.
LEMMA RoomForOne ==
  ASSUME AnalyticsTypeOK, RowsFit, Room
  PROVE  /\ Cardinality(viewed) \in Nat /\ Cardinality(viewed) < MaxRows
         /\ Cardinality(clicked) \in Nat /\ Cardinality(clicked) < MaxRows
         /\ Cardinality(milestone) \in Nat /\ Cardinality(milestone) < MaxRows
         /\ \A v \in Watched : engaged[v] < MaxRows
<1>1. /\ Cardinality(viewed) \in Nat /\ Cardinality(clicked) \in Nat
      /\ Cardinality(milestone) \in Nat
  BY FS_CardinalityType DEF RowsFit
<1>2. IsFiniteSet(Watched) /\ MaxRows \in Nat
  BY AnalyticsAssumption
<1>3. engaged \in [Watched -> Nat]
  BY <1>2 DEF AnalyticsTypeOK
<1>4. SumOf(engaged) \in Nat
  BY <1>2, <1>3, SumFinite
<1>5. Cardinality(viewed) + Cardinality(clicked) + Cardinality(milestone) + SumOf(engaged) < MaxRows
  BY DEF Room
<1>6. \A v \in Watched : engaged[v] <= SumOf(engaged) /\ engaged[v] \in Nat
  BY <1>2, <1>3, TermOfSum
<1> QED BY <1>1, <1>2, <1>4, <1>5, <1>6

\* One more row: what was counted is counted still.
LEMMA OneMore ==
  ASSUME NEW T, NEW x, IsFiniteSet(T)
  PROVE  /\ IsFiniteSet(T \cup {x})
         /\ Cardinality(T \cup {x}) <= Cardinality(T) + 1 /\ Cardinality(T \cup {x}) \in Nat
<1>1. IsFiniteSet(T \cup {x}) /\ Cardinality(T) \in Nat /\ Cardinality(T \cup {x}) \in Nat
  BY FS_AddElement, FS_CardinalityType
<1>2. \/ Cardinality(T \cup {x}) = Cardinality(T) + 1
      \/ Cardinality(T \cup {x}) = Cardinality(T)
  BY FS_AddElement
<1> QED BY <1>1, <1>2

\* While rows are added the invariant of the reports holds on.
LEMMA ViewsAdded ==
  ASSUME AnalyticsTypeOK, ReportsWait, ReportsEveryView, IsFiniteSet(viewed), IsFiniteSet(viewed'),
         viewed \subseteq viewed', UNCHANGED <<today, report>>
  PROVE  ReportsWait' /\ ReportsEveryView'
<1> SUFFICES ASSUME report # NoReport
             PROVE  ReportsWait' /\ ReportsEveryView'
  BY DEF ReportsWait, ReportsEveryView
<1> DEFINE counted == Counted(report.now, report.days)
           before == Views(report.of, counted)
           after == {x \in viewed' : x.video \in report.of /\ x.day \in counted}
           floor == {x \in before : x.day <= report.now}
           floor2 == {x \in after : x.day <= report.now}
<1>1. Views(report.of, Counted(report.now, report.days))' = after
  BY DEF Views, Counted, Since
<1>2. before \subseteq after /\ floor \subseteq floor2 /\ after \subseteq viewed' /\ floor2 \subseteq after
  BY DEF Views
<1>3. report \in Report
  BY DEF AnalyticsTypeOK
<1>4. report.floor \in Nat /\ report.total \in Nat /\ report.listed \in Nat
  BY <1>3, AnalyticsAssumption DEF Report
<1> HIDE DEF before, after, floor, floor2
<1>5. IsFiniteSet(after) /\ Cardinality(after) \in Nat
  BY <1>2, FS_Subset, FS_CardinalityType
<1>6. IsFiniteSet(floor2) /\ Cardinality(floor2) \in Nat
  BY <1>2, <1>5, FS_Subset, FS_CardinalityType
<1>7. /\ Cardinality(before) <= Cardinality(after) /\ Cardinality(before) \in Nat
      /\ Cardinality(floor) <= Cardinality(floor2) /\ Cardinality(floor) \in Nat
  BY <1>2, <1>5, <1>6, FS_Subset, FS_CardinalityType
<1>8. ReportsWait'
  <2>1. report.pc \in {"totals", "daily"} => report.floor <= Cardinality(floor)
    BY DEF ReportsWait, floor, before
  <2>2. report.pc \in {"totals", "daily"} => report.floor <= Cardinality(floor2)
    BY <1>4, <1>6, <1>7, <2>1
  <2>3. report.pc = "daily" /\ report.kind = "board" => report.total <= Cardinality(before)
    BY DEF ReportsWait, before
  <2>4. report.pc = "daily" /\ report.kind = "board" => report.total <= Cardinality(after)
    BY <1>4, <1>5, <1>7, <2>3
  <2> QED BY <1>1, <2>2, <2>4 DEF ReportsWait, floor2
<1>9. ReportsEveryView'
  <2>1. report.pc \in {"rest", "done"} => report.listed <= Cardinality(before)
    BY DEF ReportsEveryView, before
  <2>2. report.pc \in {"rest", "done"} => report.listed <= Cardinality(after)
    BY <1>4, <1>5, <1>7, <2>1
  <2> QED BY <1>1, <2>2 DEF ReportsEveryView
<1> QED BY <1>8, <1>9

\* What a change of a row of each table does to its type.
LEMMA InsertViewKeeps ==
  ASSUME ReportsInv, NEW v \in Watched, NEW a \in Audience, InsertView(v, a)
  PROVE  ReportsInv'
<1> DEFINE alike == {x \in Views({v}, {today}) : x.by = a}
           new == [video |-> v, by |-> a, day |-> today, nth |-> Cardinality(alike) + 1]
<1>1. /\ AnalyticsTypeOK /\ RowsFit /\ NoneToCome /\ ReportsWait /\ ReportsEveryView
      /\ Room /\ viewed' = viewed \cup {new}
      /\ UNCHANGED <<today, clicked, milestone, engaged, removed, report>>
  BY DEF ReportsInv, InsertView
<1>2. /\ IsFiniteSet(viewed) /\ Cardinality(viewed) \in Nat /\ Cardinality(viewed) < MaxRows
      /\ MaxRows \in Nat
  BY <1>1, RoomForOne, AnalyticsAssumption DEF RowsFit
<1>3. Cardinality(alike) \in Nat /\ Cardinality(alike) <= Cardinality(viewed)
  <2>1. alike \in SUBSET viewed
    BY DEF Views
  <2> HIDE DEF alike
  <2> QED BY <1>2, <2>1, FS_Subset, FS_CardinalityType
<1>4. new \in ViewRow /\ new.day = today
  BY <1>1, <1>2, <1>3 DEF ViewRow, AnalyticsTypeOK
<1> HIDE DEF new
<1>5. /\ IsFiniteSet(viewed') /\ Cardinality(viewed') <= Cardinality(viewed) + 1
      /\ Cardinality(viewed') \in Nat
  BY <1>1, <1>2, OneMore
<1>6. AnalyticsTypeOK'
  BY <1>1, <1>4 DEF AnalyticsTypeOK
<1>7. RowsFit'
  BY <1>1, <1>2, <1>5 DEF RowsFit
<1>8. NoneToCome'
  BY <1>1, <1>4 DEF NoneToCome, AnalyticsTypeOK, CalendarDays
<1>9. ReportsWait' /\ ReportsEveryView'
  BY <1>1, <1>2, <1>5, ViewsAdded
<1> QED BY <1>6, <1>7, <1>8, <1>9 DEF ReportsInv

LEMMA RecordCTAClickKeeps ==
  ASSUME ReportsInv, NEW v \in Watched, RecordCTAClick(v)
  PROVE  ReportsInv'
<1> DEFINE new == [video |-> v, day |-> today, nth |-> Cardinality(Clicks({v}, {today})) + 1]
<1>1. /\ AnalyticsTypeOK /\ RowsFit /\ NoneToCome /\ ReportsWait /\ ReportsEveryView
      /\ Room /\ clicked' = clicked \cup {new}
      /\ UNCHANGED <<today, viewed, milestone, engaged, removed, report>>
  BY DEF ReportsInv, RecordCTAClick
<1>2. /\ IsFiniteSet(clicked) /\ Cardinality(clicked) \in Nat /\ Cardinality(clicked) < MaxRows
      /\ MaxRows \in Nat
  BY <1>1, RoomForOne, AnalyticsAssumption DEF RowsFit
<1>3. /\ Cardinality(Clicks({v}, {today})) \in Nat
      /\ Cardinality(Clicks({v}, {today})) <= Cardinality(clicked)
  <2>1. Clicks({v}, {today}) \in SUBSET clicked
    BY DEF Clicks
  <2> QED BY <1>2, <2>1, FS_Subset, FS_CardinalityType
<1>4. new \in ClickRow
  <2>1. Cardinality(Clicks({v}, {today})) + 1 \in 1 .. MaxRows
    BY <1>2, <1>3
  <2>2. today \in CalendarDays
    BY <1>1 DEF AnalyticsTypeOK
  <2> QED BY <2>1, <2>2 DEF ClickRow
<1> HIDE DEF new
<1>5. /\ IsFiniteSet(clicked') /\ Cardinality(clicked') <= Cardinality(clicked) + 1
      /\ Cardinality(clicked') \in Nat
  BY <1>1, <1>2, OneMore
<1>6. AnalyticsTypeOK'
  BY <1>1, <1>4 DEF AnalyticsTypeOK
<1>7. RowsFit'
  BY <1>1, <1>2, <1>5 DEF RowsFit
<1>8. NoneToCome' /\ ReportsWait' /\ ReportsEveryView'
  BY <1>1, ViewsAdded DEF NoneToCome, RowsFit
<1> QED BY <1>6, <1>7, <1>8 DEF ReportsInv

LEMMA RecordMilestoneKeeps ==
  ASSUME ReportsInv, NEW v \in Watched, NEW a \in Audience, NEW m \in Milestones,
         RecordMilestone(v, a, m)
  PROVE  ReportsInv'
<1>1. /\ AnalyticsTypeOK /\ RowsFit /\ NoneToCome /\ ReportsWait /\ ReportsEveryView
      /\ Room /\ milestone' = milestone \cup {<<v, a, m>>}
      /\ UNCHANGED <<today, viewed, clicked, engaged, removed, report>>
  BY DEF ReportsInv, RecordMilestone
<1>2. /\ IsFiniteSet(milestone) /\ Cardinality(milestone) \in Nat
      /\ Cardinality(milestone) < MaxRows /\ MaxRows \in Nat
  BY <1>1, RoomForOne, AnalyticsAssumption DEF RowsFit
<1>3. /\ IsFiniteSet(milestone') /\ Cardinality(milestone') <= Cardinality(milestone) + 1
      /\ Cardinality(milestone') \in Nat
  BY <1>1, <1>2, OneMore
<1>4. AnalyticsTypeOK'
  BY <1>1 DEF AnalyticsTypeOK
<1>5. RowsFit'
  BY <1>1, <1>2, <1>3 DEF RowsFit
<1>6. NoneToCome' /\ ReportsWait' /\ ReportsEveryView'
  BY <1>1, ViewsAdded DEF NoneToCome, RowsFit
<1> QED BY <1>4, <1>5, <1>6 DEF ReportsInv

LEMMA RecordSegmentsKeeps ==
  ASSUME ReportsInv, NEW v \in Watched, RecordSegments(v)
  PROVE  ReportsInv'
<1>1. /\ AnalyticsTypeOK /\ RowsFit /\ NoneToCome /\ ReportsWait /\ ReportsEveryView
      /\ Room /\ engaged' = [engaged EXCEPT ![v] = @ + 1]
      /\ UNCHANGED <<today, viewed, clicked, milestone, removed, report>>
  BY DEF ReportsInv, RecordSegments
<1>2. engaged[v] < MaxRows /\ MaxRows \in Nat
  BY <1>1, RoomForOne, AnalyticsAssumption
<1>3. AnalyticsTypeOK'
  BY <1>1, <1>2 DEF AnalyticsTypeOK
<1>4. RowsFit' /\ NoneToCome' /\ ReportsWait' /\ ReportsEveryView'
  BY <1>1, ViewsAdded DEF NoneToCome, RowsFit
<1> QED BY <1>3, <1>4 DEF ReportsInv

\* Past midnight no row is of a later day, and a report keeps its now.
LEMMA MidnightKeeps ==
  ASSUME ReportsInv, Midnight
  PROVE  ReportsInv'
<1>1. /\ AnalyticsTypeOK /\ RowsFit /\ NoneToCome /\ ReportsWait /\ ReportsEveryView
      /\ today < LastDay /\ today' = today + 1 /\ today \in Nat
      /\ UNCHANGED <<viewed, clicked, milestone, engaged, removed, report>>
  BY AnalyticsAssumption DEF ReportsInv, Midnight, AnalyticsTypeOK, CalendarDays
<1>2. report # NoReport => report.now \in Nat
  BY <1>1, AnalyticsAssumption DEF AnalyticsTypeOK, Report, CalendarDays
<1>3. AnalyticsTypeOK'
  BY <1>1, AnalyticsAssumption DEF AnalyticsTypeOK, CalendarDays
<1>4. \A x \in viewed : x.day \in Nat
  BY <1>1, AnalyticsAssumption DEF AnalyticsTypeOK, ViewRow, CalendarDays
<1>5. RowsFit' /\ NoneToCome'
  BY <1>1, <1>4 DEF RowsFit, NoneToCome
<1>6. ReportsWait'
  BY <1>1, <1>2 DEF ReportsWait, Views, Counted, Since
<1>7. ReportsEveryView'
  <2>1. report # NoReport => (today' # report.now \/ ~(report.now <= today))
    BY <1>1, <1>2
  <2> QED BY <1>1, <2>1 DEF ReportsEveryView, ReportsWait, Views, Counted, Since
<1> QED BY <1>3, <1>5, <1>6, <1>7 DEF ReportsInv

LEMMA RemoveVideoKeeps ==
  ASSUME ReportsInv, NEW v \in Watched, RemoveVideo(v)
  PROVE  ReportsInv'
<1>1. /\ AnalyticsTypeOK /\ RowsFit /\ NoneToCome /\ ReportsWait /\ ReportsEveryView
      /\ removed' = removed \cup {v}
      /\ UNCHANGED <<today, viewed, clicked, milestone, engaged, report>>
  BY DEF ReportsInv, RemoveVideo
<1>2. AnalyticsTypeOK'
  BY <1>1 DEF AnalyticsTypeOK
<1>3. RowsFit' /\ NoneToCome' /\ ReportsWait' /\ ReportsEveryView'
  BY <1>1, ViewsAdded DEF NoneToCome, RowsFit
<1> QED BY <1>2, <1>3 DEF ReportsInv

\* A query leaves the rows alone.
LEMMA AnsweredKeeps ==
  ASSUME ReportsInv, NEW r, report' = r, r = NoReport \/ r \in Report,
         UNCHANGED <<today, viewed, clicked, milestone, engaged, removed>>,
         r # NoReport =>
           /\ r.now <= today
           /\ r.pc \in {"totals", "daily"} =>
                r.floor <= Cardinality({x \in Views(r.of, Counted(r.now, r.days)) : x.day <= r.now})
           /\ r.pc = "daily" /\ r.kind = "board" =>
                r.total <= Cardinality(Views(r.of, Counted(r.now, r.days)))
           /\ r.pc \in {"rest", "done"} =>
                /\ r.floor <= r.listed
                /\ r.listed <= Cardinality(Views(r.of, Counted(r.now, r.days)))
                /\ today = r.now /\ r.kind = "board" => r.total <= r.listed
  PROVE  ReportsInv'
<1>1. AnalyticsTypeOK'
  BY DEF ReportsInv, AnalyticsTypeOK
<1>2. RowsFit' /\ NoneToCome'
  BY DEF ReportsInv, RowsFit, NoneToCome
<1>3. ReportsWait' /\ ReportsEveryView'
  BY DEF ReportsWait, ReportsEveryView, Views, Counted, Since
<1> QED BY <1>1, <1>2, <1>3 DEF ReportsInv

\* What is counted fits where the reports keep it.
LEMMA CountsFit ==
  ASSUME ReportsInv, NEW V, NEW D
  PROVE  /\ Cardinality(Views(V, D)) \in 0 .. MaxRows
         /\ Cardinality(Watchers(V, D)) \in 0 .. MaxRows
<1>1. IsFiniteSet(viewed) /\ Cardinality(viewed) <= MaxRows /\ MaxRows \in Nat
  BY AnalyticsAssumption DEF ReportsInv, RowsFit
<1> QED BY <1>1, CountsTyped

LEMMA PrepareKeeps ==
  ASSUME ReportsInv, NEW kind \in {"video", "board"}, NEW V \in SUBSET Watched,
         NEW days \in Ranges \cup {All}, NEW pc \in {"totals", "daily"}, Prepare(kind, V, days, pc)
  PROVE  ReportsInv'
<1> DEFINE floor == Cardinality(Views(V, Counted(today, days)))
           r == [kind |-> kind, of |-> V, days |-> days, now |-> today, pc |-> pc,
                 total |-> 0, unique |-> 0, listed |-> 0, rest |-> 0, floor |-> floor]
<1>1. floor \in 0 .. MaxRows
  BY CountsFit
<1>2. today \in CalendarDays /\ today \in Int /\ MaxRows \in Nat /\ 0 \in 0 .. MaxRows * MaxRows
  BY AnalyticsAssumption DEF ReportsInv, AnalyticsTypeOK, CalendarDays
<1>3. r \in Report
  <2> HIDE DEF floor
  <2> QED BY <1>1, <1>2 DEF Report
<1>4. {x \in Views(r.of, Counted(r.now, r.days)) : x.day <= r.now}
        = Views(V, Counted(today, days))
  BY DEF ReportsInv, NoneToCome, Views
<1>5. /\ r.now = today /\ r.pc \in {"totals", "daily"} /\ r.floor = floor /\ r.total = 0
      /\ r.of = V /\ r.days = days
  OBVIOUS
<1>6. /\ report' = r
      /\ UNCHANGED <<today, viewed, clicked, milestone, engaged, removed>>
  BY DEF Prepare
<1> HIDE DEF r
<1>7. /\ r.now <= today
      /\ r.pc \in {"totals", "daily"} =>
           r.floor <= Cardinality({x \in Views(r.of, Counted(r.now, r.days)) : x.day <= r.now})
      /\ r.pc = "daily" /\ r.kind = "board" =>
           r.total <= Cardinality(Views(r.of, Counted(r.now, r.days)))
  <2>1. r.now <= today
    BY <1>2, <1>5
  <2>2. r.floor <= Cardinality({x \in Views(r.of, Counted(r.now, r.days)) : x.day <= r.now})
    <3>1. r.floor = Cardinality(Views(V, Counted(today, days))) /\ r.floor \in Int
      BY <1>1, <1>2, <1>5
    <3>2. Cardinality(Views(V, Counted(today, days))) <= Cardinality(Views(V, Counted(today, days)))
      BY <3>1
    <3> QED BY <1>4, <3>1, <3>2
  <2>3. r.total <= Cardinality(Views(r.of, Counted(r.now, r.days)))
    <3>1. Cardinality(Views(r.of, Counted(r.now, r.days))) = floor
      BY <1>5
    <3> QED BY <1>1, <1>2, <1>5, <3>1
  <2> QED BY <2>1, <2>2, <2>3
<1> QED BY <1>3, <1>5, <1>6, <1>7, AnsweredKeeps

LEMMA ReadTotalsKeeps ==
  ASSUME ReportsInv, ReadTotals
  PROVE  ReportsInv'
<1> DEFINE counted == Counted(report.now, report.days)
           total == Cardinality(Views(report.of, counted))
           unique == Cardinality(Watchers(report.of, counted))
           r == [report EXCEPT !.pc = "daily", !.total = total, !.unique = unique]
<1>1. /\ report \in Report /\ report.pc = "totals" /\ report' = r
      /\ UNCHANGED <<today, viewed, clicked, milestone, engaged, removed>>
  BY DEF ReadTotals, Answered, ReportsInv, AnalyticsTypeOK
<1>2. total \in 0 .. MaxRows /\ unique \in 0 .. MaxRows
  BY CountsFit
<1>3. /\ r \in Report /\ r.pc = "daily" /\ r.total = total /\ r.floor = report.floor
      /\ r.of = report.of /\ r.now = report.now /\ r.days = report.days
  <2> HIDE DEF total, unique
  <2> QED BY <1>1, <1>2 DEF Report
<1>4. /\ report.now <= today
      /\ report.floor <= Cardinality({x \in Views(report.of, counted) : x.day <= report.now})
  BY <1>1, NothingAsked DEF ReportsInv, ReportsWait
<1>5. total <= Cardinality(Views(report.of, counted))
  BY <1>2, AnalyticsAssumption
<1> HIDE DEF r
<1> QED BY <1>1, <1>3, <1>4, <1>5, AnsweredKeeps

LEMMA ReadDailyKeeps ==
  ASSUME ReportsInv, ReadDaily
  PROVE  ReportsInv'
<1> DEFINE counted == Counted(report.now, report.days)
           days == Listed(report.of, report.now, report.days)
           seen == Views(report.of, counted)
           past == {x \in seen : x.day <= report.now}
           sum == Summary(Daily(report.of, report.now, report.days), report.now)
           r == IF report.kind = "board"
                THEN [report EXCEPT !.pc = "rest", !.listed = sum.total]
                ELSE [report EXCEPT !.pc = "rest", !.listed = sum.total,
                                    !.total = sum.total, !.unique = sum.unique]
<1>1. /\ report \in Report /\ report # NoReport /\ report.pc = "daily" /\ report' = r
      /\ UNCHANGED <<today, viewed, clicked, milestone, engaged, removed>>
  BY DEF ReadDaily, Answered, ReportsInv, AnalyticsTypeOK
<1>2. /\ report.now \in CalendarDays /\ report.days \in Ranges \cup {All}
      /\ viewed \subseteq ViewRow /\ IsFiniteSet(viewed) /\ MaxRows \in Nat
  BY <1>1, AnalyticsAssumption DEF Report, ReportsInv, AnalyticsTypeOK, RowsFit
<1>3. /\ sum.total = Cardinality(Views(report.of, days))
      /\ sum.unique \in Nat /\ sum.unique <= sum.total
  <2> DEFINE of == report.of
             now == report.now
             ago == report.days
  <2>1. now \in CalendarDays /\ ago \in Ranges \cup {All}
    BY <1>2
  <2> HIDE DEF of, now, ago
  <2> DEFINE s == Summary(Daily(of, now, ago), now)
             some == Listed(of, now, ago)
  <2>2. /\ s.total = Cardinality(Views(of, some))
        /\ s.unique \in Nat /\ s.unique <= s.total
    BY <1>2, <2>1, SummaryOf
  <2> QED BY <2>2 DEF of, now, ago
<1>4. sum.total \in 0 .. MaxRows /\ sum.unique \in 0 .. MaxRows
  <2>1. sum.total \in 0 .. MaxRows
    BY <1>3, CountsFit
  <2> HIDE DEF sum
  <2> QED BY <1>2, <1>3, <2>1
<1>5. Views(report.of, days) = seen \/ Views(report.of, days) = past
  BY <1>2, ListedAreCounted
<1>6. /\ IsFiniteSet(seen) /\ Cardinality(seen) \in Nat /\ Cardinality(past) \in Nat
      /\ Cardinality(past) <= Cardinality(seen)
  <2>1. IsFiniteSet(seen)
    BY <1>2, CountsTyped
  <2>2. past \in SUBSET seen
    OBVIOUS
  <2> HIDE DEF seen, past
  <2> QED BY <2>1, <2>2, FS_Subset, FS_CardinalityType
<1>7. report.now <= today /\ report.floor <= Cardinality(past)
      /\ (report.kind = "board" => report.total <= Cardinality(seen))
  BY <1>1 DEF ReportsInv, ReportsWait
<1>8. today = report.now => past = seen
  BY DEF ReportsInv, NoneToCome, Views
<1>9. report.floor \in Nat /\ report.total \in Nat /\ report.kind \in {"video", "board"}
  BY <1>1, <1>2 DEF Report
<1>10. /\ r \in Report /\ r.pc = "rest" /\ r.listed = sum.total /\ r.floor = report.floor
       /\ r.of = report.of /\ r.now = report.now /\ r.days = report.days
       /\ r.kind = report.kind /\ (r.kind = "board" => r.total = report.total)
  <2> HIDE DEF sum
  <2>1. CASE report.kind = "board"
    BY <1>1, <1>4, <2>1 DEF Report
  <2>2. CASE report.kind # "board"
    BY <1>1, <1>4, <2>2 DEF Report
  <2> QED BY <2>1, <2>2
<1> HIDE DEF sum, r, past, seen
<1>11. /\ report.floor <= sum.total /\ sum.total <= Cardinality(seen)
       /\ today = report.now /\ report.kind = "board" => report.total <= sum.total
  BY <1>3, <1>5, <1>6, <1>7, <1>8, <1>9
<1>12. /\ r.floor <= r.listed
       /\ r.listed <= Cardinality(Views(r.of, Counted(r.now, r.days)))
       /\ today = r.now /\ r.kind = "board" => r.total <= r.listed
  BY <1>10, <1>11 DEF seen
<1> QED BY <1>1, <1>7, <1>10, <1>12, AnsweredKeeps

\* A product of two counts, of views and of milestones, is bounded by the square.
LEMMA ProductFits ==
  ASSUME NEW n \in Nat, NEW a \in 0 .. n, NEW b \in 0 .. n
  PROVE  a * b \in 0 .. n * n
<1>1. a * b <= a * n
  BY Z3
<1>2. a * n <= n * n
  BY Z3
<1>3. a * b \in Int /\ 0 <= a * b /\ a * n \in Int /\ n * n \in Int
  BY Z3
<1> QED BY <1>1, <1>2, <1>3

LEMMA TopViewsFit ==
  ASSUME ReportsInv, NEW v, NEW now, NEW days
  PROVE  TopViews(v, now, days) \in 0 .. MaxRows * MaxRows
<1> DEFINE reached == {x \in milestone : x[1] = v}
           n == Cardinality(reached)
           a == Cardinality(Views({v}, Counted(now, days)))
           b == Max({1, n})
<1>1. a \in 0 .. MaxRows /\ MaxRows \in Nat \ {0}
  BY CountsFit, AnalyticsAssumption
<1>2. n \in 0 .. MaxRows
  <2>1. IsFiniteSet(milestone) /\ Cardinality(milestone) <= MaxRows
    BY DEF ReportsInv, RowsFit
  <2>2. reached \in SUBSET milestone
    OBVIOUS
  <2>3. Cardinality(milestone) \in Nat /\ n \in Nat /\ n <= Cardinality(milestone)
    <3> HIDE DEF reached
    <3> QED BY <2>1, <2>2, FS_Subset, FS_CardinalityType
  <2> HIDE DEF n
  <2> QED BY <1>1, <2>1, <2>3
<1>3. b \in 0 .. MaxRows
  <2> HIDE DEF n
  <2>1. {1, n} \subseteq -1 .. MaxRows /\ {1, n} # {}
    BY <1>1, <1>2
  <2>2. b \in {1, n}
    BY <1>1, <2>1, LargestOf
  <2> HIDE DEF b
  <2> QED BY <1>1, <1>2, <2>2
<1>4. TopViews(v, now, days) = a * b
  BY DEF TopViews
<1> HIDE DEF a, b
<1> QED BY <1>1, <1>3, <1>4, ProductFits

LEMMA ReadRestKeeps ==
  ASSUME ReportsInv, ReadRest
  PROVE  ReportsInv'
<1> DEFINE clicks == Cardinality(Clicks(report.of, Counted(report.now, report.days)))
           tops == {TopViews(v, report.now, report.days) : v \in report.of \ removed}
           rest == IF report.kind = "video" THEN clicks ELSE Max({0} \cup tops)
           r == [report EXCEPT !.pc = "done", !.rest = rest]
<1>1. /\ report \in Report /\ report # NoReport /\ report.pc = "rest" /\ report' = r
      /\ UNCHANGED <<today, viewed, clicked, milestone, engaged, removed>>
  BY DEF ReadRest, Answered, ReportsInv, AnalyticsTypeOK
<1>2. MaxRows \in Nat \ {0} /\ MaxRows * MaxRows \in Nat /\ MaxRows <= MaxRows * MaxRows
  <2>1. MaxRows \in Nat /\ 1 \in 0 .. MaxRows
    BY AnalyticsAssumption
  <2>2. \A n \in Nat \ {0} : n <= n * n /\ n * n \in Nat
    BY Z3
  <2> QED BY <2>2, AnalyticsAssumption
<1>3. clicks \in 0 .. MaxRows * MaxRows
  <2>1. IsFiniteSet(clicked) /\ Cardinality(clicked) <= MaxRows
    BY DEF ReportsInv, RowsFit
  <2>2. Clicks(report.of, Counted(report.now, report.days)) \in SUBSET clicked
    BY DEF Clicks
  <2>3. clicks \in Nat /\ clicks <= Cardinality(clicked) /\ Cardinality(clicked) \in Nat
    BY <2>1, <2>2, FS_Subset, FS_CardinalityType
  <2> HIDE DEF clicks
  <2> QED BY <1>2, <2>1, <2>3
<1>4. Max({0} \cup tops) \in 0 .. MaxRows * MaxRows
  <2>1. \A w : TopViews(w, report.now, report.days) \in 0 .. MaxRows * MaxRows
    BY TopViewsFit
  <2>2. {0} \cup tops \subseteq 0 .. MaxRows * MaxRows
    BY <1>2, <2>1
  <2> HIDE DEF tops
  <2>3. {0} \cup tops \subseteq -1 .. MaxRows * MaxRows /\ {0} \cup tops # {}
    BY <1>2, <2>2
  <2>4. Max({0} \cup tops) \in {0} \cup tops
    BY <1>2, <2>3, LargestOf
  <2> QED BY <2>2, <2>4
<1>5. rest \in 0 .. MaxRows * MaxRows
  BY <1>3, <1>4
<1>6. /\ r \in Report /\ r.pc = "done" /\ r.listed = report.listed /\ r.floor = report.floor
      /\ r.of = report.of /\ r.now = report.now /\ r.days = report.days
      /\ r.kind = report.kind /\ r.total = report.total
  <2> HIDE DEF rest
  <2> QED BY <1>1, <1>5 DEF Report
<1>7. /\ report.now <= today /\ report.floor <= report.listed
      /\ report.listed <= Cardinality(Views(report.of, Counted(report.now, report.days)))
      /\ today = report.now /\ report.kind = "board" => report.total <= report.listed
  BY <1>1 DEF ReportsInv, ReportsWait, ReportsEveryView
<1> HIDE DEF r
<1> QED BY <1>1, <1>6, <1>7, AnsweredKeeps

LEMMA ReportsStep == ReportsInv /\ [AnalyticsNext]_analyticsVars => ReportsInv'
<1> SUFFICES ASSUME ReportsInv, [AnalyticsNext]_analyticsVars PROVE ReportsInv'
  OBVIOUS
<1>1. ASSUME NEW v \in Watched, NEW days \in Ranges \cup {All}, AnalyticsOf(v, days)
      PROVE  ReportsInv'
  BY <1>1, PrepareKeeps DEF AnalyticsOf
<1>2. ASSUME NEW days \in Ranges \cup {All}, AnalyticsDashboard(days)
      PROVE  ReportsInv'
  BY <1>2, PrepareKeeps DEF AnalyticsDashboard
<1>3. CASE Deliver
  <2>1. report' = NoReport /\ UNCHANGED <<today, viewed, clicked, milestone, engaged, removed>>
    BY <1>3 DEF Deliver, Answered
  <2> QED BY <2>1, AnsweredKeeps
<1>4. CASE UNCHANGED analyticsVars
  BY <1>4 DEF analyticsVars, ReportsInv, AnalyticsTypeOK, RowsFit, NoneToCome, ReportsWait,
     ReportsEveryView, Views, Counted, Since
<1> QED
  BY <1>1, <1>2, <1>3, <1>4, InsertViewKeeps, RecordCTAClickKeeps, RecordMilestoneKeeps,
     RecordSegmentsKeeps, MidnightKeeps, RemoveVideoKeeps, ReadTotalsKeeps, ReadDailyKeeps,
     ReadRestKeeps
  DEF AnalyticsNext

\* Rows, counts and reports keep their types, and no count outgrows what there was room for
\* (the queries of video_analytics.go and video_analytics_dashboard.go).
THEOREM AnalyticsTyped == AnalyticsSpec => []AnalyticsTypeOK
<1>1. ReportsInv => AnalyticsTypeOK
  BY DEF ReportsInv
<1> QED BY <1>1, ReportsStart, ReportsStep, PTL DEF AnalyticsSpec

\* Reports neither lose nor repeat a view, whatever is recorded while they are prepared, and
\* agree with each other, for any videos, viewers, ranges and numbers of rows.
THEOREM ReportsAreTrue == AnalyticsSpec => []ReportsAddUp
<1>1. ReportsInv => ReportsAddUp
  BY Agreement DEF ReportsInv, RowsFit, ReportsAddUp
<1> QED BY <1>1, ReportsStart, ReportsStep, PTL DEF AnalyticsSpec

-----------------------------------------------------------------------------
(***************************************************************************)
(* The runs of MCSafety.                                                   *)
(***************************************************************************)

\* Every behaviour of the composed instance is one of each part: what is proved of the
\* parts holds in the run.
THEOREM SafetyAreParts ==
  SafetySpec => Spec /\ IdentitiesSpec /\ LibrarySpec /\ PlaylistsSpec /\ AnalyticsSpec
<1>1. SafetyInit => Init /\ IdentitiesInit /\ LibraryInit /\ PlaylistsInit /\ AnalyticsInit
  BY DEF SafetyInit
<1>2. [SafetyNext]_<<vars, others, part>> => [Next]_vars
  BY DEF SafetyNext, others
<1>3. [SafetyNext]_<<vars, others, part>> => [IdentitiesNext]_identityVars
  BY DEF SafetyNext, others
<1>4. [SafetyNext]_<<vars, others, part>> => [LibraryNext]_libraryVars
  BY DEF SafetyNext, others, Filing, Tagging
<1>5. [SafetyNext]_<<vars, others, part>> => [PlaylistsNext]_playlistVars
  BY DEF SafetyNext, others
<1>6. [SafetyNext]_<<vars, others, part>> => [AnalyticsNext]_analyticsVars
  BY DEF SafetyNext, others
<1> QED
  BY <1>1, <1>2, <1>3, <1>4, <1>5, <1>6, PTL
  DEF SafetySpec, Spec, IdentitiesSpec, LibrarySpec, PlaylistsSpec, AnalyticsSpec

\* Accounts, folders, playlists, reports and their requests are well typed in it.
THEOREM SafetyTyped == SafetySpec => []TypesOK
<1>1. IdentitiesTypeOK /\ LibraryTypeOK /\ PlaylistsTypeOK /\ AnalyticsTypeOK => TypesOK
  BY DEF TypesOK
<1> QED
  BY <1>1, SafetyAreParts, IdentitiesTyped, LibraryTyped, PlaylistsTyped, AnalyticsTyped, PTL
=============================================================================
