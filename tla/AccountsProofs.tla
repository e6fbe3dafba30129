--------------------------- MODULE AccountsProofs ---------------------------
(***************************************************************************)
(* What a change of password, a rotation and the limit on API keys promise *)
(* for any number of users, requests, tokens and keys; and that the runs of*)
(* MCPeople are behaviours of OrgMembership and of Accounts.               *)
(***************************************************************************)
EXTENDS MCPeople, OrgMembershipProofs

(***************************************************************************)
(* The steps of a request.                                                 *)
(***************************************************************************)
LEMMA StepShape ==
  ASSUME NEW j \in RequestStep
  PROVE  /\ j.pc # "idle" => j.user \in Holders
         /\ j.pc \in {"invalidate", "store"} => j.kind \in {"confirm", "reset"}
         /\ j.pc = "mark" => j.link \in Links /\ j.next \in {"verify", "change"}
         /\ j.pc \in {"rotate", "issue", "insert"} => j.password \in Password
         /\ j.pc = "rotate" => j.token \in Tokens /\ j.root \in Tokens
         /\ j.pc = "issue" => j.root \in Tokens \cup {None}
  BY DEF RequestStep

\* A revocation that misses a request changes nothing but what the history says of it.
LEMMA MissStep ==
  ASSUME NEW j \in RequestStep, j.pc \in {"rotate", "issue", "insert"}, NEW u \in Holders
  PROVE  /\ Miss(j, u) \in RequestStep
         /\ Miss(j, u).pc = j.pc /\ Miss(j, u).user = j.user
         /\ j.pc = "rotate" => Miss(j, u).token = j.token
         /\ j.pc \in {"rotate", "issue"} => Miss(j, u).root = j.root
         /\ Miss(j, u).password = IF j.user = u THEN None ELSE j.password
<1>1. None \in Password
  BY DEF Password
<1>2. CASE j.pc = "rotate"
  BY <1>1, <1>2 DEF RequestStep, Miss
<1>3. CASE j.pc = "issue"
  BY <1>1, <1>3 DEF RequestStep, Miss
<1>4. CASE j.pc = "insert"
  BY <1>1, <1>4 DEF RequestStep, Miss
<1> QED BY <1>2, <1>3, <1>4

\* Alive sessions are those with a history.
LEMMA SessionShape ==
  ASSUME NEW s \in Session
  PROVE  /\ s.user \in Holders /\ s.live \in BOOLEAN
         /\ s.live => s.root \in Tokens /\ s.password \in Password
  BY DEF Session

LEMMA MissSession ==
  ASSUME NEW s \in Session, s.live, NEW u \in Holders
  PROVE  /\ Miss(s, u) \in Session /\ Miss(s, u).live
         /\ Miss(s, u).user = s.user /\ Miss(s, u).root = s.root
         /\ Miss(s, u).password = IF s.user = u THEN None ELSE s.password
  BY DEF Session, Miss, Password

LEMMA MissKey ==
  ASSUME NEW k \in Key, NEW u \in Holders
  PROVE  /\ Miss(k, u) \in Key /\ Miss(k, u).user = k.user
         /\ Miss(k, u).password = IF k.user = u THEN None ELSE k.password
  BY DEF Key, Miss, Password

(***************************************************************************)
(* Types.                                                                  *)
(***************************************************************************)
LEMMA AccountsTypeInit == AccountsInit => AccountsTypeOK
  BY DEF AccountsInit, AccountsTypeOK, RequestStep, Waiting

\* What a revocation leaves of sessions and keys, whether it fails or not.
LEMMA MissSessionsTyped ==
  ASSUME AccountsTypeOK, NEW u \in Holders
  PROVE  MissSessions(u) \in [Tokens -> Session \cup {None}]
<1> SUFFICES ASSUME NEW t \in Tokens
             PROVE  (IF Live(t) THEN Miss(session[t], u) ELSE session[t]) \in Session \cup {None}
  BY DEF MissSessions
<1> QED BY MissSession DEF AccountsTypeOK, Live

LEMMA MissKeysTyped ==
  ASSUME AccountsTypeOK, NEW u \in Holders
  PROVE  MissKeys(u) \in [Keys -> Key \cup {None}]
  BY MissKey DEF AccountsTypeOK, MissKeys

LEMMA OvertakeTyped ==
  ASSUME AccountsTypeOK, NEW r \in Requests, NEW u \in Holders,
         NEW pcs \in SUBSET {"rotate", "issue", "insert"}, NEW asked \in RequestStep,
         Overtake(r, u, pcs, asked)
  PROVE  request' \in [Requests -> RequestStep]
<1> SUFFICES ASSUME NEW q \in Requests
             PROVE  (IF q = r THEN asked ELSE IF request[q].pc \in pcs THEN Miss(request[q], u)
                       ELSE request[q]) \in RequestStep
  BY DEF Overtake
<1> QED BY MissStep DEF AccountsTypeOK

LEMMA Counted ==
  ASSUME NEW S, NEW f \in [S -> Nat], NEW x \in S, NEW n \in Nat
  PROVE  [f EXCEPT ![x] = f[x] + n] \in [S -> Nat]
  OBVIOUS

LEMMA AccountsTypeStep == AccountsTypeOK /\ [AccountsNext]_accountVars => AccountsTypeOK'
<1> SUFFICES ASSUME AccountsTypeOK, [AccountsNext]_accountVars PROVE AccountsTypeOK'
  OBVIOUS
<1> USE AccountsAssumption DEF AccountsTypeOK, credentials
<1>1. ASSUME NEW r \in Requests, NEW u \in Holders,
             Register(r, u) \/ ForgotPassword(r, u) \/ ResendConfirmation(r, u)
      PROVE  AccountsTypeOK'
  <2>1. [pc |-> "invalidate", kind |-> "confirm", user |-> u] \in RequestStep
    BY DEF RequestStep
  <2>2. [pc |-> "invalidate", kind |-> "reset", user |-> u] \in RequestStep
    BY DEF RequestStep
  <2> QED BY <1>1, <2>1, <2>2 DEF Register, ForgotPassword, ResendConfirmation, Enter
<1>2. ASSUME NEW r \in Requests, NEW u \in Holders, ChangePassword(r, u)
      PROVE  AccountsTypeOK'
  <2>1. [pc |-> "change", user |-> u] \in RequestStep
    BY DEF RequestStep
  <2> QED BY <1>2, <2>1 DEF ChangePassword, Enter
<1>3. ASSUME NEW r \in Requests, NEW u \in Holders,
             Login(r, u) \/ SingleSignOn(r, u) \/ CountKeys(r, u)
      PROVE  AccountsTypeOK'
  <2>1. SignIn(u) \in RequestStep
    BY DEF SignIn, RequestStep, Password
  <2>2. [pc |-> "insert", user |-> u, password |-> password[u]] \in RequestStep
    BY DEF RequestStep, Password
  <2> QED BY <1>3, <2>1, <2>2 DEF Login, SingleSignOn, CountKeys, Enter
<1>4. ASSUME NEW r \in Requests, InvalidateLinks(r) PROVE AccountsTypeOK'
  <2>1. request[r].kind \in {"confirm", "reset"} /\ request[r].user \in Holders
    BY <1>4, StepShape DEF InvalidateLinks
  <2>2. [request[r] EXCEPT !.pc = "store"] \in RequestStep
    BY <1>4 DEF InvalidateLinks, RequestStep
  <2>3. Spent \in Link
    BY DEF Spent, Link
  <2> QED BY <1>4, <2>1, <2>2, <2>3 DEF InvalidateLinks, Proceed
<1>5. ASSUME NEW r \in Requests, MarkLink(r) PROVE AccountsTypeOK'
  <2>1. [pc |-> request[r].next, user |-> request[r].user] \in RequestStep
    BY <1>5, StepShape DEF MarkLink, RequestStep
  <2>2. Spent \in Link
    BY DEF Spent, Link
  <2> QED BY <1>5, <2>1, <2>2, StepShape DEF MarkLink, Proceed
<1>6. ASSUME NEW r \in Requests, VerifyAccount(r) PROVE AccountsTypeOK'
  BY <1>6, StepShape DEF VerifyAccount, Finish, Waiting, RequestStep
<1>7. ASSUME NEW r \in Requests, SetPassword(r) PROVE AccountsTypeOK'
  <2>1. request[r].user \in Holders
    BY <1>7, StepShape DEF SetPassword
  <2>2. [request[r] EXCEPT !.pc = "cut"] \in RequestStep
    BY <1>7 DEF SetPassword, RequestStep
  <2> QED BY <1>7, <2>1, <2>2 DEF SetPassword, Proceed
<1>8. ASSUME NEW r \in Requests, RevokeSessions(r) PROVE AccountsTypeOK'
  <2>1. request[r].user \in Holders
    BY <1>8, StepShape DEF RevokeSessions
  <2> DEFINE u == request[r].user
  <2>2. [pc |-> "keys", user |-> u] \in RequestStep
    BY <2>1 DEF RequestStep
  <2>3. request' \in [Requests -> RequestStep]
    BY <1>8, <2>1, <2>2, OvertakeTyped DEF RevokeSessions
  <2>4. Revoked(u) \in Session
    BY <2>1 DEF Revoked, Session
  <2>5. session' \in [Tokens -> Session \cup {None}]
    BY <1>8, <2>1, <2>4, MissSessionsTyped DEF RevokeSessions
  <2> QED BY <1>8, <2>3, <2>5 DEF RevokeSessions
<1>9. ASSUME NEW r \in Requests, DeleteKeys(r) PROVE AccountsTypeOK'
  <2>1. request[r].user \in Holders
    BY <1>9, StepShape DEF DeleteKeys
  <2>2. Waiting \in RequestStep
    BY DEF Waiting, RequestStep
  <2>3. request' \in [Requests -> RequestStep]
    BY <1>9, <2>1, <2>2, OvertakeTyped DEF DeleteKeys
  <2>4. key' \in [Keys -> Key \cup {None}]
    BY <1>9, <2>1, MissKeysTyped DEF DeleteKeys
  <2> QED BY <1>9, <2>3, <2>4 DEF DeleteKeys
<1>10. ASSUME NEW r \in Requests, RevokeToken(r) PROVE AccountsTypeOK'
  <2>1. /\ request[r].user \in Holders /\ request[r].token \in Tokens
        /\ request[r].root \in Tokens /\ request[r].password \in Password
    BY <1>10, StepShape DEF RevokeToken
  <2>2. Successor(r) \in RequestStep
    BY <2>1 DEF Successor, RequestStep
  <2>3. Revoked(request[r].user) \in Session
    BY <2>1 DEF Revoked, Session
  <2>4. respent' \in [Tokens -> Nat]
    <3> DEFINE root == request[r].root
    <3>1. PICK n \in {0, 1} : respent' = [respent EXCEPT ![root] = respent[root] + n]
      BY <1>10 DEF RevokeToken
    <3>2. respent \in [Tokens -> Nat] /\ root \in Tokens
      BY <2>1
    <3> HIDE DEF AccountsTypeOK, root
    <3> QED BY <3>1, <3>2
  <2>5. session' \in [Tokens -> Session \cup {None}]
    BY <1>10, <2>1, <2>3 DEF RevokeToken
  <2>6. request' \in [Requests -> RequestStep]
    BY <1>10, <2>2 DEF RevokeToken, Proceed
  <2> QED BY <1>10, <2>4, <2>5, <2>6 DEF RevokeToken
<1>11. ASSUME NEW r \in Requests, Fail(r) PROVE AccountsTypeOK'
  <2>1. request[r].user \in Holders
    BY <1>11, StepShape DEF Fail
  <2>2. Waiting \in RequestStep
    BY DEF Waiting, RequestStep
  <2>3. CASE request[r].pc \in {"cut", "keys"}
    <3>1. request' \in [Requests -> RequestStep]
      BY <1>11, <2>1, <2>2, <2>3, OvertakeTyped DEF Fail
    <3> QED BY <1>11, <2>1, <2>3, <3>1, MissSessionsTyped, MissKeysTyped DEF Fail
  <2>4. CASE request[r].pc \notin {"cut", "keys"}
    BY <1>11, <2>2, <2>4 DEF Fail, Finish
  <2> QED BY <2>3, <2>4
<1>12. ASSUME NEW r \in Requests, NEW l \in Links, StoreLink(r, l) PROVE AccountsTypeOK'
  <2>1. [kind |-> request[r].kind, user |-> request[r].user] \in Link
    BY <1>12, StepShape DEF StoreLink, Link
  <2> QED BY <1>12, <2>1 DEF StoreLink, Finish, Waiting, RequestStep
<1>13. ASSUME NEW r \in Requests, NEW l \in Links, FollowLink(r, l) PROVE AccountsTypeOK'
  <2>1. link[l].user \in Holders
    BY <1>13 DEF FollowLink, Usable, Link
  <2>2. [pc |-> "mark", link |-> l, user |-> link[l].user,
         next |-> IF link[l].kind = "reset" THEN "change" ELSE "verify"] \in RequestStep
    BY <2>1 DEF RequestStep
  <2> QED BY <1>13, <2>2 DEF FollowLink, Enter
<1>14. ASSUME NEW r \in Requests, NEW t \in Tokens, Refresh(r, t) PROVE AccountsTypeOK'
  <2>1. session[t] \in Session /\ session[t].live
    BY <1>14 DEF Refresh, Live
  <2>2. [pc |-> "rotate", token |-> t, user |-> session[t].user, root |-> session[t].root,
         password |-> session[t].password] \in RequestStep
    BY <2>1, SessionShape DEF RequestStep
  <2> QED BY <1>14, <2>2 DEF Refresh, Enter
<1>15. ASSUME NEW r \in Requests, NEW t \in Tokens, IssueTokens(r, t) PROVE AccountsTypeOK'
  <2>1. /\ request[r].user \in Holders /\ request[r].root \in Tokens \cup {None}
        /\ request[r].password \in Password
    BY <1>15, StepShape DEF IssueTokens
  <2>2. [user |-> request[r].user, live |-> TRUE,
         root |-> IF request[r].root = None THEN t ELSE request[r].root,
         password |-> request[r].password] \in Session
    BY <2>1 DEF Session
  <2> QED BY <1>15, <2>2 DEF IssueTokens, Finish, Waiting, RequestStep
<1>16. ASSUME NEW r \in Requests, NEW k \in Keys, InsertKey(r, k) PROVE AccountsTypeOK'
  <2>1. [user |-> request[r].user, password |-> request[r].password] \in Key
    BY <1>16, StepShape DEF InsertKey, Key
  <2> QED BY <1>16, <2>1 DEF InsertKey, Finish, Waiting, RequestStep
<1>17. ASSUME NEW l \in Links, ExpireLink(l) PROVE AccountsTypeOK'
  BY <1>17 DEF ExpireLink, Spent, Link
<1>18. ASSUME NEW t \in Tokens, Logout(t) PROVE AccountsTypeOK'
  <2>1. Revoked(session[t].user) \in Session
    BY <1>18 DEF Logout, Issued, Revoked, Session
  <2> QED BY <1>18, <2>1 DEF Logout
<1>19. ASSUME NEW k \in Keys, DeleteKey(k) PROVE AccountsTypeOK'
  BY <1>19 DEF DeleteKey
<1>20. CASE UNCHANGED accountVars
  BY <1>20 DEF accountVars
<1> QED BY <1>1, <1>2, <1>3, <1>4, <1>5, <1>6, <1>7, <1>8, <1>9, <1>10, <1>11, <1>12, <1>13,
           <1>14, <1>15, <1>16, <1>17, <1>18, <1>19, <1>20 DEF AccountsNext

\* Every value of every variable is one the program can hold.
THEOREM AccountsTyped == AccountsSpec => []AccountsTypeOK
  BY AccountsTypeInit, AccountsTypeStep, PTL DEF AccountsSpec

(***************************************************************************)
(* A change of password ends what the earlier ones opened.                 *)
(*                                                                         *)
(* What is carried by a request that has read a credential and not written *)
(* its successor is as good as the credential: it is of the user's         *)
(* password, or its revocation is still to come, or has missed it.  The    *)
(* first password of a user makes nothing old: whoever has a credential, a *)
(* link or a request has an account (Known).                               *)
(***************************************************************************)
Known ==
  /\ \A t \in Tokens : Issued(t) => account[session[t].user] # "none"
  /\ \A k \in Keys : key[k] # None => account[key[k].user] # "none"
  /\ \A l \in Links : Usable(l) => account[link[l].user] # "none"
  /\ \A r \in Requests : request[r].pc # "idle" => account[request[r].user] # "none"

LEMMA KnownInit == AccountsInit => Known
  BY DEF AccountsInit, Known, Issued, Usable, Waiting

LEMMA RequestsKnown ==
  ASSUME AccountsTypeOK, Known, NEW r \in Requests, NEW asked,
         request' = [request EXCEPT ![r] = asked],
         \A u \in Holders : account[u] # "none" => account'[u] # "none",
         asked.pc # "idle" => account'[asked.user] # "none"
  PROVE  \A q \in Requests : request'[q].pc # "idle" => account'[request'[q].user] # "none"
  BY StepShape DEF AccountsTypeOK, Known

\* A revocation overtakes the requests of a user; no other field of theirs changes.
Overtaken(r, u, pcs, asked, q) ==
  /\ q = r => request'[q] = asked
  /\ q # r =>
       /\ request'[q].pc = request[q].pc
       /\ request[q].pc # "idle" => request'[q].user = request[q].user
       /\ request[q].pc = "rotate" => request'[q].token = request[q].token
       /\ request[q].pc \in {"rotate", "issue"} => request'[q].root = request[q].root
       /\ request[q].pc \in {"rotate", "issue", "insert"} =>
            request'[q].password = IF request[q].pc \in pcs /\ request[q].user = u
                                     THEN None ELSE request[q].password

LEMMA OvertakeShape ==
  ASSUME AccountsTypeOK, NEW r \in Requests, NEW u \in Holders,
         NEW pcs \in SUBSET {"rotate", "issue", "insert"}, NEW asked,
         Overtake(r, u, pcs, asked), NEW q \in Requests
  PROVE  Overtaken(r, u, pcs, asked, q)
<1> USE DEF Overtaken
<1>1. request'[q] = IF q = r THEN asked
                    ELSE IF request[q].pc \in pcs THEN Miss(request[q], u) ELSE request[q]
  BY DEF Overtake
<1>2. request[q] \in RequestStep
  BY DEF AccountsTypeOK
<1>3. CASE q = r
  BY <1>1, <1>3
<1>4. CASE q # r /\ request[q].pc \notin pcs
  <2>1. request'[q] = request[q]
    BY <1>1, <1>4
  <2> QED BY <1>4, <2>1
<1>5. CASE q # r /\ request[q].pc \in pcs
  <2> DEFINE j == request[q]
  <2>1. request'[q] = Miss(j, u)
    BY <1>1, <1>5
  <2>2. j.pc \in {"rotate", "issue", "insert"}
    BY <1>5
  <2>3. /\ Miss(j, u).pc = j.pc /\ Miss(j, u).user = j.user
        /\ j.pc = "rotate" => Miss(j, u).token = j.token
        /\ j.pc \in {"rotate", "issue"} => Miss(j, u).root = j.root
        /\ Miss(j, u).password = IF j.user = u THEN None ELSE j.password
    BY <1>2, <2>2, MissStep
  <2> HIDE DEF j
  <2>4. j.pc \in pcs /\ q # r
    BY <1>5 DEF j
  <2> QED BY <2>1, <2>3, <2>4 DEF j
<1> QED BY <1>3, <1>4, <1>5

\* A revocation overtakes requests, and leaves them to their users.
LEMMA OvertakeKnown ==
  ASSUME AccountsTypeOK, Known, NEW r \in Requests, NEW u \in Holders,
         NEW pcs \in SUBSET {"rotate", "issue", "insert"}, NEW asked,
         Overtake(r, u, pcs, asked), UNCHANGED account,
         asked.pc # "idle" => account[asked.user] # "none"
  PROVE  \A q \in Requests : request'[q].pc # "idle" => account'[request'[q].user] # "none"
<1>1. \A q \in Requests : Overtaken(r, u, pcs, asked, q)
  BY OvertakeShape
<1> QED BY <1>1 DEF Known, Overtaken

\* Sessions and keys that a revocation has missed stay their users'.
LEMMA MissSessionsKnown ==
  ASSUME AccountsTypeOK, NEW u \in Holders, session' = MissSessions(u)
  PROVE  \A t \in Tokens : /\ Issued(t)' <=> Issued(t)
                           /\ Issued(t) => session'[t].user = session[t].user
                           /\ Live(t)' <=> Live(t)
                           /\ Live(t) => /\ session'[t].root = session[t].root
                                         /\ session'[t].password = IF session[t].user = u THEN None
                                                                   ELSE session[t].password
<1> SUFFICES ASSUME NEW t \in Tokens
             PROVE  /\ Issued(t)' <=> Issued(t)
                    /\ Issued(t) => session'[t].user = session[t].user
                    /\ Live(t)' <=> Live(t)
                    /\ Live(t) => /\ session'[t].root = session[t].root
                                  /\ session'[t].password = IF session[t].user = u THEN None
                                                            ELSE session[t].password
  OBVIOUS
<1>1. session'[t] = IF Live(t) THEN Miss(session[t], u) ELSE session[t]
  BY DEF MissSessions
<1>2. CASE ~Live(t)
  BY <1>1, <1>2 DEF Issued, Live
<1>3. CASE Live(t)
  <2>1. session[t] \in Session /\ session[t].live /\ session[t] # None
    BY <1>3 DEF AccountsTypeOK, Live
  <2>2. session'[t] = Miss(session[t], u)
    BY <1>1, <1>3
  <2>3. session'[t] # None
    BY <2>1, <2>2, MissSession, NoRow
  <2> QED BY <1>3, <2>1, <2>2, <2>3, MissSession DEF Issued, Live
<1> QED BY <1>2, <1>3

LEMMA MissKeysKnown ==
  ASSUME AccountsTypeOK, NEW u \in Holders, key' = MissKeys(u)
  PROVE  \A k \in Keys : /\ key'[k] # None <=> key[k] # None
                         /\ key[k] # None =>
                              /\ key'[k].user = key[k].user
                              /\ key'[k].password = IF key[k].user = u THEN None ELSE key[k].password
  BY MissKey, NoRow DEF AccountsTypeOK, MissKeys

LEMMA KeyHolders ==
  ASSUME AccountsTypeOK
  PROVE  /\ \A t \in Tokens : Issued(t) => session[t].user \in Holders
         /\ \A k \in Keys : key[k] # None => key[k].user \in Holders
         /\ \A l \in Links : Usable(l) => link[l].user \in Holders
  BY DEF AccountsTypeOK, Issued, Usable, Session, Key, Link

LEMMA KnownStep == AccountsTypeOK /\ Known /\ [AccountsNext]_accountVars => Known'
<1> SUFFICES ASSUME AccountsTypeOK, Known, [AccountsNext]_accountVars PROVE Known'
  OBVIOUS
<1> DEFINE RequestsOK == \A q \in Requests : request[q].pc # "idle" => account[request[q].user] # "none"
<1> USE DEF credentials
<1>1. ASSUME NEW r \in Requests, NEW u \in Holders, Register(r, u)
      PROVE  Known'
  <2>1. \A v \in Holders : account[v] # "none" => account'[v] # "none"
    BY <1>1 DEF Register, AccountsTypeOK
  <2>2. account'[u] # "none"
    BY <1>1 DEF Register, AccountsTypeOK
  <2>3. RequestsOK'
    <3> DEFINE asked == [pc |-> "invalidate", kind |-> "confirm", user |-> u]
    <3>1. Enter(r, asked) \/ UNCHANGED request
      BY <1>1 DEF Register
    <3>2. CASE Enter(r, asked)
      BY <2>1, <2>2, <3>2, RequestsKnown DEF Enter
    <3>3. CASE UNCHANGED request
      BY <2>1, <3>3, StepShape DEF Known, AccountsTypeOK
    <3> QED BY <3>1, <3>2, <3>3
  <2>4. UNCHANGED <<session, key, link>>
    BY <1>1 DEF Register
  <2> QED BY <2>1, <2>3, <2>4, KeyHolders DEF Known, Issued, Usable
<1>2. ASSUME NEW r \in Requests, NEW u \in Holders,
             ForgotPassword(r, u) \/ ResendConfirmation(r, u)
      PROVE  Known'
  <2>1. account[u] # "none" /\ UNCHANGED account
    BY <1>2 DEF ForgotPassword, ResendConfirmation
  <2>2. RequestsOK'
    BY <1>2, <2>1, RequestsKnown DEF ForgotPassword, ResendConfirmation, Enter
  <2> QED BY <1>2, <2>2 DEF ForgotPassword, ResendConfirmation, Known, Issued, Usable
<1>3. ASSUME NEW r \in Requests, NEW u \in Holders, ChangePassword(r, u) \/ CountKeys(r, u)
      PROVE  Known'
  <2>1. account[u] # "none" /\ UNCHANGED account
    BY <1>3 DEF ChangePassword, CountKeys, Authenticated, Known
  <2>2. RequestsOK'
    BY <1>3, <2>1, RequestsKnown DEF ChangePassword, CountKeys, Enter
  <2> QED BY <1>3, <2>2 DEF ChangePassword, CountKeys, Known, Issued, Usable
<1>4. ASSUME NEW r \in Requests, NEW u \in Holders, Login(r, u) \/ SingleSignOn(r, u)
      PROVE  Known'
  <2>1. \A v \in Holders : account[v] # "none" => account'[v] # "none"
    BY <1>4 DEF Login, SingleSignOn, AccountsTypeOK
  <2>2. account'[u] # "none"
    BY <1>4 DEF Login, SingleSignOn, AccountsTypeOK
  <2>3. RequestsOK'
    BY <1>4, <2>1, <2>2, RequestsKnown DEF Login, SingleSignOn, SignIn, Enter
  <2> QED BY <1>4, <2>1, <2>3, KeyHolders DEF Login, SingleSignOn, Known, Issued, Usable
<1>5. ASSUME NEW r \in Requests, InvalidateLinks(r) PROVE Known'
  <2>1. RequestsOK'
    BY <1>5, RequestsKnown DEF InvalidateLinks, Proceed, Known, AccountsTypeOK, RequestStep
  <2> QED BY <1>5, <2>1 DEF InvalidateLinks, Known, Issued, Usable, Spent
<1>6. ASSUME NEW r \in Requests, MarkLink(r) PROVE Known'
  <2>1. RequestsOK'
    BY <1>6, RequestsKnown DEF MarkLink, Proceed, Known
  <2> QED BY <1>6, <2>1 DEF MarkLink, Known, Issued, Usable, Spent, AccountsTypeOK
<1>7. ASSUME NEW r \in Requests, VerifyAccount(r) PROVE Known'
  <2>1. \A v \in Holders : account[v] # "none" => account'[v] # "none"
    BY <1>7 DEF VerifyAccount, AccountsTypeOK
  <2>2. RequestsOK'
    BY <1>7, <2>1, RequestsKnown DEF VerifyAccount, Finish, Waiting
  <2> QED BY <1>7, <2>1, <2>2, KeyHolders DEF VerifyAccount, Known, Issued, Usable
<1>8. ASSUME NEW r \in Requests, SetPassword(r) PROVE Known'
  <2>1. RequestsOK'
    BY <1>8, RequestsKnown DEF SetPassword, Proceed, Known, AccountsTypeOK, RequestStep
  <2> QED BY <1>8, <2>1 DEF SetPassword, Known, Issued, Usable
<1>9. ASSUME NEW r \in Requests, RevokeSessions(r) PROVE Known'
  <2> DEFINE u == request[r].user
  <2>1. u \in Holders /\ account[u] # "none"
    BY <1>9, StepShape DEF RevokeSessions, AccountsTypeOK, Known
  <2>2. RequestsOK'
    BY <1>9, <2>1, OvertakeKnown DEF RevokeSessions
  <2>3. \A t \in Tokens : Issued(t)' => Issued(t) /\ session'[t].user = session[t].user
    <3>1. CASE session' = MissSessions(u)
      BY <2>1, <3>1, MissSessionsKnown
    <3>2. CASE session' = [t \in Tokens |-> IF Issued(t) /\ session[t].user = u
                                              THEN Revoked(u) ELSE session[t]]
      BY <3>2 DEF Issued, Revoked
    <3> QED BY <1>9, <3>1, <3>2 DEF RevokeSessions
  <2> QED BY <1>9, <2>2, <2>3 DEF RevokeSessions, Known, Usable
<1>10. ASSUME NEW r \in Requests, DeleteKeys(r) PROVE Known'
  <2> DEFINE u == request[r].user
  <2>1. u \in Holders
    BY <1>10, StepShape DEF DeleteKeys, AccountsTypeOK
  <2>2. RequestsOK'
    BY <1>10, <2>1, OvertakeKnown DEF DeleteKeys, Waiting
  <2>3. \A k \in Keys : key'[k] # None => key[k] # None /\ key'[k].user = key[k].user
    <3>1. CASE key' = MissKeys(u)
      BY <2>1, <3>1, MissKeysKnown
    <3>2. CASE key' = [k \in Keys |-> IF k \in KeysOf(u) THEN None ELSE key[k]]
      BY <3>2
    <3> QED BY <1>10, <3>1, <3>2 DEF DeleteKeys
  <2> QED BY <1>10, <2>2, <2>3 DEF DeleteKeys, Known, Usable, Issued
<1>11. ASSUME NEW r \in Requests, RevokeToken(r) PROVE Known'
  <2>1. RequestsOK'
    BY <1>11, RequestsKnown DEF RevokeToken, Proceed, Successor, Known
  <2>2. \A t \in Tokens : Issued(t)' => Issued(t) \/ t = request[r].token
    BY <1>11 DEF RevokeToken, Issued, AccountsTypeOK
  <2>3. account[request[r].user] # "none"
    BY <1>11 DEF RevokeToken, Known
  <2> QED BY <1>11, <2>1, <2>2, <2>3 DEF RevokeToken, Known, Usable, Issued, Revoked, AccountsTypeOK
<1>12. ASSUME NEW r \in Requests, Fail(r) PROVE Known'
  <2>1. CASE request[r].pc \in {"cut", "keys"}
    <3> DEFINE u == request[r].user
    <3>1. u \in Holders
      BY <2>1, StepShape DEF AccountsTypeOK
    <3>2. RequestsOK'
      BY <1>12, <2>1, <3>1, OvertakeKnown DEF Fail, Waiting
    <3>3. \A t \in Tokens : Issued(t)' => Issued(t) /\ session'[t].user = session[t].user
      BY <1>12, <2>1, <3>1, MissSessionsKnown DEF Fail, Issued
    <3>4. \A k \in Keys : key'[k] # None => key[k] # None /\ key'[k].user = key[k].user
      BY <1>12, <2>1, <3>1, MissKeysKnown DEF Fail
    <3> QED BY <1>12, <3>2, <3>3, <3>4 DEF Fail, Known, Usable
  <2>2. CASE request[r].pc \notin {"cut", "keys"}
    BY <1>12, <2>2, RequestsKnown DEF Fail, Finish, Waiting, Known, Usable, Issued
  <2> QED BY <2>1, <2>2
<1>13. ASSUME NEW r \in Requests, NEW l \in Links, StoreLink(r, l) PROVE Known'
  <2>1. RequestsOK'
    BY <1>13, RequestsKnown DEF StoreLink, Finish, Waiting
  <2>2. account[request[r].user] # "none"
    BY <1>13 DEF StoreLink, Known
  <2> QED BY <1>13, <2>1, <2>2 DEF StoreLink, Known, Usable, Issued, AccountsTypeOK
<1>14. ASSUME NEW r \in Requests, NEW l \in Links, FollowLink(r, l) PROVE Known'
  <2>1. RequestsOK'
    BY <1>14, RequestsKnown DEF FollowLink, Enter, Known
  <2> QED BY <1>14, <2>1 DEF FollowLink, Known, Usable, Issued
<1>15. ASSUME NEW r \in Requests, NEW t \in Tokens, Refresh(r, t) PROVE Known'
  <2>1. RequestsOK'
    BY <1>15, RequestsKnown DEF Refresh, Enter, Known, Live, Issued
  <2> QED BY <1>15, <2>1 DEF Refresh, Known, Usable, Issued
<1>16. ASSUME NEW r \in Requests, NEW t \in Tokens, IssueTokens(r, t) PROVE Known'
  <2>1. RequestsOK'
    BY <1>16, RequestsKnown DEF IssueTokens, Finish, Waiting
  <2>2. account[request[r].user] # "none"
    BY <1>16 DEF IssueTokens, Known
  <2> QED BY <1>16, <2>1, <2>2 DEF IssueTokens, Known, Usable, Issued, AccountsTypeOK
<1>17. ASSUME NEW r \in Requests, NEW k \in Keys, InsertKey(r, k) PROVE Known'
  <2>1. RequestsOK'
    BY <1>17, RequestsKnown DEF InsertKey, Finish, Waiting
  <2>2. account[request[r].user] # "none"
    BY <1>17 DEF InsertKey, Known
  <2> QED BY <1>17, <2>1, <2>2 DEF InsertKey, Known, Usable, Issued, AccountsTypeOK
<1>18. ASSUME NEW l \in Links, ExpireLink(l) PROVE Known'
  BY <1>18 DEF ExpireLink, Known, Usable, Issued, Spent, AccountsTypeOK
<1>19. ASSUME NEW t \in Tokens, Logout(t) PROVE Known'
  BY <1>19 DEF Logout, Known, Usable, Issued, Revoked, AccountsTypeOK
<1>20. ASSUME NEW k \in Keys, DeleteKey(k) PROVE Known'
  BY <1>20 DEF DeleteKey, Known, Usable, Issued, AccountsTypeOK
<1>21. CASE UNCHANGED accountVars
  BY <1>21 DEF accountVars, Known, Usable, Issued
<1> QED BY <1>1, <1>2, <1>3, <1>4, <1>5, <1>6, <1>7, <1>8, <1>9, <1>10, <1>11, <1>12, <1>13,
           <1>14, <1>15, <1>16, <1>17, <1>18, <1>19, <1>20, <1>21 DEF AccountsNext

Revoking(pcs, u) == \E r \in Requests : request[r].pc \in pcs /\ request[r].user = u
Current(c, pcs) == c.password \in {password[c.user], None} \/ Revoking(pcs, c.user)

SessionsCurrent == \A t \in Tokens : Live(t) => Current(session[t], {"cut"})
KeysCurrent == \A k \in Keys : key[k] # None => Current(key[k], {"cut", "keys"})
Carried ==
  /\ \A r \in Requests : request[r].pc \in {"rotate", "issue"} => Current(request[r], {"cut"})
  /\ \A r \in Requests : request[r].pc = "insert" => Current(request[r], {"cut", "keys"})

PasswordsInv == Known /\ SessionsCurrent /\ KeysCurrent /\ Carried

LEMMA PasswordsInit == AccountsInit => PasswordsInv
  BY KnownInit, NoRow
     DEF AccountsInit, PasswordsInv, SessionsCurrent, KeysCurrent, Carried, Live, Waiting

LEMMA PasswordsMeaning == SessionsCurrent /\ KeysCurrent <=> OldPasswordsEnd
  BY DEF SessionsCurrent, KeysCurrent, OldPasswordsEnd, Current, Revoking

\* A step of a request that revokes nothing: what it reads or writes is current, and
\* nothing else changes but for what ends.
LEMMA PlainStep ==
  ASSUME AccountsTypeOK, PasswordsInv, NEW r \in Requests, NEW asked,
         request' = [request EXCEPT ![r] = asked], request[r].pc \notin {"cut", "keys"},
         UNCHANGED password,
         asked.pc \in {"rotate", "issue"} => Current(asked, {"cut"}),
         asked.pc = "insert" => Current(asked, {"cut", "keys"}),
         \A t \in Tokens : Live(t)' => \/ Live(t) /\ session'[t] = session[t]
                                      \/ Current(session'[t], {"cut"}),
         \A k \in Keys : key'[k] # None => \/ key'[k] = key[k]
                                          \/ Current(key'[k], {"cut", "keys"})
  PROVE  SessionsCurrent' /\ KeysCurrent' /\ Carried'
<1>1. ASSUME NEW c, NEW pcs \in {{"cut"}, {"cut", "keys"}}, Current(c, pcs)
      PROVE  \/ c.password \in {password'[c.user], None}
             \/ \E q \in Requests : request'[q].pc \in pcs /\ request'[q].user = c.user
  <2>1. CASE c.password \in {password[c.user], None}
    BY <2>1
  <2>2. CASE Revoking(pcs, c.user)
    <3>1. PICK q \in Requests : request[q].pc \in pcs /\ request[q].user = c.user
      BY <2>2 DEF Revoking
    <3>2. q # r
      BY <3>1
    <3>3. request'[q] = request[q]
      BY <3>2 DEF AccountsTypeOK
    <3> QED BY <3>1, <3>3
  <2> QED BY <1>1, <2>1, <2>2 DEF Current
<1>2. SessionsCurrent'
  BY <1>1 DEF SessionsCurrent, PasswordsInv, Current, Revoking
<1>3. KeysCurrent'
  BY <1>1 DEF KeysCurrent, PasswordsInv, Current, Revoking
<1>4. Carried'
  <2> SUFFICES ASSUME NEW q \in Requests
               PROVE  /\ request'[q].pc \in {"rotate", "issue"} => Current(request[q], {"cut"})'
                      /\ request'[q].pc = "insert" => Current(request[q], {"cut", "keys"})'
    BY DEF Carried
  <2>1. request'[q] = IF q = r THEN asked ELSE request[q]
    BY DEF AccountsTypeOK
  <2>2. /\ request'[q].pc \in {"rotate", "issue"} => Current(request'[q], {"cut"})
        /\ request'[q].pc = "insert" => Current(request'[q], {"cut", "keys"})
    BY <2>1 DEF PasswordsInv, Carried
  <2> QED BY <1>1, <2>2 DEF Current, Revoking
<1> QED BY <1>2, <1>3, <1>4

\* A step without a request, in which sessions and keys only end.
LEMMA EndingStep ==
  ASSUME AccountsTypeOK, PasswordsInv, UNCHANGED <<request, password>>,
         \A t \in Tokens : Live(t)' => Live(t) /\ session'[t] = session[t],
         \A k \in Keys : key'[k] # None => key'[k] = key[k]
  PROVE  SessionsCurrent' /\ KeysCurrent' /\ Carried'
  BY DEF PasswordsInv, SessionsCurrent, KeysCurrent, Carried, Current, Revoking

\* The revocations of a change of password: what they miss, the history says they missed.
LEMMA RevokingStep ==
  ASSUME AccountsTypeOK, PasswordsInv, NEW r \in Requests,
         RevokeSessions(r) \/ DeleteKeys(r) \/ (Fail(r) /\ request[r].pc \in {"cut", "keys"})
  PROVE  SessionsCurrent' /\ KeysCurrent' /\ Carried'
<1> DEFINE u == request[r].user
<1> USE DEF credentials
<1>1. /\ u \in Holders /\ UNCHANGED password
      /\ request[r].pc \in {"cut", "keys"}
  BY StepShape DEF RevokeSessions, DeleteKeys, Fail, AccountsTypeOK
<1>2. PICK pcs \in SUBSET {"rotate", "issue", "insert"}, asked \in RequestStep :
        /\ Overtake(r, u, pcs, asked)
        /\ request[r].pc = "cut" => {"rotate", "issue"} \subseteq pcs
        /\ (asked.pc = "keys" /\ asked.user = u) \/ (asked.pc = "idle" /\ "insert" \in pcs)
        /\ asked.pc = "keys" => RevokeSessions(r)
  <2> [pc |-> "keys", user |-> u] \in RequestStep /\ Waiting \in RequestStep
    BY <1>1 DEF RequestStep, Waiting
  <2>1. CASE RevokeSessions(r)
    <3> WITNESS {"rotate", "issue"} \in SUBSET {"rotate", "issue", "insert"},
                [pc |-> "keys", user |-> u] \in RequestStep
    <3> QED BY <2>1 DEF RevokeSessions
  <2>2. CASE DeleteKeys(r)
    <3> WITNESS {"insert"} \in SUBSET {"rotate", "issue", "insert"}, Waiting \in RequestStep
    <3> QED BY <2>2 DEF DeleteKeys, Waiting
  <2>3. CASE Fail(r) /\ request[r].pc = "cut"
    <3> WITNESS {"rotate", "issue", "insert"} \in SUBSET {"rotate", "issue", "insert"},
                Waiting \in RequestStep
    <3> QED BY <2>3 DEF Fail, Waiting
  <2>4. CASE Fail(r) /\ request[r].pc = "keys"
    <3> WITNESS {"insert"} \in SUBSET {"rotate", "issue", "insert"}, Waiting \in RequestStep
    <3> QED BY <2>4 DEF Fail, Waiting
  <2> QED BY <2>1, <2>2, <2>3, <2>4, <1>1
\* Of other users nothing is revoked.
<1>O. \A q \in Requests : Overtaken(r, u, pcs, asked, q)
  BY <1>1, <1>2, OvertakeShape
<1>3. ASSUME NEW c, NEW P \in {{"cut"}, {"cut", "keys"}}, Current(c, P),
             c.user # u \/ request[r].pc \notin P
      PROVE  \/ c.password \in {password'[c.user], None}
             \/ \E q \in Requests : request'[q].pc \in P /\ request'[q].user = c.user
  <2>1. CASE c.password \in {password[c.user], None}
    BY <1>1, <2>1
  <2>2. CASE Revoking(P, c.user)
    <3>1. PICK q \in Requests : request[q].pc \in P /\ request[q].user = c.user
      BY <2>2 DEF Revoking
    <3>2. q # r
      BY <1>3, <3>1
    <3>3. request[q].pc # "idle"
      BY <3>1
    <3>4. request'[q].pc = request[q].pc /\ request'[q].user = request[q].user
      BY <3>2, <3>3, <1>O DEF Overtaken
    <3> QED BY <3>1, <3>4
  <2> QED BY <1>3, <2>1, <2>2 DEF Current
\* Of this user nothing is left, or the history says so, or the keys are still to come.
<1>4. \A t \in Tokens : Live(t)' =>
        /\ Live(t) /\ session'[t].user = session[t].user
        /\ \/ session'[t].password = session[t].password
           \/ session'[t].password = None
        /\ request[r].pc = "cut" /\ session[t].user = u => session'[t].password = None
  <2>1. CASE session' = MissSessions(u)
    BY <1>1, <2>1, MissSessionsKnown DEF Live, Issued
  <2>2. CASE session' = [t \in Tokens |-> IF Issued(t) /\ session[t].user = u
                                            THEN Revoked(u) ELSE session[t]]
    BY <2>2 DEF Live, Issued, Revoked
  <2>3. CASE UNCHANGED session /\ request[r].pc = "keys"
    BY <2>3 DEF Live
  <2> QED BY <1>1, <2>1, <2>2, <2>3 DEF RevokeSessions, DeleteKeys, Fail
<1>5. \A k \in Keys : key'[k] # None =>
        /\ key[k] # None /\ key'[k].user = key[k].user
        /\ \/ key'[k].password = key[k].password
           \/ key'[k].password = None
        /\ ~RevokeSessions(r) /\ key[k].user = u => key'[k].password = None
  <2>1. CASE key' = MissKeys(u)
    BY <1>1, <2>1, MissKeysKnown
  <2>2. CASE key' = [k \in Keys |-> IF k \in KeysOf(u) THEN None ELSE key[k]]
    BY <2>2 DEF KeysOf
  <2>3. CASE UNCHANGED key /\ RevokeSessions(r)
    BY <2>3
  <2> QED BY <1>1, <2>1, <2>2, <2>3 DEF RevokeSessions, DeleteKeys, Fail
<1>6. RevokeSessions(r) => request'[r].pc = "keys" /\ request'[r].user = u
  <2> SUFFICES ASSUME RevokeSessions(r) PROVE request'[r].pc = "keys" /\ request'[r].user = u
    OBVIOUS
  <2>1. Overtake(r, u, {"rotate", "issue"}, [pc |-> "keys", user |-> u])
    BY DEF RevokeSessions
  <2>2. request'[r] = [pc |-> "keys", user |-> u]
    <3> HIDE DEF u
    <3> QED BY <2>1 DEF Overtake
  <2> QED BY <2>2
<1>7. SessionsCurrent'
  <2> SUFFICES ASSUME NEW t \in Tokens, Live(t)' PROVE Current(session[t], {"cut"})'
    BY DEF SessionsCurrent
  <2>1. Current(session[t], {"cut"})
    BY <1>4 DEF PasswordsInv, SessionsCurrent
  <2> QED BY <1>1, <1>3, <1>4, <2>1 DEF Current, Revoking
<1>8. KeysCurrent'
  <2> SUFFICES ASSUME NEW k \in Keys, key'[k] # None PROVE Current(key[k], {"cut", "keys"})'
    BY DEF KeysCurrent
  <2>1. Current(key[k], {"cut", "keys"})
    BY <1>5 DEF PasswordsInv, KeysCurrent
  <2>2. CASE key[k].user = u
    BY <1>5, <1>6, <2>2 DEF Current, Revoking
  <2>3. CASE key[k].user # u
    BY <1>3, <1>5, <2>1, <2>3 DEF Current, Revoking
  <2> QED BY <2>2, <2>3
<1>9. Carried'
  <2> SUFFICES ASSUME NEW q \in Requests
               PROVE  /\ request'[q].pc \in {"rotate", "issue"} => Current(request[q], {"cut"})'
                      /\ request'[q].pc = "insert" => Current(request[q], {"cut", "keys"})'
    BY DEF Carried
  <2>1. CASE q = r
    <3>1. request'[q] = asked
      BY <2>1, <1>O DEF Overtaken
    <3> QED BY <1>2, <3>1
  <2>2. CASE q # r
    <3> DEFINE p == request[q].password
               p2 == request'[q].password
    <3>1. /\ request'[q].pc = request[q].pc
          /\ request[q].pc # "idle" => request'[q].user = request[q].user
          /\ request[q].pc \in {"rotate", "issue", "insert"} =>
               p2 = IF request[q].pc \in pcs /\ request[q].user = u THEN None ELSE p
      BY <2>2, <1>O DEF Overtaken
    <3>2. ASSUME request[q].pc \in {"rotate", "issue"}
          PROVE  Current(request[q], {"cut"})'
      <4>1. Current(request[q], {"cut"})
        BY <3>2 DEF PasswordsInv, Carried
      <4>2. CASE request[q].user # u \/ request[r].pc # "cut"
        BY <1>3, <3>1, <3>2, <4>1, <4>2 DEF Current, Revoking
      <4>3. CASE request[q].user = u /\ request[r].pc = "cut"
        BY <1>2, <3>1, <3>2, <4>3 DEF Current
      <4> QED BY <4>2, <4>3
    <3>3. ASSUME request[q].pc = "insert"
          PROVE  Current(request[q], {"cut", "keys"})'
      <4>1. Current(request[q], {"cut", "keys"})
        BY <3>3 DEF PasswordsInv, Carried
      <4>2. CASE request[q].user # u
        BY <1>3, <3>1, <3>3, <4>1, <4>2 DEF Current, Revoking
      <4>3. CASE request[q].user = u /\ RevokeSessions(r)
        BY <1>6, <3>1, <3>3, <4>3 DEF Current, Revoking
      <4>4. CASE request[q].user = u /\ ~RevokeSessions(r)
        BY <1>2, <3>1, <3>3, <4>4 DEF Current
      <4> QED BY <4>2, <4>3, <4>4
    <3> QED BY <3>1, <3>2, <3>3
  <2> QED BY <2>1, <2>2
<1> QED BY <1>7, <1>8, <1>9

LEMMA PasswordsStep == AccountsTypeOK /\ PasswordsInv /\ [AccountsNext]_accountVars => PasswordsInv'
<1> SUFFICES ASSUME AccountsTypeOK, PasswordsInv, [AccountsNext]_accountVars PROVE PasswordsInv'
  OBVIOUS
<1> DEFINE Others == SessionsCurrent /\ KeysCurrent /\ Carried
<1> SUFFICES Others'
  BY KnownStep DEF PasswordsInv
<1> USE DEF credentials
\* The first password of a user: nobody else's changes, and the user has no credential.
<1>1. ASSUME NEW r \in Requests, NEW u \in Holders, Register(r, u)
      PROVE  Others'
  <2>1. /\ \A v \in Holders \ {u} : password'[v] = password[v]
        /\ account[u] = "none" /\ UNCHANGED <<session, key>>
    BY <1>1 DEF Register, AccountsTypeOK
  <2>2. \A q \in Requests : request'[q].pc \in {"rotate", "issue", "insert", "cut", "keys"}
                             \/ request[q].pc \in {"rotate", "issue", "insert", "cut", "keys"} =>
          request'[q] = request[q]
    <3>1. UNCHANGED request \/ Enter(r, [pc |-> "invalidate", kind |-> "confirm", user |-> u])
      BY <1>1 DEF Register
    <3>2. CASE UNCHANGED request
      BY <3>2
    <3>3. CASE Enter(r, [pc |-> "invalidate", kind |-> "confirm", user |-> u])
      BY <3>3 DEF Enter, AccountsTypeOK
    <3> QED BY <3>1, <3>2, <3>3
  <2>3. /\ \A t \in Tokens : Live(t) => session[t].user \in Holders \ {u}
        /\ \A k \in Keys : key[k] # None => key[k].user \in Holders \ {u}
        /\ \A q \in Requests : request[q].pc # "idle" => request[q].user \in Holders \ {u}
    BY <2>1, KeyHolders, StepShape DEF PasswordsInv, Known, Live, Issued, AccountsTypeOK
  <2>4. \A q \in Requests, v \in Holders, P \in {{"cut"}, {"cut", "keys"}} :
          request[q].pc \in P /\ request[q].user = v => request'[q].pc \in P /\ request'[q].user = v
    BY <2>2
  <2>5. SessionsCurrent'
    BY <2>1, <2>3, <2>4 DEF PasswordsInv, SessionsCurrent, Current, Revoking, Live
  <2>6. KeysCurrent'
    BY <2>1, <2>3, <2>4 DEF PasswordsInv, KeysCurrent, Current, Revoking
  <2>7. Carried'
    BY <2>1, <2>2, <2>3, <2>4 DEF PasswordsInv, Carried, Current, Revoking
  <2> QED BY <2>5, <2>6, <2>7
<1>2. ASSUME NEW r \in Requests, NEW u \in Holders,
             \/ ForgotPassword(r, u) \/ ResendConfirmation(r, u) \/ ChangePassword(r, u)
      PROVE  Others'
  BY <1>2, PlainStep DEF ForgotPassword, ResendConfirmation, ChangePassword, Enter, Live
<1>3. ASSUME NEW r \in Requests, NEW u \in Holders, Login(r, u) \/ SingleSignOn(r, u)
      PROVE  Others'
  <2>1. Current(SignIn(u), {"cut"}) /\ SignIn(u).pc = "issue"
    BY DEF Current, SignIn
  <2> QED BY <1>3, <2>1, PlainStep DEF Login, SingleSignOn, Enter, Live
<1>4. ASSUME NEW r \in Requests, NEW u \in Holders, CountKeys(r, u)
      PROVE  Others'
  <2> DEFINE asked == [pc |-> "insert", user |-> u, password |-> password[u]]
  <2>1. Current(asked, {"cut", "keys"}) /\ asked.pc = "insert"
    BY DEF Current
  <2> QED BY <1>4, <2>1, PlainStep DEF CountKeys, Enter, Live
<1>5. ASSUME NEW r \in Requests, InvalidateLinks(r) PROVE Others'
  <2>1. [request[r] EXCEPT !.pc = "store"].pc = "store"
    BY <1>5 DEF InvalidateLinks, AccountsTypeOK, RequestStep
  <2> QED BY <1>5, <2>1, PlainStep DEF InvalidateLinks, Proceed, Live
<1>6. ASSUME NEW r \in Requests, MarkLink(r) PROVE Others'
  <2>1. request[r].next \in {"verify", "change"}
    BY <1>6, StepShape DEF MarkLink, AccountsTypeOK
  <2> QED BY <1>6, <2>1, PlainStep DEF MarkLink, Proceed, Live
<1>7. ASSUME NEW r \in Requests, VerifyAccount(r) PROVE Others'
  BY <1>7, PlainStep DEF VerifyAccount, Finish, Waiting, Live
\* A new password: the revocations are to come.
<1>8. ASSUME NEW r \in Requests, SetPassword(r) PROVE Others'
  <2> DEFINE u == request[r].user
  <2>1. /\ request'[r].pc = "cut" /\ request'[r].user = u
        /\ \A q \in Requests \ {r} : request'[q] = request[q]
        /\ request[r].pc = "change"
    BY <1>8 DEF SetPassword, Proceed, AccountsTypeOK, RequestStep
  <2>2. /\ \A v \in Holders \ {u} : password'[v] = password[v]
        /\ UNCHANGED <<session, key>>
    BY <1>8 DEF SetPassword, AccountsTypeOK
  <2>3. /\ \A t \in Tokens : Live(t) => session[t].user \in Holders
        /\ \A k \in Keys : key[k] # None => key[k].user \in Holders
        /\ \A q \in Requests : request[q].pc # "idle" => request[q].user \in Holders
    BY KeyHolders, StepShape DEF Live, Issued, AccountsTypeOK
  <2>4. \A q \in Requests, v \in Holders, P \in {{"cut"}, {"cut", "keys"}} :
          request[q].pc \in P /\ request[q].user = v => request'[q].pc \in P /\ request'[q].user = v
    BY <2>1
  <2>5. SessionsCurrent'
    BY <2>1, <2>2, <2>3, <2>4 DEF PasswordsInv, SessionsCurrent, Current, Revoking, Live
  <2>6. KeysCurrent'
    BY <2>1, <2>2, <2>3, <2>4 DEF PasswordsInv, KeysCurrent, Current, Revoking
  <2>7. Carried'
    BY <2>1, <2>2, <2>3, <2>4 DEF PasswordsInv, Carried, Current, Revoking
  <2> QED BY <2>5, <2>6, <2>7
<1>9. ASSUME NEW r \in Requests, RevokeSessions(r) \/ DeleteKeys(r) PROVE Others'
  BY <1>9, RevokingStep
<1>10. ASSUME NEW r \in Requests, RevokeToken(r) PROVE Others'
  <2>1. Current(Successor(r), {"cut"}) /\ Successor(r).pc = "issue"
    BY <1>10 DEF RevokeToken, PasswordsInv, Carried, Current, Successor
  <2>2. \A t \in Tokens : Live(t)' => Live(t) /\ session'[t] = session[t]
    BY <1>10 DEF RevokeToken, Live, Revoked, AccountsTypeOK
  <2> QED BY <1>10, <2>1, <2>2, PlainStep DEF RevokeToken, Proceed
<1>11. ASSUME NEW r \in Requests, Fail(r) PROVE Others'
  <2>1. CASE request[r].pc \in {"cut", "keys"}
    BY <1>11, <2>1, RevokingStep
  <2>2. CASE request[r].pc \notin {"cut", "keys"}
    BY <1>11, <2>2, PlainStep DEF Fail, Finish, Waiting, Live
  <2> QED BY <2>1, <2>2
<1>12. ASSUME NEW r \in Requests, NEW l \in Links, StoreLink(r, l) PROVE Others'
  BY <1>12, PlainStep DEF StoreLink, Finish, Waiting, Live
<1>13. ASSUME NEW r \in Requests, NEW l \in Links, FollowLink(r, l) PROVE Others'
  BY <1>13, PlainStep DEF FollowLink, Enter, Live
<1>14. ASSUME NEW r \in Requests, NEW t \in Tokens, Refresh(r, t) PROVE Others'
  <2> DEFINE asked == [pc |-> "rotate", token |-> t, user |-> session[t].user,
                     root |-> session[t].root, password |-> session[t].password]
  <2>1. Current(asked, {"cut"}) /\ asked.pc = "rotate"
    BY <1>14 DEF Refresh, PasswordsInv, SessionsCurrent, Current
  <2> QED BY <1>14, <2>1, PlainStep DEF Refresh, Enter, Live
<1>15. ASSUME NEW r \in Requests, NEW t \in Tokens, IssueTokens(r, t) PROVE Others'
  <2>1. /\ session'[t].user = request[r].user
        /\ session'[t].password = request[r].password
        /\ \A s \in Tokens \ {t} : session'[s] = session[s]
    BY <1>15 DEF IssueTokens, AccountsTypeOK
  <2>2. Current(session'[t], {"cut"})
    BY <1>15, <2>1 DEF IssueTokens, PasswordsInv, Carried, Current
  <2>3. \A s \in Tokens : Live(s)' => \/ Live(s) /\ session'[s] = session[s]
                                     \/ Current(session'[s], {"cut"})
    BY <2>1, <2>2 DEF Live
  <2> QED BY <1>15, <2>3, PlainStep DEF IssueTokens, Finish, Waiting
<1>16. ASSUME NEW r \in Requests, NEW k \in Keys, InsertKey(r, k) PROVE Others'
  <2>1. /\ key'[k].user = request[r].user
        /\ key'[k].password = request[r].password
        /\ \A j \in Keys \ {k} : key'[j] = key[j]
    BY <1>16 DEF InsertKey, AccountsTypeOK
  <2>2. Current(key'[k], {"cut", "keys"})
    BY <1>16, <2>1 DEF InsertKey, PasswordsInv, Carried, Current
  <2>3. \A j \in Keys : key'[j] # None => \/ key'[j] = key[j]
                                         \/ Current(key'[j], {"cut", "keys"})
    BY <2>1, <2>2
  <2> QED BY <1>16, <2>3, PlainStep DEF InsertKey, Finish, Waiting, Live
<1>17. ASSUME NEW l \in Links, ExpireLink(l) PROVE Others'
  BY <1>17, EndingStep DEF ExpireLink, Live
<1>18. ASSUME NEW t \in Tokens, Logout(t) PROVE Others'
  BY <1>18, EndingStep DEF Logout, Live, Revoked, AccountsTypeOK
<1>19. ASSUME NEW k \in Keys, DeleteKey(k) PROVE Others'
  BY <1>19, EndingStep DEF DeleteKey, Live, AccountsTypeOK
<1>20. CASE UNCHANGED accountVars
  BY <1>20, EndingStep DEF accountVars, Live
<1> QED BY <1>1, <1>2, <1>3, <1>4, <1>5, <1>6, <1>7, <1>8, <1>9, <1>10, <1>11, <1>12, <1>13,
           <1>14, <1>15, <1>16, <1>17, <1>18, <1>19, <1>20 DEF AccountsNext

\* A session or a key of an older password is alive only while its revocation is still
\* to come, or if the revocation failed or overtook the request that made it.
THEOREM PasswordsEnd == AccountsSpec => []OldPasswordsEnd
<1>1. AccountsInit => AccountsTypeOK /\ PasswordsInv
  BY AccountsTypeInit, PasswordsInit
<1>2. AccountsTypeOK /\ PasswordsInv /\ [AccountsNext]_accountVars => (AccountsTypeOK /\ PasswordsInv)'
  BY AccountsTypeStep, PasswordsStep
<1>3. PasswordsInv => OldPasswordsEnd
  BY PasswordsMeaning DEF PasswordsInv
<1> QED BY <1>1, <1>2, <1>3, PTL DEF AccountsSpec

(***************************************************************************)
(* Rotation.  Roots are tokens that were issued, and a token is never      *)
(* issued twice: what a request has validated is what it revokes.          *)
(***************************************************************************)
Rooted ==
  /\ \A t \in Tokens : Live(t) => Issued(session[t].root)
  /\ \A r \in Requests : request[r].pc = "issue" /\ request[r].root # None => Issued(request[r].root)
  /\ \A r \in Requests : request[r].pc = "rotate" =>
       /\ Issued(request[r].root) /\ Issued(request[r].token)
       /\ Live(request[r].token) => session[request[r].token].root = request[r].root

\* What a step does to tokens that neither rotates one nor issues one.
SessionsQuiet ==
  \A t \in Tokens :
    /\ Issued(t) => Issued(t)'
    /\ Live(t)' => Live(t) /\ session'[t].root = session[t].root
RequestQuiet(q) ==
  /\ request'[q].pc = "issue" =>
       \/ request[q].pc = "issue" /\ request'[q].root = request[q].root
       \/ request'[q].root = None
  /\ request'[q].pc = "rotate" =>
       \/ request[q].pc = "rotate" /\ request'[q].root = request[q].root
            /\ request'[q].token = request[q].token
       \/ request'[q].token \in Tokens /\ Live(request'[q].token)
            /\ request'[q].root = session[request'[q].token].root
NothingNew == UNCHANGED respent /\ SessionsQuiet /\ \A q \in Requests : RequestQuiet(q)

LEMMA RevokedIsIssued == \A u \in Holders : Revoked(u) # None /\ ~Revoked(u).live
<1> SUFFICES ASSUME NEW u \in Holders PROVE Revoked(u) # None /\ ~Revoked(u).live
  OBVIOUS
<1>1. Revoked(u) \in Session
  BY DEF Revoked, Session
<1>2. ~Revoked(u).live
  BY DEF Revoked
<1> QED BY <1>1, <1>2, NoRow

LEMMA QuietRequest ==
  ASSUME AccountsTypeOK, UNCHANGED <<session, respent>>, NEW r \in Requests, NEW asked,
         request' = [request EXCEPT ![r] = asked],
         asked.pc = "issue" => asked.root = None,
         asked.pc = "rotate" => /\ asked.token \in Tokens /\ Live(asked.token)
                              /\ asked.root = session[asked.token].root
  PROVE  NothingNew
  BY DEF NothingNew, SessionsQuiet, RequestQuiet, Issued, Live, AccountsTypeOK

LEMMA QuietRevocation ==
  ASSUME AccountsTypeOK, NEW r \in Requests,
         RevokeSessions(r) \/ DeleteKeys(r) \/ (Fail(r) /\ request[r].pc \in {"cut", "keys"})
  PROVE  NothingNew
<1> DEFINE u == request[r].user
<1> USE DEF credentials
<1>1. u \in Holders /\ UNCHANGED respent
  BY StepShape DEF RevokeSessions, DeleteKeys, Fail, AccountsTypeOK
<1>2. PICK pcs \in SUBSET {"rotate", "issue", "insert"}, asked \in RequestStep :
        Overtake(r, u, pcs, asked) /\ asked.pc \in {"idle", "keys"}
  <2> [pc |-> "keys", user |-> u] \in RequestStep /\ Waiting \in RequestStep
    BY <1>1 DEF RequestStep, Waiting
  <2> QED BY DEF RevokeSessions, DeleteKeys, Fail, Waiting
<1>O. \A q \in Requests : Overtaken(r, u, pcs, asked, q)
  BY <1>1, <1>2, OvertakeShape
<1>3. SessionsQuiet
  <2>1. CASE session' = MissSessions(u)
    BY <1>1, <2>1, MissSessionsKnown DEF SessionsQuiet
  <2>2. CASE session' = [t \in Tokens |-> IF Issued(t) /\ session[t].user = u
                                            THEN Revoked(u) ELSE session[t]]
    BY <1>1, <2>2, RevokedIsIssued DEF SessionsQuiet, Live, Issued
  <2>3. CASE UNCHANGED session
    BY <2>3 DEF SessionsQuiet, Live, Issued
  <2> QED BY <1>1, <2>1, <2>2, <2>3 DEF RevokeSessions, DeleteKeys, Fail
<1>4. ASSUME NEW q \in Requests PROVE RequestQuiet(q)
  <2>1. CASE q = r
    <3>1. request'[q] = asked
      BY <2>1, <1>O DEF Overtaken
    <3> QED BY <1>2, <3>1 DEF RequestQuiet
  <2>2. CASE q # r
    BY <2>2, <1>O DEF Overtaken, RequestQuiet
  <2> QED BY <2>1, <2>2
<1> QED BY <1>1, <1>3, <1>4 DEF NothingNew

LEMMA TokenSteps ==
  ASSUME AccountsTypeOK, [AccountsNext]_accountVars
  PROVE  \/ NothingNew
         \/ \E r \in Requests : RevokeToken(r)
         \/ \E r \in Requests, t \in Tokens : IssueTokens(r, t)
<1> USE DEF credentials
<1>1. ASSUME NEW r \in Requests, NEW u \in Holders, Register(r, u) PROVE NothingNew
  <2> DEFINE asked == [pc |-> "invalidate", kind |-> "confirm", user |-> u]
  <2>1. Enter(r, asked) \/ UNCHANGED request
    BY <1>1 DEF Register
  <2>2. CASE Enter(r, asked)
    BY <1>1, <2>2, QuietRequest DEF Register, Enter
  <2>3. CASE UNCHANGED request
    BY <1>1, <2>3 DEF Register, NothingNew, SessionsQuiet, RequestQuiet, Issued, Live
  <2> QED BY <2>1, <2>2, <2>3
<1>2. ASSUME NEW r \in Requests, NEW u \in Holders,
             \/ ForgotPassword(r, u) \/ ResendConfirmation(r, u) \/ ChangePassword(r, u)
             \/ Login(r, u) \/ SingleSignOn(r, u) \/ CountKeys(r, u)
      PROVE  NothingNew
  BY <1>2, QuietRequest DEF ForgotPassword, ResendConfirmation, ChangePassword, Login,
     SingleSignOn, CountKeys, Enter, SignIn
<1>3. ASSUME NEW r \in Requests, InvalidateLinks(r) \/ MarkLink(r) \/ VerifyAccount(r) \/ SetPassword(r)
      PROVE  NothingNew
  <2>1. InvalidateLinks(r) => [request[r] EXCEPT !.pc = "store"].pc = "store"
    BY DEF InvalidateLinks, AccountsTypeOK, RequestStep
  <2>2. SetPassword(r) => [request[r] EXCEPT !.pc = "cut"].pc = "cut"
    BY DEF SetPassword, AccountsTypeOK, RequestStep
  <2>3. MarkLink(r) => request[r].next \in {"verify", "change"}
    BY StepShape DEF MarkLink, AccountsTypeOK
  <2>4. PICK asked : /\ request' = [request EXCEPT ![r] = asked]
                   /\ asked.pc \notin {"issue", "rotate"}
    <3>1. CASE InvalidateLinks(r)
      <4> DEFINE next == [request[r] EXCEPT !.pc = "store"]
      <4>1. request' = [request EXCEPT ![r] = next]
        BY <3>1 DEF InvalidateLinks, Proceed
      <4>2. next.pc = "store"
        BY <2>1, <3>1
      <4> HIDE DEF next
      <4> QED BY <4>1, <4>2
    <3>2. CASE MarkLink(r)
      <4> DEFINE next == [pc |-> request[r].next, user |-> request[r].user]
      <4>1. request' = [request EXCEPT ![r] = next]
        BY <3>2 DEF MarkLink, Proceed
      <4>2. next.pc \in {"verify", "change"}
        BY <2>3, <3>2
      <4> HIDE DEF next
      <4> QED BY <4>1, <4>2
    <3>3. CASE VerifyAccount(r)
      <4>1. request' = [request EXCEPT ![r] = Waiting]
        BY <3>3 DEF VerifyAccount, Finish
      <4>2. Waiting.pc = "idle"
        BY DEF Waiting
      <4> QED BY <4>1, <4>2
    <3>4. CASE SetPassword(r)
      <4> DEFINE next == [request[r] EXCEPT !.pc = "cut"]
      <4>1. request' = [request EXCEPT ![r] = next]
        BY <3>4 DEF SetPassword, Proceed
      <4>2. next.pc = "cut"
        BY <2>2, <3>4
      <4> HIDE DEF next
      <4> QED BY <4>1, <4>2
    <3> QED BY <1>3, <3>1, <3>2, <3>3, <3>4
  <2>5. UNCHANGED <<session, respent>>
    BY <1>3 DEF InvalidateLinks, MarkLink, VerifyAccount, SetPassword
  <2>6. /\ asked.pc = "issue" => asked.root = None
        /\ asked.pc = "rotate" => /\ asked.token \in Tokens /\ Live(asked.token)
                                 /\ asked.root = session[asked.token].root
    BY <2>4
  <2> QED BY <2>4, <2>5, <2>6, QuietRequest
<1>4. ASSUME NEW r \in Requests, RevokeSessions(r) \/ DeleteKeys(r) \/ Fail(r)
      PROVE  NothingNew
  <2>1. CASE Fail(r) /\ request[r].pc \notin {"cut", "keys"}
    BY <2>1, QuietRequest DEF Fail, Finish, Waiting
  <2> QED BY <1>4, <2>1, QuietRevocation
<1>5. ASSUME NEW r \in Requests, NEW l \in Links, StoreLink(r, l) \/ FollowLink(r, l)
      PROVE  NothingNew
  BY <1>5, QuietRequest DEF StoreLink, FollowLink, Enter, Finish, Waiting
<1>6. ASSUME NEW r \in Requests, NEW t \in Tokens, Refresh(r, t) PROVE NothingNew
  BY <1>6, QuietRequest DEF Refresh, Enter
<1>7. ASSUME NEW r \in Requests, NEW k \in Keys, InsertKey(r, k) PROVE NothingNew
  BY <1>7, QuietRequest DEF InsertKey, Finish, Waiting
<1>8. ASSUME NEW t \in Tokens, Logout(t) PROVE NothingNew
  <2>1. session[t].user \in Holders
    BY <1>8, KeyHolders DEF Logout
  <2> QED BY <1>8, <2>1, RevokedIsIssued DEF Logout, NothingNew, SessionsQuiet, RequestQuiet, Issued, Live, AccountsTypeOK
<1>9. CASE (\E l \in Links : ExpireLink(l)) \/ (\E k \in Keys : DeleteKey(k)) \/ UNCHANGED accountVars
  BY <1>9 DEF ExpireLink, DeleteKey, accountVars, NothingNew, SessionsQuiet, RequestQuiet, Issued, Live
<1> QED BY <1>1, <1>2, <1>3, <1>4, <1>5, <1>6, <1>7, <1>8, <1>9 DEF AccountsNext

LEMMA RootedInit == AccountsInit => Rooted
  BY NoRow DEF AccountsInit, Rooted, Live, Waiting

LEMMA RootedStep == AccountsTypeOK /\ Rooted /\ [AccountsNext]_accountVars => Rooted'
<1> SUFFICES ASSUME AccountsTypeOK, Rooted, [AccountsNext]_accountVars PROVE Rooted'
  OBVIOUS
<1>1. /\ \A t \in Tokens : Live(t) => session[t].root \in Tokens
      /\ \A r \in Requests : request[r].pc = "issue" => request[r].root \in Tokens \cup {None}
      /\ \A r \in Requests : request[r].pc = "rotate" =>
           request[r].root \in Tokens /\ request[r].token \in Tokens
  BY SessionShape, StepShape DEF AccountsTypeOK, Live
<1>2. CASE NothingNew
  <2>1. \A t \in Tokens : Live(t)' => Issued(session[t].root)'
    BY <1>1, <1>2 DEF NothingNew, SessionsQuiet, Rooted, Issued
  <2>2. ASSUME NEW r \in Requests, request'[r].pc = "issue", request'[r].root # None
        PROVE  Issued(request[r].root)'
    BY <1>1, <1>2, <2>2 DEF NothingNew, SessionsQuiet, RequestQuiet, Rooted, Issued
  <2>3. ASSUME NEW r \in Requests, request'[r].pc = "rotate"
        PROVE  /\ Issued(request[r].root)' /\ Issued(request[r].token)'
               /\ Live(request[r].token)' => session'[request'[r].token].root = request'[r].root
    <3>1. CASE /\ request[r].pc = "rotate" /\ request'[r].root = request[r].root
               /\ request'[r].token = request[r].token
      BY <1>1, <1>2, <3>1 DEF NothingNew, SessionsQuiet, Rooted, Issued, Live
    <3>2. CASE /\ request'[r].token \in Tokens /\ Live(request'[r].token)
               /\ request'[r].root = session[request'[r].token].root
      BY <1>1, <1>2, <3>2 DEF NothingNew, SessionsQuiet, Rooted, Issued, Live
    <3> QED BY <1>2, <2>3, <3>1, <3>2 DEF NothingNew, RequestQuiet
  <2> QED BY <2>1, <2>2, <2>3 DEF Rooted
<1>3. ASSUME NEW r \in Requests, RevokeToken(r) PROVE Rooted'
  <2> DEFINE token == request[r].token
  <2>1. /\ session' = [session EXCEPT ![token] = Revoked(request[r].user)]
        /\ token \in Tokens /\ request[r].user \in Holders /\ request[r].pc = "rotate"
        /\ request' = [request EXCEPT ![r] = Successor(r)]
    BY <1>3, <1>1, StepShape DEF RevokeToken, Proceed, AccountsTypeOK
  <2>2. \A t \in Tokens : Live(t)' => Live(t) /\ session'[t] = session[t]
    BY <2>1, RevokedIsIssued DEF Live, AccountsTypeOK
  <2>3. /\ request'[r].pc = "issue" /\ request'[r].root = request[r].root
        /\ \A q \in Requests \ {r} : request'[q] = request[q]
    BY <2>1 DEF Successor, AccountsTypeOK
  <2>4. \A t \in Tokens : session[t] # None => session'[t] # None
    BY <2>1, RevokedIsIssued DEF AccountsTypeOK
  <2>5. ASSUME NEW t \in Tokens, Live(t)' PROVE Issued(session[t].root)'
    <3>1. Live(t) /\ session'[t] = session[t]
      BY <2>2, <2>5 DEF Live
    <3>2. session[t].root \in Tokens /\ session[session[t].root] # None
      BY <1>1, <3>1 DEF Rooted, Issued
    <3>3. session'[session[t].root] # None
      BY <2>4, <3>2
    <3> QED BY <3>1, <3>3 DEF Issued
  <2>6. ASSUME NEW q \in Requests, request'[q].pc = "issue", request'[q].root # None
        PROVE  Issued(request[q].root)'
    <3>1. request'[q].root \in Tokens /\ session[request'[q].root] # None
      BY <1>1, <2>1, <2>3, <2>6 DEF Rooted, Issued
    <3>2. session'[request'[q].root] # None
      BY <2>4, <3>1
    <3> QED BY <3>2 DEF Issued
  <2>7. ASSUME NEW q \in Requests, request'[q].pc = "rotate"
        PROVE  /\ Issued(request[q].root)' /\ Issued(request[q].token)'
               /\ Live(request[q].token)' => session'[request'[q].token].root = request'[q].root
    <3>1. request'[q] = request[q]
      BY <2>3, <2>7
    <3>2. /\ request[q].root \in Tokens /\ request[q].token \in Tokens
          /\ session[request[q].root] # None /\ session[request[q].token] # None
          /\ Live(request[q].token) => session[request[q].token].root = request[q].root
      BY <1>1, <2>7, <3>1 DEF Rooted, Issued
    <3>3. session'[request[q].root] # None /\ session'[request[q].token] # None
      BY <2>4, <3>2
    <3>4. Live(request[q].token)' => session'[request[q].token].root = request[q].root
      BY <2>2, <3>1, <3>2 DEF Live
    <3> QED BY <3>1, <3>3, <3>4 DEF Issued
  <2> QED BY <2>5, <2>6, <2>7 DEF Rooted
<1>4. ASSUME NEW r \in Requests, NEW t \in Tokens, IssueTokens(r, t) PROVE Rooted'
  <2> DEFINE root == IF request[r].root = None THEN t ELSE request[r].root
  <2>1. /\ ~Issued(t) /\ request[r].pc = "issue"
        /\ session'[t] \in Session /\ session'[t].root = root
        /\ \A s \in Tokens \ {t} : session'[s] = session[s]
        /\ request'[r].pc = "idle"
        /\ \A q \in Requests \ {r} : request'[q] = request[q]
    <3>1. session'[t].root = root
      BY <1>4 DEF IssueTokens, AccountsTypeOK
    <3>2. session'[t] # None /\ session'[t] \in Session
      <4>1. request[r].user \in Holders /\ root \in Tokens /\ request[r].password \in Password
        BY <1>1, <1>4, StepShape DEF IssueTokens, AccountsTypeOK
      <4>2. [user |-> request[r].user, live |-> TRUE, root |-> root,
             password |-> request[r].password] \in Session
        BY <4>1 DEF Session
      <4>3. session'[t] \in Session
        BY <1>4, <4>2 DEF IssueTokens, AccountsTypeOK
      <4> QED BY <4>3, NoRow
    <3> QED BY <1>4, <3>1, <3>2 DEF IssueTokens, NextToken, Finish, Waiting, AccountsTypeOK
  <2>2. Issued(t)' /\ \A s \in Tokens : Issued(s) => Issued(s)' /\ s # t
    BY <2>1, NoRow DEF Issued
  <2>3. root \in Tokens /\ session'[root] # None
    BY <1>1, <2>1, <2>2 DEF Rooted, Issued
  <2>4. \A s \in Tokens : Live(s)' => Issued(session[s].root)'
    BY <1>1, <2>1, <2>2, <2>3 DEF Rooted, Live, Issued
  <2>5. \A q \in Requests : request'[q].pc = "issue" /\ request'[q].root # None => Issued(request[q].root)'
    BY <1>1, <2>1, <2>2 DEF Rooted, Issued
  <2>6. ASSUME NEW q \in Requests, request'[q].pc = "rotate"
        PROVE  /\ Issued(request[q].root)' /\ Issued(request[q].token)'
               /\ Live(request[q].token)' => session'[request'[q].token].root = request'[q].root
    <3>1. request'[q] = request[q]
      BY <2>1, <2>6
    <3>2. request[q].token # t
      BY <1>1, <2>1, <2>6, <3>1 DEF Rooted
    <3> QED BY <1>1, <2>1, <2>2, <2>6, <3>1, <3>2 DEF Rooted, Issued, Live
  <2> QED BY <2>4, <2>5, <2>6 DEF Rooted
<1> QED BY <1>2, <1>3, <1>4, TokenSteps

\* Counting: what is taken out of one set is put into the other, or accounted for.
LEMMA Sum ==
  ASSUME AccountsTypeOK, NEW t \in Tokens
  PROVE  /\ IsFiniteSet(TokensOf(t)) /\ IsFiniteSet(OnTheWay(t))
         /\ Cardinality(TokensOf(t)) \in Nat /\ Cardinality(OnTheWay(t)) \in Nat
<1>1. TokensOf(t) \subseteq Tokens /\ OnTheWay(t) \subseteq Requests
  BY DEF TokensOf, OnTheWay
<1> QED BY <1>1, AccountsAssumption, FS_Subset, FS_CardinalityType

LEMMA RotationInit == AccountsInit => RotationConserves
<1> SUFFICES ASSUME AccountsInit, NEW t \in Tokens
             PROVE  Cardinality(TokensOf(t)) + Cardinality(OnTheWay(t)) <= 1 + respent[t]
  BY DEF RotationConserves
<1>1. TokensOf(t) = {} /\ OnTheWay(t) = {} /\ respent[t] = 0
  BY NoRow DEF AccountsInit, TokensOf, OnTheWay, Live, Waiting
<1> QED BY <1>1, FS_EmptySet

LEMMA RotationStep ==
  AccountsTypeOK /\ Rooted /\ RotationConserves /\ [AccountsNext]_accountVars => RotationConserves'
<1> SUFFICES ASSUME AccountsTypeOK, Rooted, RotationConserves, [AccountsNext]_accountVars,
                    NEW t \in Tokens
             PROVE  (Cardinality(TokensOf(t)) + Cardinality(OnTheWay(t)) <= 1 + respent[t])'
  BY DEF RotationConserves
<1> DEFINE A == TokensOf(t)  B == OnTheWay(t)
<1>1. /\ Cardinality(A) + Cardinality(B) <= 1 + respent[t]
      /\ Cardinality(A) \in Nat /\ Cardinality(B) \in Nat /\ respent[t] \in Nat
      /\ IsFiniteSet(A) /\ IsFiniteSet(B)
  BY Sum DEF RotationConserves, AccountsTypeOK
<1>2. AccountsTypeOK'
  BY AccountsTypeStep
<1>3. /\ Cardinality(A') \in Nat /\ Cardinality(B') \in Nat /\ respent'[t] \in Nat
  <2>1. A' \subseteq Tokens /\ B' \subseteq Requests
    BY DEF TokensOf, OnTheWay
  <2> QED BY <1>2, <2>1, AccountsAssumption, FS_Subset, FS_CardinalityType DEF AccountsTypeOK
<1>4. ASSUME A' \subseteq A, B' \subseteq B, respent'[t] = respent[t]
      PROVE  Cardinality(A') + Cardinality(B') <= 1 + respent'[t]
  <2>1. Cardinality(A') <= Cardinality(A) /\ Cardinality(B') <= Cardinality(B)
    BY <1>1, <1>4, FS_Subset
  <2> HIDE DEF A, B
  <2> QED BY <1>1, <1>3, <1>4, <2>1
<1>5. CASE NothingNew
  <2>1. A' \subseteq A
    BY <1>5 DEF NothingNew, SessionsQuiet, TokensOf, Live, Issued
  <2>2. B' \subseteq B
    BY <1>5, AccountsAssumption DEF NothingNew, RequestQuiet, OnTheWay
  <2> QED BY <1>4, <1>5, <2>1, <2>2 DEF NothingNew
<1>6. ASSUME NEW r \in Requests, RevokeToken(r)
      PROVE  Cardinality(A') + Cardinality(B') <= 1 + respent'[t]
  <2> DEFINE token == request[r].token
             root == request[r].root
  <2>1. /\ token \in Tokens /\ root \in Tokens /\ request[r].pc = "rotate"
        /\ session' = [session EXCEPT ![token] = Revoked(request[r].user)]
        /\ request' = [request EXCEPT ![r] = Successor(r)]
        /\ respent' = [respent EXCEPT ![root] = respent[root] + (IF Live(token) THEN 0 ELSE 1)]
    BY <1>6, StepShape DEF RevokeToken, Proceed, AccountsTypeOK
  <2>2. \A s \in Tokens : Live(s)' => Live(s) /\ session'[s] = session[s] /\ s # token
    BY <2>1, RevokedIsIssued DEF Live, AccountsTypeOK, Revoked
  <2>3. A' \subseteq A \ {token}
    BY <2>2 DEF TokensOf
  <2>4. /\ request'[r].pc = "issue" /\ request'[r].root = root
        /\ \A q \in Requests \ {r} : request'[q] = request[q]
    BY <2>1 DEF Successor, AccountsTypeOK
  <2>5. CASE t # root
    <3>1. B' \subseteq B
      BY <2>4, <2>5 DEF OnTheWay
    <3>2. respent'[t] = respent[t]
      BY <2>1, <2>5 DEF AccountsTypeOK
    <3> QED BY <1>4, <2>3, <3>1, <3>2
  <2>6. CASE t = root
    <3>1. B' = B \cup {r} /\ r \notin B
      BY <2>1, <2>4, <2>6 DEF OnTheWay
    <3>2. Cardinality(B') = Cardinality(B) + 1
      BY <1>1, <3>1, FS_AddElement
    <3>3. CASE Live(token)
      <4>1. token \in A
        BY <2>1, <2>6, <3>3 DEF TokensOf, Rooted
      <4>2. IsFiniteSet(A \ {token}) /\ Cardinality(A \ {token}) = Cardinality(A) - 1
        BY <1>1, <4>1, FS_RemoveElement
      <4>3. Cardinality(A') <= Cardinality(A) - 1
        BY <2>3, <4>2, FS_Subset
      <4>4. respent'[t] = respent[t]
        BY <1>1, <2>1, <2>6, <3>3 DEF AccountsTypeOK
      <4> HIDE DEF A, B
      <4> QED BY <1>1, <1>3, <3>2, <4>3, <4>4
    <3>4. CASE ~Live(token)
      <4>1. Cardinality(A') <= Cardinality(A)
        BY <1>1, <2>3, FS_Subset
      <4>2. respent'[t] = respent[t] + 1
        BY <1>1, <2>1, <2>6, <3>4 DEF AccountsTypeOK
      <4> HIDE DEF A, B
      <4> QED BY <1>1, <1>3, <3>2, <4>1, <4>2
    <3> QED BY <3>3, <3>4
  <2> QED BY <2>5, <2>6
<1>7. ASSUME NEW r \in Requests, NEW new \in Tokens, IssueTokens(r, new)
      PROVE  Cardinality(A') + Cardinality(B') <= 1 + respent'[t]
  <2> DEFINE root == IF request[r].root = None THEN new ELSE request[r].root
  <2>1. /\ ~Issued(new) /\ request[r].pc = "issue" /\ r \in Requests
        /\ session'[new].root = root
        /\ \A s \in Tokens \ {new} : session'[s] = session[s]
        /\ request'[r].pc = "idle"
        /\ \A q \in Requests \ {r} : request'[q] = request[q]
        /\ UNCHANGED respent
    BY <1>7 DEF IssueTokens, NextToken, Finish, Waiting, AccountsTypeOK
  <2>2. new \notin A /\ A' \subseteq A \cup {new}
    BY <2>1 DEF TokensOf, Live, Issued
  <2>3. B' \subseteq B \ {r}
    BY <2>1 DEF OnTheWay
  <2>4. CASE t # root
    <3>1. A' \subseteq A
      BY <2>1, <2>2, <2>4 DEF TokensOf
    <3> QED BY <1>4, <2>1, <2>3, <3>1
  <2>5. CASE t = root /\ request[r].root = None
    <3>1. \A s \in Tokens : Live(s) => session[s].root # new
      BY <2>1 DEF Rooted
    <3>2. A \subseteq {}
      BY <2>5, <3>1 DEF TokensOf
    <3>3. B \subseteq {}
      BY <2>1, <2>5, AccountsAssumption DEF OnTheWay, Rooted
    <3>4. A' \subseteq {new} /\ B' = {}
      BY <2>2, <2>3, <3>2, <3>3
    <3>5. Cardinality(A') <= 1 /\ Cardinality(B') = 0
      <4>1. IsFiniteSet({new}) /\ Cardinality({new}) = 1
        BY FS_Singleton
      <4>2. Cardinality(A') <= Cardinality({new})
        BY <3>4, <4>1, FS_Subset
      <4> QED BY <3>4, <4>1, <4>2, FS_EmptySet
    <3> HIDE DEF A, B
    <3> QED BY <1>3, <3>5
  <2>6. CASE t = root /\ request[r].root # None
    <3>1. r \in B
      BY <2>1, <2>6 DEF OnTheWay
    <3>2. IsFiniteSet(B \ {r}) /\ Cardinality(B \ {r}) = Cardinality(B) - 1
      BY <1>1, <3>1, FS_RemoveElement
    <3>3. Cardinality(B') <= Cardinality(B) - 1
      BY <2>3, <3>2, FS_Subset
    <3>4. IsFiniteSet(A \cup {new}) /\ Cardinality(A \cup {new}) = Cardinality(A) + 1
      BY <1>1, <2>2, FS_AddElement
    <3>5. Cardinality(A') <= Cardinality(A) + 1
      BY <2>2, <3>4, FS_Subset
    <3>6. respent'[t] = respent[t]
      BY <2>1
    <3> HIDE DEF A, B
    <3> QED BY <1>1, <1>3, <3>3, <3>5, <3>6
  <2> QED BY <2>4, <2>5, <2>6
<1> QED BY <1>5, <1>6, <1>7, TokenSteps

\* A sign-in has one live token, or one on its way, and one more for each refresh that
\* revoked what something else had revoked since it was validated.
THEOREM RotationKeepsCount == AccountsSpec => []RotationConserves
<1> DEFINE IInv == AccountsTypeOK /\ Rooted /\ RotationConserves
<1>1. AccountsInit => IInv
  BY AccountsTypeInit, RootedInit, RotationInit
<1>2. IInv /\ [AccountsNext]_accountVars => IInv'
  BY AccountsTypeStep, RootedStep, RotationStep
<1> QED BY <1>1, <1>2, PTL DEF AccountsSpec

(***************************************************************************)
(* The limit on API keys.  A key or an insertion comes after a count below *)
(* the limit; the last of them to count found at most MaxAPIKeys - 1 keys, *)
(* and no more insertions than there are requests.                         *)
(***************************************************************************)
Inserting(u) == {r \in Requests : request[r].pc = "insert" /\ request[r].user = u}

LEMMA KeysFinite ==
  ASSUME NEW u
  PROVE  /\ IsFiniteSet(KeysOf(u)) /\ Cardinality(KeysOf(u)) \in Nat
         /\ IsFiniteSet(Inserting(u)) /\ Cardinality(Inserting(u)) \in Nat
         /\ Cardinality(Inserting(u)) <= Cardinality(Requests)
         /\ Cardinality(Requests) \in Nat
<1>1. KeysOf(u) \subseteq Keys /\ Inserting(u) \subseteq Requests
  BY DEF KeysOf, Inserting
<1> QED BY <1>1, AccountsAssumption, FS_Subset, FS_CardinalityType

LEMMA KeysInit == AccountsInit => KeysBounded
<1> SUFFICES ASSUME AccountsInit, NEW u \in Holders
             PROVE  Cardinality(KeysOf(u)) + Cardinality(Inserting(u))
                      <= MaxAPIKeys + Cardinality(Requests) - 1
  BY DEF KeysBounded, Inserting
<1>1. KeysOf(u) = {} /\ Inserting(u) = {}
  BY DEF AccountsInit, KeysOf, Inserting, Waiting
<1> QED BY <1>1, KeysFinite, FS_EmptySet, AccountsAssumption

\* A step that neither counts nor inserts makes no key and no insertion.
KeysQuiet ==
  /\ \A k \in Keys : key'[k] # None => key[k] # None /\ key'[k].user = key[k].user
  /\ \A q \in Requests : request'[q].pc = "insert" =>
       request[q].pc = "insert" /\ request'[q].user = request[q].user

LEMMA KeysQuietRequest ==
  ASSUME AccountsTypeOK, UNCHANGED key, NEW r \in Requests, NEW asked,
         request' = [request EXCEPT ![r] = asked], asked.pc # "insert"
  PROVE  KeysQuiet
  BY DEF KeysQuiet, AccountsTypeOK

LEMMA KeysQuietRevocation ==
  ASSUME AccountsTypeOK, NEW r \in Requests,
         RevokeSessions(r) \/ DeleteKeys(r) \/ (Fail(r) /\ request[r].pc \in {"cut", "keys"})
  PROVE  KeysQuiet
<1> DEFINE u == request[r].user
<1>1. u \in Holders
  BY StepShape DEF RevokeSessions, DeleteKeys, Fail, AccountsTypeOK
<1>2. PICK pcs \in SUBSET {"rotate", "issue", "insert"}, asked \in RequestStep :
        Overtake(r, u, pcs, asked) /\ asked.pc \in {"idle", "keys"}
  <2> [pc |-> "keys", user |-> u] \in RequestStep /\ Waiting \in RequestStep
    BY <1>1 DEF RequestStep, Waiting
  <2> QED BY DEF RevokeSessions, DeleteKeys, Fail, Waiting
<1>O. \A q \in Requests : Overtaken(r, u, pcs, asked, q)
  BY <1>1, <1>2, OvertakeShape
<1>3. \A k \in Keys : key'[k] # None => key[k] # None /\ key'[k].user = key[k].user
  <2>1. CASE key' = MissKeys(u)
    BY <1>1, <2>1, MissKeysKnown
  <2>2. CASE key' = [k \in Keys |-> IF k \in KeysOf(u) THEN None ELSE key[k]]
    BY <2>2
  <2>3. CASE UNCHANGED key
    BY <2>3
  <2> QED BY <2>1, <2>2, <2>3 DEF RevokeSessions, DeleteKeys, Fail
<1>4. ASSUME NEW q \in Requests, request'[q].pc = "insert"
      PROVE  request[q].pc = "insert" /\ request'[q].user = request[q].user
  <2>1. CASE q = r
    <3>1. request'[q] = asked
      BY <2>1, <1>O DEF Overtaken
    <3> QED BY <1>2, <1>4, <3>1
  <2>2. CASE q # r
    BY <1>4, <2>2, <1>O DEF Overtaken
  <2> QED BY <2>1, <2>2
<1> QED BY <1>3, <1>4 DEF KeysQuiet

LEMMA KeySteps ==
  ASSUME AccountsTypeOK, [AccountsNext]_accountVars
  PROVE  \/ KeysQuiet
         \/ \E r \in Requests, u \in Holders : CountKeys(r, u)
         \/ \E r \in Requests, k \in Keys : InsertKey(r, k)
<1> USE DEF credentials
<1>1. ASSUME NEW r \in Requests, NEW u \in Holders, Register(r, u) PROVE KeysQuiet
  <2> DEFINE asked == [pc |-> "invalidate", kind |-> "confirm", user |-> u]
  <2>1. Enter(r, asked) \/ UNCHANGED request
    BY <1>1 DEF Register
  <2>2. CASE Enter(r, asked)
    <3>1. request' = [request EXCEPT ![r] = asked]
      BY <2>2 DEF Enter
    <3>2. asked.pc # "insert"
      OBVIOUS
    <3>3. UNCHANGED key
      BY <1>1 DEF Register
    <3> HIDE DEF asked
    <3> QED BY <3>1, <3>2, <3>3, KeysQuietRequest
  <2>3. CASE UNCHANGED request
    BY <1>1, <2>3 DEF Register, KeysQuiet
  <2> QED BY <2>1, <2>2, <2>3
<1>2. ASSUME NEW r \in Requests, NEW u \in Holders,
             \/ ForgotPassword(r, u) \/ ResendConfirmation(r, u) \/ ChangePassword(r, u)
             \/ Login(r, u) \/ SingleSignOn(r, u)
      PROVE  KeysQuiet
  BY <1>2, KeysQuietRequest DEF ForgotPassword, ResendConfirmation, ChangePassword, Login,
     SingleSignOn, Enter, SignIn
<1>3. ASSUME NEW r \in Requests, InvalidateLinks(r) \/ MarkLink(r) \/ VerifyAccount(r) \/ SetPassword(r)
      PROVE  KeysQuiet
  <2>1. InvalidateLinks(r) => [request[r] EXCEPT !.pc = "store"].pc = "store"
    BY DEF InvalidateLinks, AccountsTypeOK, RequestStep
  <2>2. SetPassword(r) => [request[r] EXCEPT !.pc = "cut"].pc = "cut"
    BY DEF SetPassword, AccountsTypeOK, RequestStep
  <2>3. MarkLink(r) => request[r].next \in {"verify", "change"}
    BY StepShape DEF MarkLink, AccountsTypeOK
  <2>4. PICK asked : request' = [request EXCEPT ![r] = asked] /\ asked.pc # "insert"
    <3>1. CASE InvalidateLinks(r)
      <4> DEFINE asked == [request[r] EXCEPT !.pc = "store"]
      <4>1. request' = [request EXCEPT ![r] = asked] /\ asked.pc # "insert"
        BY <2>1, <3>1 DEF InvalidateLinks, Proceed
      <4> QED BY <4>1
    <3>2. CASE MarkLink(r)
      <4> DEFINE asked == [pc |-> request[r].next, user |-> request[r].user]
      <4>1. request' = [request EXCEPT ![r] = asked] /\ asked.pc # "insert"
        BY <2>3, <3>2 DEF MarkLink, Proceed
      <4> QED BY <4>1
    <3>3. CASE VerifyAccount(r)
      <4>1. request' = [request EXCEPT ![r] = Waiting] /\ Waiting.pc # "insert"
        BY <3>3 DEF VerifyAccount, Finish, Waiting
      <4> QED BY <4>1
    <3>4. CASE SetPassword(r)
      <4> DEFINE asked == [request[r] EXCEPT !.pc = "cut"]
      <4>1. request' = [request EXCEPT ![r] = asked] /\ asked.pc # "insert"
        BY <2>2, <3>4 DEF SetPassword, Proceed
      <4> QED BY <4>1
    <3> QED BY <1>3, <3>1, <3>2, <3>3, <3>4
  <2> QED BY <1>3, <2>4, KeysQuietRequest DEF InvalidateLinks, MarkLink, VerifyAccount, SetPassword
<1>4. ASSUME NEW r \in Requests, RevokeSessions(r) \/ DeleteKeys(r) \/ Fail(r)
      PROVE  KeysQuiet
  <2>1. CASE Fail(r) /\ request[r].pc \notin {"cut", "keys"}
    <3>1. request' = [request EXCEPT ![r] = Waiting] /\ UNCHANGED key /\ Waiting.pc # "insert"
      BY <2>1 DEF Fail, Finish, Waiting
    <3> QED BY <3>1, KeysQuietRequest
  <2> QED BY <1>4, <2>1, KeysQuietRevocation
<1>5. ASSUME NEW r \in Requests, NEW l \in Links, StoreLink(r, l) \/ FollowLink(r, l)
      PROVE  KeysQuiet
  BY <1>5, KeysQuietRequest DEF StoreLink, FollowLink, Enter, Finish, Waiting
<1>6. ASSUME NEW r \in Requests, NEW t \in Tokens, Refresh(r, t) \/ IssueTokens(r, t) PROVE KeysQuiet
  BY <1>6, KeysQuietRequest DEF Refresh, IssueTokens, Enter, Finish, Waiting
<1>7. ASSUME NEW r \in Requests, RevokeToken(r) PROVE KeysQuiet
  <2>1. /\ request' = [request EXCEPT ![r] = Successor(r)] /\ UNCHANGED key
        /\ Successor(r).pc # "insert"
    BY <1>7 DEF RevokeToken, Proceed, Successor
  <2> QED BY <2>1, KeysQuietRequest
<1>8. ASSUME NEW t \in Tokens, Logout(t) PROVE KeysQuiet
  BY <1>8 DEF Logout, KeysQuiet
<1>9. CASE (\E l \in Links : ExpireLink(l)) \/ (\E k \in Keys : DeleteKey(k)) \/ UNCHANGED accountVars
  BY <1>9 DEF ExpireLink, DeleteKey, accountVars, KeysQuiet, AccountsTypeOK
<1> QED BY <1>1, <1>2, <1>3, <1>4, <1>5, <1>6, <1>7, <1>8, <1>9 DEF AccountsNext

LEMMA KeysStep == AccountsTypeOK /\ KeysBounded /\ [AccountsNext]_accountVars => KeysBounded'
<1> SUFFICES ASSUME AccountsTypeOK, KeysBounded, [AccountsNext]_accountVars, NEW u \in Holders
             PROVE  (Cardinality(KeysOf(u)) + Cardinality(Inserting(u))
                      <= MaxAPIKeys + Cardinality(Requests) - 1)'
  BY DEF KeysBounded, Inserting
<1> DEFINE A == KeysOf(u)  B == Inserting(u)  limit == MaxAPIKeys + Cardinality(Requests) - 1
<1>1. /\ Cardinality(A) + Cardinality(B) <= limit
      /\ Cardinality(A) \in Nat /\ Cardinality(B) \in Nat
      /\ IsFiniteSet(A) /\ IsFiniteSet(B) /\ Cardinality(Requests) \in Nat
      /\ MaxAPIKeys \in Nat \ {0}
  BY KeysFinite, AccountsAssumption DEF KeysBounded, Inserting
<1>2. /\ Cardinality(A') \in Nat /\ Cardinality(B') \in Nat
      /\ Cardinality(B') <= Cardinality(Requests)
  <2>1. A' \subseteq Keys /\ B' \subseteq Requests
    BY DEF KeysOf, Inserting
  <2> QED BY <2>1, AccountsAssumption, FS_Subset, FS_CardinalityType
<1>3. ASSUME A' \subseteq A, B' \subseteq B
      PROVE  Cardinality(A') + Cardinality(B') <= limit
  <2>1. Cardinality(A') <= Cardinality(A) /\ Cardinality(B') <= Cardinality(B)
    BY <1>1, <1>3, FS_Subset
  <2> HIDE DEF A, B
  <2> QED BY <1>1, <1>2, <2>1
<1>4. CASE KeysQuiet
  <2>1. A' \subseteq A /\ B' \subseteq B
    BY <1>4 DEF KeysQuiet, KeysOf, Inserting
  <2> QED BY <1>3, <2>1
<1>5. ASSUME NEW r \in Requests, NEW v \in Holders, CountKeys(r, v)
      PROVE  Cardinality(A') + Cardinality(B') <= limit
  <2>1. /\ UNCHANGED key /\ Cardinality(KeysOf(v)) < MaxAPIKeys
        /\ request'[r].user = v
        /\ \A q \in Requests \ {r} : request'[q] = request[q]
    BY <1>5 DEF CountKeys, BelowLimit, Enter, credentials, AccountsTypeOK
  <2>2. A' = A
    BY <2>1 DEF KeysOf
  <2>3. CASE u = v
    <3> HIDE DEF A, B
    <3>1. Cardinality(A') < MaxAPIKeys
      BY <2>1, <2>2, <2>3 DEF A
    <3> QED BY <1>1, <1>2, <3>1
  <2>4. CASE u # v
    <3>1. B' \subseteq B
      BY <2>1, <2>4 DEF Inserting
    <3> QED BY <1>3, <2>2, <3>1
  <2> QED BY <2>3, <2>4
<1>6. ASSUME NEW r \in Requests, NEW k \in Keys, InsertKey(r, k)
      PROVE  Cardinality(A') + Cardinality(B') <= limit
  <2>1. /\ request[r].pc = "insert" /\ request'[r].pc = "idle" /\ key[k] = None
        /\ key'[k].user = request[r].user
        /\ \A j \in Keys \ {k} : key'[j] = key[j]
        /\ \A q \in Requests \ {r} : request'[q] = request[q]
    BY <1>6 DEF InsertKey, NextKey, Finish, Waiting, AccountsTypeOK
  <2>2. k \notin A /\ B' \subseteq B \ {r}
    BY <2>1 DEF KeysOf, Inserting
  <2>3. CASE request[r].user = u
    <3>1. r \in B /\ A' \subseteq A \cup {k}
      BY <2>1, <2>3 DEF KeysOf, Inserting
    <3>2. IsFiniteSet(B \ {r}) /\ Cardinality(B \ {r}) = Cardinality(B) - 1
      BY <1>1, <3>1, FS_RemoveElement
    <3>3. Cardinality(B') <= Cardinality(B) - 1
      BY <2>2, <3>2, FS_Subset
    <3>4. IsFiniteSet(A \cup {k}) /\ Cardinality(A \cup {k}) = Cardinality(A) + 1
      BY <1>1, <2>2, FS_AddElement
    <3>5. Cardinality(A') <= Cardinality(A) + 1
      BY <3>1, <3>4, FS_Subset
    <3> HIDE DEF A, B
    <3> QED BY <1>1, <1>2, <3>3, <3>5
  <2>4. CASE request[r].user # u
    <3>1. A' \subseteq A
      BY <2>1, <2>4 DEF KeysOf
    <3> QED BY <1>3, <2>2, <3>1
  <2> QED BY <2>3, <2>4
<1> QED BY <1>4, <1>5, <1>6, KeySteps

\* The limit on API keys is exceeded by at most one key for each other request that
\* counts at the same time.
THEOREM KeysStayBounded == AccountsSpec => []KeysBounded
<1> DEFINE IInv == AccountsTypeOK /\ KeysBounded
<1>1. AccountsInit => IInv
  BY AccountsTypeInit, KeysInit
<1>2. IInv /\ [AccountsNext]_accountVars => IInv'
  BY AccountsTypeStep, KeysStep
<1> QED BY <1>1, <1>2, PTL DEF AccountsSpec

-----------------------------------------------------------------------------
(***************************************************************************)
(* The runs of MCPeople.                                                   *)
(***************************************************************************)

\* Every behaviour of the composed instance is one of either part: what is proved of the
\* parts holds in the run.
THEOREM PeopleAreParts == PeopleSpec => Spec /\ AccountsSpec
<1>1. PeopleInit => Init /\ AccountsInit
  BY DEF PeopleInit
<1>2. [PeopleNext]_all => [Next]_vars
  BY DEF PeopleNext, all
<1>3. [PeopleNext]_all => [AccountsNext]_accountVars
  BY DEF PeopleNext, all, Sessions, APIKeys
<1> QED
  BY <1>1, <1>2, <1>3, PTL DEF PeopleSpec, Spec, AccountsSpec

\* The columns and the requests of both parts are well typed in it.
THEOREM PeopleTyped == PeopleSpec => []TypesOK
<1>1. TypeOK /\ AccountsTypeOK => TypesOK
  BY DEF TypesOK
<1> QED
  BY <1>1, PeopleAreParts, OrganizationsTyped, AccountsTyped, PTL
=============================================================================
