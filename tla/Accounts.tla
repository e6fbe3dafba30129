------------------------------ MODULE Accounts ------------------------------
(***************************************************************************)
(* internal/auth: registration, confirmation, sign-in, the rotation of     *)
(* refresh tokens, password resets and changes, and API keys.              *)
(*                                                                         *)
(* There is no transaction in this package.  A handler is a row of         *)
(* statements with requests of the same user between them: a token is      *)
(* validated, then revoked, then replaced; a password is set, then the     *)
(* sessions it opened are revoked, then the API keys deleted.              *)
(***************************************************************************)
EXTENDS Naturals, FiniteSets

CONSTANTS Holders, Requests, Links,
          Tokens, Keys,  \* random: numbered in the order in which rows are made
          None,          \* no row, no value
          MaxAPIKeys,    \* auth.maxAPIKeys
          MaxPasswords   \* bounds the model: the passwords a user sets

ASSUME AccountsAssumption ==
  /\ Tokens \subseteq Nat /\ Keys \subseteq Nat
  /\ None \notin Tokens
  /\ IsFiniteSet(Requests) /\ IsFiniteSet(Keys) /\ IsFiniteSet(Tokens)
  /\ MaxAPIKeys \in Nat \ {0} /\ MaxPasswords \in Nat \ {0}

VARIABLES account,   \* users.email_verified
          password,  \* users.password: 0 is '', and each new password is the next number
          session,   \* refresh_tokens
          link,      \* password_resets and email_confirmations
          key,       \* api_keys
          request,   \* what each request does
          respent    \* history: refreshes, by sign-in, that revoked a dead token

accountVars == <<account, password, session, link, key, request, respent>>
credentials == <<session, key, respent>>

\* With their history: the sign-in a token descends from, and the password that opened
\* it; None once a revocation has missed it, because the statement failed or came
\* while the request that inserts it was running.
Password == Nat \cup {None}
Session == [user : Holders, live : {TRUE}, root : Tokens, password : Password]
      \cup [user : Holders, live : {FALSE}]
Key == [user : Holders, password : Password]
\* A link that is expired is as useless as one that is used: neither is distinguished.
Link == [kind : {"confirm", "reset"}, user : Holders] \cup [kind : {"spent"}]

ASSUME NoRow == None \notin Session \cup Key \cup Link

\* The next step of a request, and the locals it still needs.
RequestStep == [pc : {"idle"}]
  \cup [pc : {"invalidate", "store"}, kind : {"confirm", "reset"}, user : Holders]
  \cup [pc : {"mark"}, link : Links, user : Holders, next : {"verify", "change"}]
  \cup [pc : {"verify", "change", "cut", "keys"}, user : Holders]
  \cup [pc : {"rotate"}, token : Tokens, user : Holders, root : Tokens, password : Password]
  \cup [pc : {"issue"}, user : Holders, root : Tokens \cup {None}, password : Password]
  \cup [pc : {"insert"}, user : Holders, password : Password]

Waiting == [pc |-> "idle"]

AccountsInit ==
  /\ account = [u \in Holders |-> "none"]
  /\ password = [u \in Holders |-> 0]
  /\ session = [t \in Tokens |-> None]
  /\ link = [l \in Links |-> None]
  /\ key = [k \in Keys |-> None]
  /\ request = [r \in Requests |-> Waiting]
  /\ respent = [t \in Tokens |-> 0]

Enter(r, job)  == request[r].pc = "idle" /\ request' = [request EXCEPT ![r] = job]
Proceed(r, job) == request' = [request EXCEPT ![r] = job]
Finish(r) == request' = [request EXCEPT ![r] = Waiting]

Issued(t) == session[t] # None
NextToken(t) == ~Issued(t) /\ \A s \in Tokens : s < t => Issued(s)
NextKey(k) == key[k] = None /\ \A j \in Keys : j < k => key[j] # None
Live(t) == session[t] # None /\ session[t].live
Revoked(u) == [user |-> u, live |-> FALSE]
Spent == [kind |-> "spent"]
Usable(l) == link[l] # None /\ link[l].kind # "spent"
KeysOf(u) == {k \in Keys : key[k] # None /\ key[k].user = u}

\* An access token is only checked for its signature and its expiry: it outlives the
\* revocation of the session it was issued with.
Authenticated(u) == \E t \in Tokens : Issued(t) /\ session[t].user = u

(***************************************************************************)
(* Register, ForgotPassword, ResendConfirmation.  A process without an     *)
(* e-mail backend verifies every account at once, and sends no links.      *)
(***************************************************************************)
Register(r, u) ==
  /\ account[u] = "none" /\ request[r].pc = "idle"
  /\ \E backend \in BOOLEAN :
       IF backend
         THEN /\ account' = [account EXCEPT ![u] = "unverified"]
              /\ Enter(r, [pc |-> "invalidate", kind |-> "confirm", user |-> u])
         ELSE /\ account' = [account EXCEPT ![u] = "verified"]
              /\ UNCHANGED request
  /\ password' = [password EXCEPT ![u] = 1]
  /\ UNCHANGED <<credentials, link>>

ForgotPassword(r, u) ==
  /\ account[u] # "none"
  /\ Enter(r, [pc |-> "invalidate", kind |-> "reset", user |-> u])
  /\ UNCHANGED <<account, password, credentials, link>>

ResendConfirmation(r, u) ==
  /\ account[u] = "unverified"
  /\ Enter(r, [pc |-> "invalidate", kind |-> "confirm", user |-> u])
  /\ UNCHANGED <<account, password, credentials, link>>

\* The earlier links become useless; an error is logged, and the new one made all the same.
InvalidateLinks(r) ==
  /\ request[r].pc = "invalidate"
  /\ \/ link' = [l \in Links |->
                   IF link[l] = [kind |-> request[r].kind, user |-> request[r].user]
                     THEN Spent ELSE link[l]]
     \/ UNCHANGED link
  /\ Proceed(r, [request[r] EXCEPT !.pc = "store"])
  /\ UNCHANGED <<account, password, credentials>>

StoreLink(r, l) ==
  /\ request[r].pc = "store" /\ link[l] = None
  /\ link' = [link EXCEPT ![l] = [kind |-> request[r].kind, user |-> request[r].user]]
  /\ Finish(r)
  /\ UNCHANGED <<account, password, credentials>>

ExpireLink(l) ==
  /\ Usable(l)
  /\ link' = [link EXCEPT ![l] = Spent]
  /\ UNCHANGED <<account, password, credentials, request>>

(***************************************************************************)
(* ConfirmEmail and ResetPassword: the link is found unused, then marked.  *)
(***************************************************************************)
FollowLink(r, l) ==
  /\ Usable(l)
  /\ link[l].kind = "reset" => password[link[l].user] < MaxPasswords
  /\ Enter(r, [pc |-> "mark", link |-> l, user |-> link[l].user,
               next |-> IF link[l].kind = "reset" THEN "change" ELSE "verify"])
  /\ UNCHANGED <<account, password, credentials, link>>

MarkLink(r) ==
  /\ request[r].pc = "mark"
  /\ link' = [link EXCEPT ![request[r].link] = Spent]
  /\ Proceed(r, [pc |-> request[r].next, user |-> request[r].user])
  /\ UNCHANGED <<account, password, credentials>>

VerifyAccount(r) ==
  /\ request[r].pc = "verify"
  /\ account' = [account EXCEPT ![request[r].user] = "verified"]
  /\ Finish(r)
  /\ UNCHANGED <<password, credentials, link>>

(***************************************************************************)
(* UpdateUser, with a new password: the current one is compared.  The      *)
(* statements are those of a reset.                                        *)
(***************************************************************************)
ChangePassword(r, u) ==
  /\ Authenticated(u) /\ password[u] \in 1..(MaxPasswords - 1)
  /\ Enter(r, [pc |-> "change", user |-> u])
  /\ UNCHANGED <<account, password, credentials, link>>

SetPassword(r) ==
  /\ request[r].pc = "change"
  /\ password' = [password EXCEPT ![request[r].user] = password[request[r].user] + 1]
  /\ Proceed(r, [request[r] EXCEPT !.pc = "cut"])
  /\ UNCHANGED <<account, credentials, link>>

\* For the history: what a revocation of the user's credentials does not reach.
Miss(c, u) == IF c.user = u THEN [c EXCEPT !.password = None] ELSE c
Overtake(r, u, pcs, job) ==
  request' = [q \in Requests |->
    IF q = r THEN job
    ELSE IF request[q].pc \in pcs THEN Miss(request[q], u) ELSE request[q]]

MissSessions(u) == [t \in Tokens |-> IF Live(t) THEN Miss(session[t], u) ELSE session[t]]
MissKeys(u) == [k \in Keys |-> IF key[k] # None THEN Miss(key[k], u) ELSE None]

\* A failure to revoke is logged only.
RevokeSessions(r) ==
  /\ request[r].pc = "cut"
  /\ LET u == request[r].user IN
       /\ \/ session' = [t \in Tokens |-> IF Issued(t) /\ session[t].user = u
                                            THEN Revoked(u) ELSE session[t]]
          \/ session' = MissSessions(u)
       /\ Overtake(r, u, {"rotate", "issue"}, [pc |-> "keys", user |-> u])
  /\ UNCHANGED <<account, password, key, respent, link>>

\* A plausible mistake, to test the properties: the keys are left.
KeepKeys(r) ==
  /\ request[r].pc = "keys"
  /\ Finish(r)
  /\ UNCHANGED <<account, password, credentials, link>>

DeleteKeys(r) ==
  /\ request[r].pc = "keys"
  /\ LET u == request[r].user IN
       /\ \/ key' = [k \in Keys |-> IF k \in KeysOf(u) THEN None ELSE key[k]]
          \/ key' = MissKeys(u)
       /\ Overtake(r, u, {"insert"}, Waiting)
  /\ UNCHANGED <<account, password, session, respent, link>>

(***************************************************************************)
(* Login, or a sign-in through a provider, which makes the account where   *)
(* there is none; Refresh; Logout.                                         *)
(***************************************************************************)
SignIn(u) == [pc |-> "issue", user |-> u, root |-> None,
              password |-> password[u]]

Login(r, u) ==
  /\ account[u] = "verified" /\ password[u] # 0
  /\ Enter(r, SignIn(u))
  /\ UNCHANGED <<account, password, credentials, link>>

SingleSignOn(r, u) ==
  /\ account' = [account EXCEPT ![u] = IF account[u] = "none" THEN "verified" ELSE account[u]]
  /\ Enter(r, SignIn(u))
  /\ UNCHANGED <<password, credentials, link>>

Refresh(r, t) ==
  /\ Live(t)
  /\ LET s == session[t] IN
       Enter(r, [pc |-> "rotate", token |-> t, user |-> s.user, root |-> s.root,
                 password |-> s.password])
  /\ UNCHANGED <<account, password, credentials, link>>

\* The new token carries on the sign-in of the old one.
Successor(r) ==
  LET j == request[r] IN
    [pc |-> "issue", user |-> j.user, root |-> j.root, password |-> j.password]

\* A plausible mistake, to test the properties: the old token is not revoked.
RotateKeeping(r) ==
  /\ request[r].pc = "rotate"
  /\ Proceed(r, Successor(r))
  /\ UNCHANGED <<account, password, credentials, link>>

RevokeToken(r) ==
  /\ request[r].pc = "rotate"
  /\ LET t == request[r].token  root == request[r].root IN
       /\ session' = [session EXCEPT ![t] = Revoked(request[r].user)]
       /\ respent' = [respent EXCEPT ![root] = respent[root] + (IF Live(t) THEN 0 ELSE 1)]
  /\ Proceed(r, Successor(r))
  /\ UNCHANGED <<account, password, key, link>>

IssueTokens(r, t) ==
  /\ request[r].pc = "issue" /\ NextToken(t)
  /\ LET j == request[r] IN
       session' = [session EXCEPT ![t] =
         [user |-> j.user, live |-> TRUE, root |-> IF j.root = None THEN t ELSE j.root,
          password |-> j.password]]
  /\ Finish(r)
  /\ UNCHANGED <<account, password, key, respent, link>>

\* Logout, and the end of a token's life.
Logout(t) ==
  /\ Issued(t)
  /\ session' = [session EXCEPT ![t] = Revoked(session[t].user)]
  /\ UNCHANGED <<account, password, key, respent, link, request>>

(***************************************************************************)
(* GenerateAPIKey, DeleteAPIKey.                                           *)
(***************************************************************************)
\* A plausible mistake, to test the properties: off by one.
BelowLimitByOne(u) == Cardinality(KeysOf(u)) <= MaxAPIKeys
BelowLimit(u) == Cardinality(KeysOf(u)) < MaxAPIKeys

CountKeys(r, u) ==
  /\ Authenticated(u) /\ BelowLimit(u)
  /\ Enter(r, [pc |-> "insert", user |-> u, password |-> password[u]])
  /\ UNCHANGED <<account, password, credentials, link>>

InsertKey(r, k) ==
  /\ request[r].pc = "insert" /\ NextKey(k)
  /\ key' = [key EXCEPT ![k] = [user |-> request[r].user, password |-> request[r].password]]
  /\ Finish(r)
  /\ UNCHANGED <<account, password, session, respent, link>>

DeleteKey(k) ==
  /\ key[k] # None /\ Authenticated(key[k].user)
  /\ key' = [key EXCEPT ![k] = None]
  /\ UNCHANGED <<account, password, session, respent, link, request>>

\* A failing statement or the death of the process ends a request where it is.
Fail(r) ==
  /\ request[r].pc # "idle"
  /\ IF request[r].pc \in {"cut", "keys"}
       THEN LET u == request[r].user IN
              /\ session' = IF request[r].pc = "cut" THEN MissSessions(u) ELSE session
              /\ key' = MissKeys(u)
              /\ Overtake(r, u, IF request[r].pc = "cut" THEN {"rotate", "issue", "insert"}
                                ELSE {"insert"}, Waiting)
       ELSE Finish(r) /\ UNCHANGED <<session, key>>
  /\ UNCHANGED <<account, password, respent, link>>

-----------------------------------------------------------------------------
AccountsNext ==
  \/ \E r \in Requests, u \in Holders :
       \/ Register(r, u) \/ ForgotPassword(r, u) \/ ResendConfirmation(r, u)
       \/ ChangePassword(r, u) \/ Login(r, u) \/ SingleSignOn(r, u) \/ CountKeys(r, u)
  \/ \E r \in Requests :
       \/ InvalidateLinks(r) \/ MarkLink(r) \/ VerifyAccount(r) \/ SetPassword(r)
       \/ RevokeSessions(r) \/ DeleteKeys(r) \/ RevokeToken(r) \/ Fail(r)
       \/ \E l \in Links : StoreLink(r, l) \/ FollowLink(r, l)
       \/ \E t \in Tokens : Refresh(r, t) \/ IssueTokens(r, t)
       \/ \E k \in Keys : InsertKey(r, k)
  \/ \E l \in Links : ExpireLink(l)
  \/ \E t \in Tokens : Logout(t)
  \/ \E k \in Keys : DeleteKey(k)

AccountsSpec == AccountsInit /\ [][AccountsNext]_accountVars

-----------------------------------------------------------------------------
AccountsTypeOK ==
  /\ account \in [Holders -> {"none", "unverified", "verified"}]
  /\ password \in [Holders -> Nat]
  /\ session \in [Tokens -> Session \cup {None}]
  /\ link \in [Links -> Link \cup {None}]
  /\ key \in [Keys -> Key \cup {None}]
  /\ request \in [Requests -> RequestStep]
  /\ respent \in [Tokens -> Nat]

\* A change of password ends what the earlier ones opened: a session or an API key of
\* an older password is alive only while its revocation is still to come, or if the
\* revocation failed or found the request that inserts it, or an ancestor of it, running.
OldPasswordsEnd ==
  /\ \A t \in Tokens : Live(t) =>
       \/ session[t].password \in {password[session[t].user], None}
       \/ \E r \in Requests : request[r].pc = "cut" /\ request[r].user = session[t].user
  /\ \A k \in Keys : key[k] # None =>
       \/ key[k].password \in {password[key[k].user], None}
       \/ \E r \in Requests : request[r].pc \in {"cut", "keys"} /\ request[r].user = key[k].user

\* Rotation replaces a token and multiplies none: a sign-in has one live token, or one
\* on its way, and one more for every refresh that revoked what another refresh, a
\* logout or a revocation had revoked since it was validated.
TokensOf(t) == {s \in Tokens : Live(s) /\ session[s].root = t}
OnTheWay(t) == {r \in Requests : request[r].pc = "issue" /\ request[r].root = t}

RotationConserves ==
  \A t \in Tokens : Cardinality(TokensOf(t)) + Cardinality(OnTheWay(t)) <= 1 + respent[t]

\* The limit on API keys is exceeded only by requests that counted at the same time.
KeysBounded ==
  \A u \in Holders :
    Cardinality(KeysOf(u))
      + Cardinality({r \in Requests : request[r].pc = "insert" /\ request[r].user = u})
      <= MaxAPIKeys + Cardinality(Requests) - 1
=============================================================================
