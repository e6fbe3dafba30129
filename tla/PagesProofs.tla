---------------------------- MODULE PagesProofs -----------------------------
(***************************************************************************)
(* The encoder gate, and what viewers meet: theorems about EncoderSlots,   *)
(* Watching and Notices, for any number of goroutines, limits,             *)
(* replacements of the gate, viewers, links and events; and that the runs  *)
(* of MCEncoderSlots are behaviours of these.                              *)
(***************************************************************************)
EXTENDS MCEncoderSlots, FiniteSetTheorems, TLAPS

(***************************************************************************)
(* EncoderSlots.  The token count of a gate is the number of encodes it    *)
(* admitted.                                                               *)
(***************************************************************************)
LEMMA TypeInit == Init => TypeOK
  BY SlotsAssumption DEF Init, TypeOK, Gates, DefaultEncoderConcurrency

LEMMA TypeStep == TypeOK /\ [Next]_vars => TypeOK'
<1> SUFFICES ASSUME TypeOK, [Next]_vars PROVE TypeOK'
  OBVIOUS
<1> USE SlotsAssumption DEF TypeOK, Gates
<1>1. ASSUME NEW limit \in Limits, SetEncoderConcurrency(limit) PROVE TypeOK'
  <2>1. Clamped(limit) \in Nat \ {0}
    BY DEF Clamped
  <2>2. current + 1 \in Gates
    BY <1>1 DEF SetEncoderConcurrency
  <2> QED BY <1>1, <2>1, <2>2 DEF SetEncoderConcurrency
<1>2. ASSUME NEW e \in Encodes, Enter(e) PROVE TypeOK'
  BY <1>2 DEF Enter
<1>3. ASSUME NEW e \in Encodes, Expire(e) PROVE TypeOK'
  BY <1>3 DEF Expire
<1>4. ASSUME NEW e \in Encodes, Acquire(e) PROVE TypeOK'
  BY <1>4 DEF Acquire
<1>5. ASSUME NEW e \in Encodes, GiveUp(e) PROVE TypeOK'
  BY <1>5 DEF GiveUp
<1>6. ASSUME NEW e \in Encodes, Release(e) PROVE TypeOK'
  BY <1>6 DEF Release
<1>7. CASE UNCHANGED vars
  BY <1>7 DEF vars
<1> QED BY <1>1, <1>2, <1>3, <1>4, <1>5, <1>6, <1>7 DEF Next

\* Every state and successor is well typed, whatever the limits that are set.
THEOREM SlotsTyped == Spec => []TypeOK
  BY TypeInit, TypeStep, PTL DEF Spec

-----------------------------------------------------------------------------
\* The encodes that run on a gate can be counted.
LEMMA RunningFinite ==
  ASSUME NEW g \in Gates
  PROVE  IsFiniteSet(Running(g)) /\ Cardinality(Running(g)) \in Nat
<1>1. Running(g) \subseteq Encodes
  BY DEF Running
<1>2. IsFiniteSet(Running(g))
  BY <1>1, FS_Subset, SlotsAssumption
<1> QED BY <1>2, FS_CardinalityType

\* A step that neither starts nor ends an encode leaves all the sets alone.
LEMMA SameRunning ==
  ASSUME TypeOK, NEW g \in Gates,
         \A e \in Encodes :
           (pc'[e] = "running" /\ gate'[e] = g) <=> (pc[e] = "running" /\ gate[e] = g)
  PROVE  Running(g)' = Running(g)
  BY DEF Running

LEMMA CountInit == Init => TokensAreEncodes
<1> SUFFICES ASSUME Init, NEW g \in Gates PROVE tokens[g] = Cardinality(Running(g))
  BY DEF TokensAreEncodes
<1>1. Running(g) = {}
  BY DEF Init, Running
<1> QED BY <1>1, FS_EmptySet DEF Init

LEMMA CountStep == TypeOK /\ TokensAreEncodes /\ [Next]_vars => TokensAreEncodes'
<1> SUFFICES ASSUME TypeOK, TokensAreEncodes, [Next]_vars, NEW g \in Gates
             PROVE  tokens'[g] = Cardinality(Running(g)')
  BY DEF TokensAreEncodes, Gates
<1>0. tokens[g] = Cardinality(Running(g)) /\ tokens[g] \in Nat
  BY DEF TokensAreEncodes, TypeOK
<1>1. ASSUME NEW limit \in Limits, SetEncoderConcurrency(limit)
      PROVE  tokens'[g] = Cardinality(Running(g)')
  BY <1>0, <1>1, SameRunning DEF SetEncoderConcurrency
<1>2. ASSUME NEW e \in Encodes, Enter(e)
      PROVE  tokens'[g] = Cardinality(Running(g)')
  <2>1. Running(g)' = Running(g)
    BY <1>2, SameRunning DEF Enter, TypeOK
  <2> QED BY <1>0, <1>2, <2>1 DEF Enter
<1>3. ASSUME NEW e \in Encodes, Expire(e)
      PROVE  tokens'[g] = Cardinality(Running(g)')
  BY <1>0, <1>3, SameRunning DEF Expire
<1>4. ASSUME NEW e \in Encodes, Acquire(e)
      PROVE  tokens'[g] = Cardinality(Running(g)')
  <2>1. CASE gate[e] = g
    <3>1. Running(g)' = Running(g) \cup {e}
      BY <1>4, <2>1 DEF Acquire, Running, TypeOK
    <3>2. e \notin Running(g)
      BY <1>4 DEF Acquire, Running
    <3>3. Cardinality(Running(g)') = Cardinality(Running(g)) + 1
      BY <3>1, <3>2, FS_AddElement, RunningFinite
    <3>4. tokens'[g] = tokens[g] + 1
      BY <1>4, <2>1 DEF Acquire, TypeOK
    <3> QED BY <1>0, <3>3, <3>4
  <2>2. CASE gate[e] # g
    <3>1. Running(g)' = Running(g)
      BY <1>4, <2>2, SameRunning DEF Acquire, TypeOK
    <3>2. tokens'[g] = tokens[g]
      BY <1>4, <2>2 DEF Acquire, TypeOK
    <3> QED BY <1>0, <3>1, <3>2
  <2> QED BY <2>1, <2>2
<1>5. ASSUME NEW e \in Encodes, GiveUp(e)
      PROVE  tokens'[g] = Cardinality(Running(g)')
  <2>1. Running(g)' = Running(g)
    BY <1>5, SameRunning DEF GiveUp, TypeOK
  <2> QED BY <1>0, <1>5, <2>1 DEF GiveUp
<1>6. ASSUME NEW e \in Encodes, Release(e)
      PROVE  tokens'[g] = Cardinality(Running(g)')
  <2>1. CASE gate[e] = g
    <3>1. Running(g)' = Running(g) \ {e}
      BY <1>6, <2>1 DEF Release, Running, TypeOK
    <3>2. e \in Running(g)
      BY <1>6, <2>1 DEF Release, Running
    <3>3. Cardinality(Running(g)') = Cardinality(Running(g)) - 1
      BY <3>1, <3>2, FS_RemoveElement, RunningFinite
    <3>4. tokens'[g] = tokens[g] - 1
      BY <1>6, <2>1 DEF Release, TypeOK
    <3> QED BY <1>0, <3>3, <3>4
  <2>2. CASE gate[e] # g
    <3>1. Running(g)' = Running(g)
      BY <1>6, <2>2, SameRunning DEF Release, TypeOK
    <3>2. tokens'[g] = tokens[g]
      BY <1>6, <2>2 DEF Release, TypeOK
    <3> QED BY <1>0, <3>1, <3>2
  <2> QED BY <2>1, <2>2
<1>7. CASE UNCHANGED vars
  BY <1>0, <1>7, SameRunning DEF vars
<1> QED BY <1>1, <1>2, <1>3, <1>4, <1>5, <1>6, <1>7 DEF Next

\* No slot is lost or made up.
THEOREM SlotsConserved == Spec => []TokensAreEncodes
<1>1. Init => TypeOK /\ TokensAreEncodes
  BY TypeInit, CountInit
<1>2. (TypeOK /\ TokensAreEncodes) /\ [Next]_vars => (TypeOK /\ TokensAreEncodes)'
  BY TypeStep, CountStep
<1> QED BY <1>1, <1>2, PTL DEF Spec

-----------------------------------------------------------------------------
\* A gate that has been replaced keeps its limit, and a token is only put into a
\* channel that has room.
WithinCapacity == \A g \in Gates : tokens[g] <= capacity[g]

\* Gates that do not exist yet have not been loaded by anyone.
FutureGatesUnused ==
  /\ \A e \in Encodes : gate[e] <= current
  /\ \A g \in Gates : g > current => tokens[g] = 0

LEMMA CapacityInit == Init => WithinCapacity /\ FutureGatesUnused
  BY SlotsAssumption
  DEF Init, WithinCapacity, FutureGatesUnused, Gates, DefaultEncoderConcurrency

LEMMA CapacityStep ==
  TypeOK /\ WithinCapacity /\ FutureGatesUnused /\ [Next]_vars
    => WithinCapacity' /\ FutureGatesUnused'
<1> SUFFICES ASSUME TypeOK, WithinCapacity, FutureGatesUnused, [Next]_vars
             PROVE  WithinCapacity' /\ FutureGatesUnused'
  OBVIOUS
<1> USE SlotsAssumption DEF TypeOK, WithinCapacity, FutureGatesUnused, Gates
<1>1. ASSUME NEW limit \in Limits, SetEncoderConcurrency(limit)
      PROVE  WithinCapacity' /\ FutureGatesUnused'
  <2>1. Clamped(limit) \in Nat
    BY DEF Clamped
  <2>2. tokens[current + 1] = 0
    BY <1>1 DEF SetEncoderConcurrency
  <2> QED BY <1>1, <2>1, <2>2 DEF SetEncoderConcurrency
<1>2. ASSUME NEW e \in Encodes, Enter(e) PROVE WithinCapacity' /\ FutureGatesUnused'
  BY <1>2 DEF Enter
<1>3. ASSUME NEW e \in Encodes, Expire(e) PROVE WithinCapacity' /\ FutureGatesUnused'
  BY <1>3 DEF Expire
<1>4. ASSUME NEW e \in Encodes, Acquire(e) PROVE WithinCapacity' /\ FutureGatesUnused'
  BY <1>4 DEF Acquire, HasRoom
<1>5. ASSUME NEW e \in Encodes, GiveUp(e) PROVE WithinCapacity' /\ FutureGatesUnused'
  BY <1>5 DEF GiveUp
<1>6. ASSUME NEW e \in Encodes, Release(e) PROVE WithinCapacity' /\ FutureGatesUnused'
  BY <1>6 DEF Release
<1>7. CASE UNCHANGED vars
  BY <1>7 DEF vars
<1> QED BY <1>1, <1>2, <1>3, <1>4, <1>5, <1>6, <1>7 DEF Next

\* No more encodes than slots, on every gate.
THEOREM SlotsRespected == Spec => []EncodesBounded
<1>1. Spec => []TypeOK /\ []TokensAreEncodes
  BY SlotsTyped, SlotsConserved
<1>2. Init => WithinCapacity /\ FutureGatesUnused
  BY CapacityInit
<1>3. TypeOK /\ (WithinCapacity /\ FutureGatesUnused) /\ [Next]_vars
        => (WithinCapacity /\ FutureGatesUnused)'
  BY CapacityStep
<1>4. TokensAreEncodes /\ WithinCapacity => EncodesBounded
  BY DEF TokensAreEncodes, WithinCapacity, EncodesBounded
<1> QED BY <1>1, <1>2, <1>3, <1>4, PTL DEF Spec

-----------------------------------------------------------------------------
(***************************************************************************)
(* Watching.  A cookie says what its viewer did: entered the password it   *)
(* is signed with, gave the address it holds.  The page looks only at the  *)
(* cookie and the row, so that both properties follow.                     *)
(***************************************************************************)
Written == viewers \cup recording \cup unrecorded

CookiesEntered ==
  \A a \in Viewers, t \in ShareLinks :
    cookie[a][t].wa # 0 => <<t, cookie[a][t].wa>> \in entered[a]

CookiesWritten ==
  \A a \in Viewers, t \in VideoLinks :
    cookie[a][t].eg # NoMail => <<t, cookie[a][t].eg>> \in Written

LEMMA ShareAt ==
  ASSUME WatchingTypeOK, NEW t \in ShareLinks
  PROVE  share[t] \in Share /\ passwords[t] \in 0..MaxSharePasswords
  BY DEF WatchingTypeOK

LEMMA CookieAt ==
  ASSUME WatchingTypeOK, NEW a \in Viewers, NEW t \in ShareLinks
  PROVE  cookie[a][t] \in Cookie
  BY DEF WatchingTypeOK

LEMMA NoCookieIsCookie == NoCookie \in Cookie
  BY WatchingAssumption DEF NoCookie, Cookie

LEMMA WatchingInitTypes == WatchingInit => WatchingTypeOK
<1> SUFFICES ASSUME WatchingInit PROVE WatchingTypeOK
  OBVIOUS
<1>1. [status |-> "uploading", expiry |-> "never", password |-> 0, gate |-> FALSE,
       downloads |-> TRUE] \in Share
  BY WatchingAssumption DEF Share
<1> QED
  BY <1>1, NoCookieIsCookie, WatchingAssumption DEF WatchingInit, WatchingTypeOK

\* A setting writes one row, of the same shape.
LEMMA SetTypes ==
  ASSUME WatchingTypeOK, NEW t \in ShareLinks, NEW row \in Share, Set(t, row)
  PROVE  WatchingTypeOK'
  BY DEF WatchingTypeOK, Set

LEMMA SettingTypes ==
  ASSUME WatchingTypeOK, NEW t \in ShareLinks,
         \/ \E on \in BOOLEAN : SetDownloadEnabled(t, on) \/ SetEmailGate(t, on)
         \/ \E expiry \in {"never", "ahead"} : SetLinkExpiry(t, expiry)
         \/ \E status \in {"processing", "ready", "deleted"} : StatusChanges(t, status)
         \/ LinkExpires(t) \/ UnsharePlaylist(t) \/ ClearSharePassword(t)
  PROVE  WatchingTypeOK' /\ UNCHANGED <<cookie, viewers, recording, unrecorded, entered>>
<1>0. share[t] \in Share
  BY ShareAt
<1>1. CASE \E on \in BOOLEAN : SetDownloadEnabled(t, on) \/ SetEmailGate(t, on)
  <2>1. PICK on \in BOOLEAN : SetDownloadEnabled(t, on) \/ SetEmailGate(t, on)
    BY <1>1
  <2>2. /\ [share[t] EXCEPT !.downloads = on] \in Share
        /\ [share[t] EXCEPT !.gate = on] \in Share
    BY <1>0 DEF Share
  <2> QED
    BY <2>1, <2>2, SetTypes DEF SetDownloadEnabled, SetEmailGate, Set
<1>2. CASE \E expiry \in {"never", "ahead"} : SetLinkExpiry(t, expiry)
  <2>1. PICK expiry \in {"never", "ahead"} : SetLinkExpiry(t, expiry)
    BY <1>2
  <2>2. [share[t] EXCEPT !.expiry = expiry] \in Share
    BY <1>0 DEF Share
  <2> QED
    BY <2>1, <2>2, SetTypes DEF SetLinkExpiry, Set
<1>3. CASE \E status \in {"processing", "ready", "deleted"} : StatusChanges(t, status)
  <2>1. PICK status \in {"processing", "ready", "deleted"} : StatusChanges(t, status)
    BY <1>3
  <2>2. [share[t] EXCEPT !.status = status] \in Share
    BY <1>0 DEF Share
  <2> QED
    BY <2>1, <2>2, SetTypes DEF StatusChanges, Set
<1>4. CASE LinkExpires(t) \/ UnsharePlaylist(t) \/ ClearSharePassword(t)
  <2>1. /\ [share[t] EXCEPT !.expiry = "past"] \in Share
        /\ [share[t] EXCEPT !.status = "uploading"] \in Share
        /\ [share[t] EXCEPT !.password = 0] \in Share
    BY <1>0, WatchingAssumption DEF Share
  <2> QED
    BY <1>4, <2>1, SetTypes DEF LinkExpires, UnsharePlaylist, ClearSharePassword, Set
<1> QED
  BY <1>1, <1>2, <1>3, <1>4

LEMMA SetSharePasswordTypes ==
  ASSUME WatchingTypeOK, NEW t \in ShareLinks, SetSharePassword(t)
  PROVE  WatchingTypeOK'
<1>1. passwords[t] + 1 \in 0..MaxSharePasswords
  BY ShareAt, WatchingAssumption DEF SetSharePassword
<1>2. [share[t] EXCEPT !.password = passwords[t] + 1] \in Share
  BY <1>1, ShareAt DEF Share
<1>3. share' = [share EXCEPT ![t] = [share[t] EXCEPT !.password = passwords[t] + 1]]
  BY DEF SetSharePassword, WatchingTypeOK
<1>4. share' \in [ShareLinks -> Share] /\ passwords' \in [ShareLinks -> 0..MaxSharePasswords]
  BY <1>1, <1>2, <1>3 DEF SetSharePassword, WatchingTypeOK
<1> QED
  BY <1>4 DEF SetSharePassword, WatchingTypeOK

LEMMA SharePlaylistTypes ==
  ASSUME WatchingTypeOK, NEW t \in ShareLinks, SharePlaylist(t)
  PROVE  WatchingTypeOK'
<1>1. [share[t] EXCEPT !.status = "ready"] \in Share
  BY ShareAt DEF Share
<1>2. share' \in [ShareLinks -> Share]
  BY <1>1 DEF SharePlaylist, WatchingTypeOK
<1>3. cookie' \in [Viewers -> [ShareLinks -> Cookie]]
  BY NoCookieIsCookie DEF SharePlaylist, WatchingTypeOK
<1> QED
  BY <1>2, <1>3 DEF SharePlaylist, WatchingTypeOK

LEMMA EnterPasswordTypes ==
  ASSUME WatchingTypeOK, NEW a \in Viewers, NEW t \in ShareLinks, EnterPassword(a, t)
  PROVE  WatchingTypeOK'
<1>1. share[t].password \in 1..MaxSharePasswords
  BY ShareAt, WatchingAssumption DEF EnterPassword, Share
<1>2. [cookie[a][t] EXCEPT !.wa = share[t].password] \in Cookie
  BY <1>1, CookieAt, WatchingAssumption DEF Cookie
<1>3. cookie' \in [Viewers -> [ShareLinks -> Cookie]]
  BY <1>2 DEF EnterPassword, WatchingTypeOK
<1>4. entered' \in [Viewers -> SUBSET (ShareLinks \X (1..MaxSharePasswords))]
  BY <1>1 DEF EnterPassword, WatchingTypeOK
<1> QED
  BY <1>3, <1>4 DEF EnterPassword, WatchingTypeOK

LEMMA GiveMailTypes ==
  ASSUME WatchingTypeOK, NEW a \in Viewers, NEW t \in ShareLinks, NEW m \in Mails,
         GiveMail(a, t, m)
  PROVE  cookie' \in [Viewers -> [ShareLinks -> Cookie]]
<1>1. [cookie[a][t] EXCEPT !.eg = m] \in Cookie
  BY CookieAt DEF Cookie
<1> QED
  BY <1>1 DEF GiveMail, WatchingTypeOK

\* What a viewer does, and the goroutine that writes the viewer down.
LEMMA ViewerTypes ==
  ASSUME WatchingTypeOK, NEW a \in Viewers, NEW t \in ShareLinks,
         \/ VerifyWatchPassword(a, t) \/ VerifyPlaylistWatchPassword(a, t) \/ CookiesExpire(a, t)
         \/ \E m \in Mails : IdentifyViewer(a, t, m) \/ IdentifyPlaylistViewer(a, t, m)
  PROVE  WatchingTypeOK'
<1>1. CASE VerifyWatchPassword(a, t) \/ VerifyPlaylistWatchPassword(a, t)
  BY <1>1, EnterPasswordTypes DEF VerifyWatchPassword, VerifyPlaylistWatchPassword
<1>2. CASE CookiesExpire(a, t)
  BY <1>2, NoCookieIsCookie DEF CookiesExpire, WatchingTypeOK
<1>3. ASSUME NEW m \in Mails, IdentifyViewer(a, t, m) \/ IdentifyPlaylistViewer(a, t, m)
      PROVE  WatchingTypeOK'
  <2>1. cookie' \in [Viewers -> [ShareLinks -> Cookie]]
    BY <1>3, GiveMailTypes DEF IdentifyViewer, IdentifyPlaylistViewer
  <2> QED
    BY <1>3, <2>1 DEF IdentifyViewer, IdentifyPlaylistViewer, WatchingTypeOK
<1> QED
  BY <1>1, <1>2, <1>3

LEMMA WatchingStepTypes ==
  ASSUME WatchingTypeOK, [WatchingNext]_watchingVars
  PROVE  WatchingTypeOK'
<1>1. ASSUME NEW t \in ShareLinks,
             \/ \E on \in BOOLEAN : SetDownloadEnabled(t, on) \/ SetEmailGate(t, on)
             \/ \E expiry \in {"never", "ahead"} : SetLinkExpiry(t, expiry)
             \/ \E status \in {"processing", "ready", "deleted"} : StatusChanges(t, status)
             \/ LinkExpires(t) \/ UnsharePlaylist(t) \/ ClearSharePassword(t)
      PROVE  WatchingTypeOK'
  BY <1>1, SettingTypes
<1>2. ASSUME NEW t \in ShareLinks, SharePlaylist(t) \/ SetSharePassword(t)
      PROVE  WatchingTypeOK'
  BY <1>2, SharePlaylistTypes, SetSharePasswordTypes
<1>3. ASSUME NEW a \in Viewers, NEW t \in ShareLinks,
         \/ VerifyWatchPassword(a, t) \/ VerifyPlaylistWatchPassword(a, t) \/ CookiesExpire(a, t)
         \/ \E m \in Mails : IdentifyViewer(a, t, m) \/ IdentifyPlaylistViewer(a, t, m)
      PROVE  WatchingTypeOK'
  BY <1>3, ViewerTypes
<1>4. ASSUME NEW t \in VideoLinks, NEW m \in Mails, RecordViewer(t, m)
      PROVE  WatchingTypeOK'
  BY <1>4 DEF RecordViewer, WatchingTypeOK
<1>5. CASE UNCHANGED watchingVars
  BY <1>5 DEF watchingVars, WatchingTypeOK
<1> QED
  BY <1>1, <1>2, <1>3, <1>4, <1>5 DEF WatchingNext

\* The rows of links, the cookies of viewers, the lists of viewers and the goroutines that
\* write them keep their types (watch_auth.go, email_gate.go, playlist_watch.go).
THEOREM WatchingTyped == WatchingSpec => []WatchingTypeOK
<1>1. WatchingInit => WatchingTypeOK
  BY WatchingInitTypes
<1>2. WatchingTypeOK /\ [WatchingNext]_watchingVars => WatchingTypeOK'
  BY WatchingStepTypes
<1> QED
  BY <1>1, <1>2, PTL DEF WatchingSpec

\* What any step may do to one cookie: keep it, drop it, or write into it what its viewer
\* has just entered or given; and nothing that was written down is lost.
LEMMA CookieStep ==
  ASSUME WatchingTypeOK, [WatchingNext]_watchingVars, NEW a \in Viewers, NEW t \in ShareLinks
  PROVE  /\ cookie'[a][t].wa \in {0, cookie[a][t].wa} \/ <<t, cookie'[a][t].wa>> \in entered'[a]
         /\ \/ cookie'[a][t].eg \in {NoMail, cookie[a][t].eg}
            \/ t \in VideoLinks => <<t, cookie'[a][t].eg>> \in recording'
         /\ entered[a] \subseteq entered'[a]
         /\ Written \subseteq Written'
<1> DEFINE Quiet == UNCHANGED <<cookie, viewers, recording, unrecorded, entered>>
<1>0. cookie[a][t] \in Cookie
  BY CookieAt
<1>1. CASE Quiet
  BY <1>1 DEF Written
<1>2. ASSUME NEW s \in ShareLinks,
             \/ \E on \in BOOLEAN : SetDownloadEnabled(s, on) \/ SetEmailGate(s, on)
             \/ \E expiry \in {"never", "ahead"} : SetLinkExpiry(s, expiry)
             \/ \E status \in {"processing", "ready", "deleted"} : StatusChanges(s, status)
             \/ LinkExpires(s) \/ UnsharePlaylist(s) \/ ClearSharePassword(s)
      PROVE  Quiet
  BY <1>2, SettingTypes
<1>3. ASSUME NEW s \in ShareLinks, SetSharePassword(s) PROVE Quiet
  BY <1>3 DEF SetSharePassword
<1>4. ASSUME NEW s \in ShareLinks, SharePlaylist(s)
      PROVE  /\ cookie'[a][t] \in {NoCookie, cookie[a][t]}
             /\ UNCHANGED <<viewers, recording, unrecorded, entered>>
  BY <1>4 DEF SharePlaylist, WatchingTypeOK
<1>5. ASSUME NEW b \in Viewers, NEW s \in ShareLinks, CookiesExpire(b, s)
      PROVE  /\ cookie'[a][t] \in {NoCookie, cookie[a][t]}
             /\ UNCHANGED <<viewers, recording, unrecorded, entered>>
  BY <1>5 DEF CookiesExpire, WatchingTypeOK
<1>6. ASSUME /\ cookie'[a][t] \in {NoCookie, cookie[a][t]}
             /\ UNCHANGED <<viewers, recording, unrecorded, entered>>
      PROVE  /\ cookie'[a][t].wa \in {0, cookie[a][t].wa}
             /\ cookie'[a][t].eg \in {NoMail, cookie[a][t].eg}
             /\ entered[a] \subseteq entered'[a]
             /\ Written \subseteq Written'
  BY <1>6 DEF NoCookie, Written
<1>7. ASSUME NEW b \in Viewers, NEW s \in ShareLinks, EnterPassword(b, s)
      PROVE  /\ cookie'[a][t].wa = cookie[a][t].wa \/ <<t, cookie'[a][t].wa>> \in entered'[a]
             /\ cookie'[a][t].eg = cookie[a][t].eg
             /\ entered[a] \subseteq entered'[a]
             /\ Written \subseteq Written'
  <2>1. CASE a = b /\ t = s
    <3>1. cookie'[a][t] = [cookie[a][t] EXCEPT !.wa = share[t].password]
      BY <1>7, <2>1 DEF EnterPassword, WatchingTypeOK
    <3>2. entered'[a] = entered[a] \cup {<<t, share[t].password>>}
      BY <1>7, <2>1 DEF EnterPassword, WatchingTypeOK
    <3> QED
      BY <1>0, <1>7, <3>1, <3>2 DEF EnterPassword, Cookie, Written
  <2>2. CASE ~(a = b /\ t = s)
    <3>1. cookie'[a][t] = cookie[a][t] /\ entered[a] \subseteq entered'[a]
      BY <1>7, <2>2 DEF EnterPassword, WatchingTypeOK
    <3> QED
      BY <1>7, <3>1 DEF EnterPassword, Written
  <2> QED
    BY <2>1, <2>2
<1>8. ASSUME NEW b \in Viewers, NEW s \in ShareLinks, NEW m \in Mails,
             IdentifyViewer(b, s, m) \/ IdentifyPlaylistViewer(b, s, m)
      PROVE  /\ cookie'[a][t].wa = cookie[a][t].wa
             /\ \/ cookie'[a][t].eg = cookie[a][t].eg
                \/ t \in VideoLinks => <<t, cookie'[a][t].eg>> \in recording'
             /\ entered[a] \subseteq entered'[a]
             /\ Written \subseteq Written'
  <2>1. GiveMail(b, s, m)
    BY <1>8 DEF IdentifyViewer, IdentifyPlaylistViewer
  <2>2. CASE a = b /\ t = s
    <3>1. cookie'[a][t] = [cookie[a][t] EXCEPT !.eg = m]
      BY <2>1, <2>2 DEF GiveMail, WatchingTypeOK
    <3>2. cookie'[a][t].wa = cookie[a][t].wa /\ cookie'[a][t].eg = m
      BY <1>0, <3>1 DEF Cookie
    <3> QED
      BY <1>8, <2>2, <3>2, WatchingAssumption
      DEF IdentifyViewer, IdentifyPlaylistViewer, Written
  <2>3. CASE ~(a = b /\ t = s)
    <3>1. cookie'[a][t] = cookie[a][t]
      BY <2>1, <2>3 DEF GiveMail, WatchingTypeOK
    <3> QED
      BY <1>8, <3>1 DEF IdentifyViewer, IdentifyPlaylistViewer, Written
  <2> QED
    BY <2>2, <2>3
<1>9. ASSUME NEW s \in VideoLinks, NEW m \in Mails, RecordViewer(s, m)
      PROVE  /\ cookie'[a][t] = cookie[a][t]
             /\ entered[a] \subseteq entered'[a]
             /\ Written \subseteq Written'
  BY <1>9 DEF RecordViewer, Written
<1>10. CASE UNCHANGED watchingVars
  BY <1>10, <1>1 DEF watchingVars
<1> QED
  BY <1>1, <1>2, <1>3, <1>4, <1>5, <1>6, <1>7, <1>8, <1>9, <1>10
  DEF WatchingNext, VerifyWatchPassword, VerifyPlaylistWatchPassword

\* Whoever is answered with content of a link has entered the password it has now, for
\* any passwords set, taken away and set again (verifyWatchCookie signs with the hash).
THEOREM PasswordIsAsked == WatchingSpec => []PasswordHolds
<1>1. WatchingInit => CookiesEntered
  BY DEF WatchingInit, CookiesEntered, NoCookie
<1>2. ASSUME WatchingTypeOK, CookiesEntered, [WatchingNext]_watchingVars
      PROVE  CookiesEntered'
  <2> SUFFICES ASSUME NEW a \in Viewers, NEW t \in ShareLinks, cookie'[a][t].wa # 0
               PROVE  <<t, cookie'[a][t].wa>> \in entered'[a]
    BY DEF CookiesEntered
  <2> QED
    BY <1>2, CookieStep DEF CookiesEntered
<1>3. CookiesEntered => PasswordHolds
  BY DEF CookiesEntered, PasswordHolds, ShownAny, ShownVideo, WatchPage, EmbedPage, Watch,
         WatchThumbnail, OEmbed, WatchDownload, PlaylistWatchPage, PlaylistEmbedPage,
         LookupWatchVideo, EnforceWatchAccess, PasswordPassed, HasValidWatchCookie
<1> QED
  BY <1>1, <1>2, <1>3, WatchingTyped, PTL DEF WatchingSpec

\* Whoever is shown a video behind the e-mail gate is on its list of viewers, or being
\* put there, or that failed (IdentifyViewer sets the cookie and starts the goroutine).
THEOREM GateRecords == WatchingSpec => []GateIsRecorded
<1>1. WatchingInit => CookiesWritten
  BY DEF WatchingInit, CookiesWritten, NoCookie, ShareLinks
<1>2. ASSUME WatchingTypeOK, CookiesWritten, [WatchingNext]_watchingVars
      PROVE  CookiesWritten'
  <2> SUFFICES ASSUME NEW a \in Viewers, NEW t \in VideoLinks, cookie'[a][t].eg # NoMail
               PROVE  <<t, cookie'[a][t].eg>> \in Written'
    BY DEF CookiesWritten
  <2>1. t \in ShareLinks
    BY DEF ShareLinks
  <2>2. CASE cookie'[a][t].eg = cookie[a][t].eg
    BY <1>2, <2>1, <2>2, CookieStep DEF CookiesWritten
  <2>3. CASE <<t, cookie'[a][t].eg>> \in recording'
    BY <2>3 DEF Written
  <2> QED
    BY <1>2, <2>1, <2>2, <2>3, CookieStep
<1>3. CookiesWritten => GateIsRecorded
  BY DEF CookiesWritten, GateIsRecorded, ShownVideo, WatchPage, EmbedPage, Watch,
         WatchThumbnail, OEmbed, WatchDownload, EnforceWatchAccess, GatePassed,
         HasValidEmailGateCookie, Written
<1> QED
  BY <1>1, <1>2, <1>3, WatchingTyped, PTL DEF WatchingSpec

-----------------------------------------------------------------------------
(***************************************************************************)
(* Notices.  What the goroutine of a view or comment and the digest each   *)
(* decided is compared with the settings of the moment, am of the account  *)
(* and vm of the video: as long as an event is settled they are the ones   *)
(* both decided by, and no setting allows both.                            *)
(***************************************************************************)
AtOnce(e, am, vm) ==
  \/ e.kind = "view" /\ vm = "every"
  \/ e.kind = "view" /\ vm = "null" /\ am \in {"views_only", "views_and_comments"}
  \/ e.kind = "comment" /\ am \in {"comments_only", "views_and_comments"}

Digested(e, am, vm) ==
  /\ am = "digest"
  /\ e.kind = "view" => vm \in {"null", "digest"}

DecidedBy(e, am, vm) ==
  e.settled =>
    /\ e.kind = "view" => e.read = vm
    /\ (e.now \/ e.pc = "mail") => AtOnce(e, am, vm)
    /\ e.later => Digested(e, am, vm)

DecisionsHold == \A i \in Events : Came(i) => DecidedBy(event[i], accountMode, videoMode)

LEMMA EventAt ==
  ASSUME NoticesTypeOK, NEW i \in Events, Came(i)
  PROVE  event[i] \in Event
  BY DEF NoticesTypeOK, Came

LEMMA PutTypes ==
  ASSUME NoticesTypeOK, NEW i \in Events, NEW e \in Event \cup {NoEvent}, Put(i, e)
  PROVE  NoticesTypeOK'
  BY DEF NoticesTypeOK, Put

LEMMA PutKeeps ==
  ASSUME NoticesTypeOK, DecisionsHold, NEW i \in Events, NEW e, Put(i, e),
         e # NoEvent => DecidedBy(e, accountMode, videoMode)
  PROVE  DecisionsHold'
<1> SUFFICES ASSUME NEW j \in Events, event'[j] # NoEvent
             PROVE  DecidedBy(event'[j], accountMode', videoMode')
  BY DEF DecisionsHold, Came
<1>1. accountMode' = accountMode /\ videoMode' = videoMode
  BY DEF Put
<1>2. event'[j] = IF j = i THEN e ELSE event[j]
  BY DEF Put, NoticesTypeOK
<1> QED
  BY <1>1, <1>2 DEF DecisionsHold, Came

\* A new event: nothing is decided yet.
LEMMA NewEvent ==
  ASSUME NEW k \in Kinds, NEW r \in VideoModes, NEW own \in BOOLEAN, NEW private \in BOOLEAN,
         NEW reaction \in BOOLEAN, k = "view" => r = videoMode,
         NEW e, e = [kind |-> k, pc |-> "insert", read |-> r, own |-> own,
                     private |-> private, reaction |-> reaction, stored |-> FALSE,
                     now |-> FALSE, later |-> FALSE, settled |-> TRUE]
  PROVE  e \in Event /\ DecidedBy(e, accountMode, videoMode)
  BY DEF Event, DecidedBy

LEMMA ViewKeeps ==
  ASSUME NoticesTypeOK, DecisionsHold, NEW i \in Events, NEW own \in BOOLEAN, View(i, own)
  PROVE  NoticesTypeOK' /\ DecisionsHold'
<1> DEFINE e == [kind |-> "view", pc |-> "insert", read |-> videoMode, own |-> own,
                 private |-> FALSE, reaction |-> FALSE, stored |-> FALSE,
                 now |-> FALSE, later |-> FALSE, settled |-> TRUE]
<1>1. videoMode \in VideoModes /\ "view" \in Kinds
  BY DEF NoticesTypeOK, Kinds
<1>2. e \in Event /\ DecidedBy(e, accountMode, videoMode)
  BY <1>1, NewEvent
<1>3. Put(i, e)
  BY DEF View
<1> HIDE DEF e
<1> QED
  BY <1>2, <1>3, PutTypes, PutKeeps

LEMMA PostKeeps ==
  ASSUME NoticesTypeOK, DecisionsHold, NEW i \in Events, NEW author \in Authors,
         NEW own \in BOOLEAN, NEW private \in BOOLEAN, PostWatchComment(i, author, own, private)
  PROVE  NoticesTypeOK' /\ DecisionsHold'
<1> DEFINE reaction == author = "reaction"
           e == [kind |-> "comment", pc |-> "insert", read |-> "null", own |-> own,
                 private |-> private, reaction |-> reaction, stored |-> FALSE,
                 now |-> FALSE, later |-> FALSE, settled |-> TRUE]
<1>1. "null" \in VideoModes /\ "comment" \in Kinds /\ reaction \in BOOLEAN
  BY DEF VideoModes, Kinds
<1>2. Put(i, e)
  BY DEF PostWatchComment
<1> HIDE DEF reaction
<1>3. e \in Event /\ DecidedBy(e, accountMode, videoMode)
  BY <1>1, NewEvent
<1> HIDE DEF e
<1> QED
  BY <1>2, <1>3, PutTypes, PutKeeps

\* The steps of a goroutine.  Only a decision to mail needs the settings.
LEMMA GoroutineKeeps ==
  ASSUME NoticesTypeOK, DecisionsHold, NEW i \in Events,
         \/ RecordView(i) \/ ResolveAndNotify(i) \/ InsertComment(i) \/ DecideComment(i)
         \/ SendMail(i) \/ DieWith(i) \/ DeleteComment(i)
  PROVE  NoticesTypeOK' /\ DecisionsHold'
<1>1. Came(i) /\ event[i] \in Event
  BY EventAt DEF RecordView, ResolveAndNotify, InsertComment, DecideComment, SendMail,
                 DieWith, DeleteComment
<1>2. DecidedBy(event[i], accountMode, videoMode)
  BY <1>1 DEF DecisionsHold
<1>3. ASSUME NEW stored \in BOOLEAN, NEW now \in BOOLEAN, NEW step \in {"decide", "mail", "done"},
             now => event[i].now \/ event[i].pc = "mail",
             step = "mail" => AtOnce(event[i], accountMode, videoMode),
             NEW e, e = [event[i] EXCEPT !.stored = stored, !.now = now, !.pc = step], Put(i, e)
      PROVE  NoticesTypeOK' /\ DecisionsHold'
  <2>1. e \in Event
    BY <1>1, <1>3 DEF Event
  <2>2. /\ e.pc = step /\ e.now = now
        /\ e.kind = event[i].kind /\ e.read = event[i].read /\ e.later = event[i].later
        /\ e.settled = event[i].settled
    BY <1>1, <1>3 DEF Event
  <2>3. DecidedBy(e, accountMode, videoMode)
    BY <1>2, <1>3, <2>2 DEF DecidedBy, AtOnce, Digested
  <2> QED
    BY <1>3, <2>1, <2>3, PutTypes, PutKeeps
<1>4. /\ event[i].stored \in BOOLEAN /\ event[i].now \in BOOLEAN
      /\ event[i].pc \in {"insert", "decide", "mail", "done"}
  BY <1>1 DEF Event
<1>5. CASE RecordView(i)
  <2>1. PICK stored \in BOOLEAN :
          Put(i, [event[i] EXCEPT !.stored = stored, !.pc = IF event[i].own THEN "done" ELSE "decide"])
    BY <1>5 DEF RecordView
  <2>2. PICK step \in {"decide", "done"} : Put(i, [event[i] EXCEPT !.stored = stored, !.pc = step])
    BY <2>1
  <2>3. [event[i] EXCEPT !.stored = stored, !.pc = step]
          = [event[i] EXCEPT !.stored = stored, !.now = event[i].now, !.pc = step]
    BY <1>1 DEF Event
  <2> QED
    BY <1>3, <1>4, <2>2, <2>3
<1>6. ASSUME NEW step \in {"mail", "done"}, Put(i, [event[i] EXCEPT !.pc = step]),
             step = "mail" => AtOnce(event[i], accountMode, videoMode)
      PROVE  NoticesTypeOK' /\ DecisionsHold'
  <2>1. [event[i] EXCEPT !.pc = step]
          = [event[i] EXCEPT !.stored = event[i].stored, !.now = event[i].now, !.pc = step]
    BY <1>1 DEF Event
  <2> QED
    BY <1>3, <1>4, <1>6, <2>1
<1>7. CASE ResolveAndNotify(i)
  <2>1. PICK step \in {"mail", "done"} :
          Put(i, [event[i] EXCEPT !.pc = step]) /\ (step = "mail" => ViewIsMailed(i))
    BY <1>7 DEF ResolveAndNotify
  <2>2. CASE event[i].settled
    <3>1. event[i].kind = "view" /\ event[i].read = videoMode
      BY <1>2, <1>7, <2>2 DEF DecidedBy, ResolveAndNotify
    <3>2. ViewIsMailed(i) => AtOnce(event[i], accountMode, videoMode)
      BY <3>1 DEF ViewIsMailed, AtOnce, SendsImmediateViews
    <3> QED
      BY <1>6, <2>1, <3>2
  <2>3. CASE ~event[i].settled
    <3> DEFINE e == [event[i] EXCEPT !.pc = step]
    <3>1. e \in Event
      BY <1>1, <2>1 DEF Event
    <3>2. ~e.settled
      BY <1>1, <2>3 DEF Event
    <3>3. DecidedBy(e, accountMode, videoMode)
      BY <3>2 DEF DecidedBy
    <3> HIDE DEF e
    <3>4. Put(i, e)
      BY <2>1 DEF e
    <3> QED
      BY <3>1, <3>3, <3>4, PutTypes, PutKeeps
  <2> QED
    BY <2>2, <2>3
<1>8. CASE InsertComment(i)
  <2>1. CASE Put(i, NoEvent)
    BY <2>1, PutTypes, PutKeeps
  <2>2. CASE Put(i, [event[i] EXCEPT !.stored = TRUE, !.pc = "decide"])
    <3>1. [event[i] EXCEPT !.stored = TRUE, !.pc = "decide"]
            = [event[i] EXCEPT !.stored = TRUE, !.now = event[i].now, !.pc = "decide"]
      BY <1>1 DEF Event
    <3> QED
      BY <1>3, <1>4, <2>2, <3>1
  <2> QED
    BY <1>8, <2>1, <2>2 DEF InsertComment
<1>9. CASE DecideComment(i)
  <2>1. PICK step \in {"mail", "done"} :
          Put(i, [event[i] EXCEPT !.pc = step]) /\ (step = "mail" => CommentIsMailed(i))
    BY <1>9 DEF DecideComment
  <2>2. CommentIsMailed(i) => AtOnce(event[i], accountMode, videoMode)
    BY <1>9 DEF DecideComment, CommentIsMailed, AtOnce, SendsImmediateComments
  <2> QED
    BY <1>6, <2>1, <2>2
<1>10. CASE SendMail(i)
  <2>1. PICK sent \in BOOLEAN : Put(i, [event[i] EXCEPT !.now = sent, !.pc = "done"])
    BY <1>10 DEF SendMail
  <2>2. [event[i] EXCEPT !.now = sent, !.pc = "done"]
          = [event[i] EXCEPT !.stored = event[i].stored, !.now = sent, !.pc = "done"]
    BY <1>1 DEF Event
  <2> QED
    BY <1>3, <1>4, <1>10, <2>1, <2>2 DEF SendMail
<1>11. CASE DieWith(i)
  <2>1. CASE Put(i, NoEvent)
    BY <2>1, PutTypes, PutKeeps
  <2>2. CASE Put(i, [event[i] EXCEPT !.pc = "done"])
    BY <1>6, <2>2
  <2> QED
    BY <1>11, <2>1, <2>2 DEF DieWith
<1>12. CASE DeleteComment(i)
  <2> DEFINE e == [event[i] EXCEPT !.stored = FALSE]
  <2>1. e \in Event
    BY <1>1 DEF Event
  <2>2. /\ e.pc = event[i].pc /\ e.now = event[i].now
        /\ e.kind = event[i].kind /\ e.read = event[i].read /\ e.later = event[i].later
        /\ e.settled = event[i].settled
    BY <1>1 DEF Event
  <2>3. Put(i, e)
    BY <1>12 DEF DeleteComment
  <2> HIDE DEF e
  <2>4. DecidedBy(e, accountMode, videoMode)
    BY <1>2, <2>2 DEF DecidedBy, AtOnce, Digested
  <2> QED
    BY <2>1, <2>3, <2>4, PutTypes, PutKeeps
<1> QED
  BY <1>5, <1>7, <1>8, <1>9, <1>10, <1>11, <1>12

\* A setting changes: no event is settled any more.
LEMMA UnsettledKeeps ==
  ASSUME NoticesTypeOK, event' = Unsettled
  PROVE  event' \in [Events -> Event \cup {NoEvent}] /\ DecisionsHold'
<1>1. ASSUME NEW i \in Events
      PROVE  /\ event'[i] \in Event \cup {NoEvent}
             /\ event'[i] # NoEvent => ~event'[i].settled
  <2>1. CASE ~Came(i)
    BY <2>1 DEF Unsettled
  <2>2. CASE Came(i)
    <3>1. event[i] \in Event
      BY <2>2, EventAt
    <3>2. [event[i] EXCEPT !.settled = FALSE] \in Event
      BY <3>1 DEF Event
    <3>3. ~[event[i] EXCEPT !.settled = FALSE].settled
      BY <3>1 DEF Event
    <3> QED
      BY <2>2, <3>2, <3>3 DEF Unsettled
  <2> QED
    BY <2>1, <2>2
<1>2. event' \in [Events -> Event \cup {NoEvent}]
  BY <1>1 DEF Unsettled
<1> QED
  BY <1>1, <1>2 DEF DecisionsHold, Came, DecidedBy

LEMMA ProcessDigestKeeps ==
  ASSUME NoticesTypeOK, DecisionsHold, NEW recent \in SUBSET Events, ProcessDigest(recent)
  PROVE  NoticesTypeOK' /\ DecisionsHold'
<1> DEFINE counted == {i \in recent : InDigest(i)}
<1>1. event' = [i \in Events |->
                  IF i \in counted THEN [event[i] EXCEPT !.later = TRUE] ELSE event[i]]
  BY DEF ProcessDigest
<1>2. /\ accountMode = "digest"
      /\ UNCHANGED <<accountMode, videoMode, commentMode, videoDeleted>>
  BY DEF ProcessDigest
<1>3. ASSUME NEW i \in Events, i \in counted
      PROVE  event'[i] \in Event /\ DecidedBy(event'[i], accountMode, videoMode)
  <2>1. Came(i) /\ event[i] \in Event /\ DecidedBy(event[i], accountMode, videoMode)
    BY <1>3, EventAt DEF InDigest, DecisionsHold
  <2>2. event'[i] = [event[i] EXCEPT !.later = TRUE]
    BY <1>1, <1>3
  <2>3. event'[i] \in Event
    BY <2>1, <2>2 DEF Event
  <2>4. /\ event'[i].pc = event[i].pc /\ event'[i].now = event[i].now
        /\ event'[i].kind = event[i].kind /\ event'[i].read = event[i].read
        /\ event'[i].settled = event[i].settled
    BY <2>1, <2>2 DEF Event
  <2>5. Digested(event[i], accountMode, videoMode)
    BY <1>2, <1>3 DEF Digested, InDigest
  <2> QED
    BY <2>1, <2>3, <2>4, <2>5 DEF DecidedBy, AtOnce, Digested
<1>4. ASSUME NEW i \in Events, i \notin counted PROVE event'[i] = event[i]
  BY <1>1, <1>4
<1>5. event' \in [Events -> Event \cup {NoEvent}]
  BY <1>1, <1>3, <1>4 DEF NoticesTypeOK
<1>6. \A i \in Events : event'[i] # NoEvent => DecidedBy(event'[i], accountMode', videoMode')
  BY <1>2, <1>3, <1>4 DEF DecisionsHold, Came
<1> QED
  BY <1>2, <1>5, <1>6 DEF NoticesTypeOK, DecisionsHold, Came

LEMMA NoticesStep ==
  ASSUME NoticesTypeOK, DecisionsHold, [NoticesNext]_noticeVars
  PROVE  NoticesTypeOK' /\ DecisionsHold'
<1>1. ASSUME NEW mode \in AccountModes, PutNotificationPreferences(mode)
      PROVE  NoticesTypeOK' /\ DecisionsHold'
  BY <1>1, UnsettledKeeps DEF PutNotificationPreferences, NoticesTypeOK
<1>2. ASSUME NEW mode \in VideoModes, SetVideoNotification(mode)
      PROVE  NoticesTypeOK' /\ DecisionsHold'
  BY <1>2, UnsettledKeeps DEF SetVideoNotification, NoticesTypeOK
<1>3. ASSUME NEW mode \in CommentModes, SetCommentMode(mode)
      PROVE  NoticesTypeOK' /\ DecisionsHold'
  BY <1>3 DEF SetCommentMode, NoticesTypeOK, DecisionsHold, Came
<1>4. CASE DeleteVideo
  BY <1>4 DEF DeleteVideo, NoticesTypeOK, DecisionsHold, Came
<1>5. CASE UNCHANGED noticeVars
  BY <1>5 DEF noticeVars, NoticesTypeOK, DecisionsHold, Came
<1> QED
  BY <1>1, <1>2, <1>3, <1>4, <1>5, ViewKeeps, PostKeeps, GoroutineKeeps, ProcessDigestKeeps
  DEF NoticesNext

LEMMA NoticesStart == NoticesInit => NoticesTypeOK /\ DecisionsHold
  BY DEF NoticesInit, NoticesTypeOK, DecisionsHold, Came, AccountModes, VideoModes, CommentModes

\* The settings and the events keep their types (notifications, view.go, comment.go).
THEOREM NoticesTyped == NoticesSpec => []NoticesTypeOK
<1>1. NoticesTypeOK /\ DecisionsHold /\ [NoticesNext]_noticeVars
        => NoticesTypeOK' /\ DecisionsHold'
  BY NoticesStep
<1> QED
  BY <1>1, NoticesStart, PTL DEF NoticesSpec

\* No event is told of at once and in a digest unless a setting changed in between
\* (resolveAndNotify and the digest's query decide by the same settings).
THEOREM NobodyIsToldTwice == NoticesSpec => []ToldOnce
<1>1. NoticesTypeOK /\ DecisionsHold /\ [NoticesNext]_noticeVars
        => NoticesTypeOK' /\ DecisionsHold'
  BY NoticesStep
<1>2. DecisionsHold => ToldOnce
  BY DEF DecisionsHold, DecidedBy, AtOnce, Digested, ToldOnce
<1> QED
  BY <1>1, <1>2, NoticesStart, PTL DEF NoticesSpec

-----------------------------------------------------------------------------
(***************************************************************************)
(* The runs of MCEncoderSlots.                                             *)
(***************************************************************************)

\* Every behaviour of the composed instance is one of each part: what is proved of the
\* parts holds in the run.
THEOREM PagesAreParts == PagesSpec => Spec /\ WatchingSpec /\ NoticesSpec
<1>1. PagesInit => Init /\ WatchingInit /\ NoticesInit
  BY DEF PagesInit
<1>2. [PagesNext]_<<vars, pages, part>> => [Next]_vars
  BY DEF PagesNext
<1>3. [PagesNext]_<<vars, pages, part>> => [WatchingNext]_watchingVars
  BY DEF PagesNext, pages
<1>4. [PagesNext]_<<vars, pages, part>> => [NoticesNext]_noticeVars
  BY DEF PagesNext, pages
<1> QED
  BY <1>1, <1>2, <1>3, <1>4, PTL DEF PagesSpec, Spec, WatchingSpec, NoticesSpec

\* The gates, the rows, the cookies and the events of all parts are well typed in it.
THEOREM PagesTyped == PagesSpec => []TypesOK
<1>1. TypeOK /\ WatchingTypeOK /\ NoticesTypeOK => TypesOK
  BY DEF TypesOK
<1> QED
  BY <1>1, PagesAreParts, SlotsTyped, WatchingTyped, NoticesTyped, PTL
=============================================================================
