----------------------------- MODULE Watching -----------------------------
(***************************************************************************)
(* Who is shown a shared video or playlist: watch_auth.go, and the checks  *)
(* of every page and answer that share links lead to.                      *)
(*                                                                         *)
(* A viewer proves with cookies that they entered the password and gave    *)
(* an e-mail address; the owner changes the password, the gate and the     *)
(* link's life meanwhile.  A page that only reads is a predicate here: to  *)
(* whom it answers with content.  The password is a number: setting one    *)
(* makes a new hash, the next number, even of the same text.               *)
(***************************************************************************)
EXTENDS Naturals, FiniteSets

CONSTANTS Viewers, Mails,
          VideoLinks,         \* share tokens of videos
          PlaylistLinks,      \* share tokens of playlists
          NoMail,
          MaxSharePasswords   \* bounds the model: the passwords set on a link

ASSUME WatchingAssumption ==
  /\ VideoLinks \cap PlaylistLinks = {} /\ NoMail \notin Mails
  /\ MaxSharePasswords \in Nat

ShareLinks == VideoLinks \cup PlaylistLinks

VARIABLES share,      \* the sharing columns of videos and playlists
          passwords,  \* the number of passwords each link has had
          cookie,     \* what each viewer's browser keeps for a link
          viewers,    \* video_viewers
          recording,  \* IdentifyViewer's goroutines
          unrecorded, \* history: those that failed or died
          entered     \* history: the passwords each viewer was right about

watchingVars == <<share, passwords, cookie, viewers, recording, unrecorded, entered>>

\* A playlist is "ready" while is_shared, "uploading" before and after; it has no expiry and no downloads.
Share == [status : {"uploading", "processing", "ready", "deleted"},
          expiry : {"never", "ahead", "past"},
          password : 0..MaxSharePasswords, gate : BOOLEAN, downloads : BOOLEAN]
Cookie == [wa : 0..MaxSharePasswords, eg : Mails \cup {NoMail}]
NoCookie == [wa |-> 0, eg |-> NoMail]

WatchingInit ==
  /\ share = [t \in ShareLinks |->
       [status |-> "uploading", expiry |-> "never", password |-> 0, gate |-> FALSE,
        downloads |-> TRUE]]
  /\ passwords = [t \in ShareLinks |-> 0]
  /\ cookie = [a \in Viewers |-> [t \in ShareLinks |-> NoCookie]]
  /\ viewers = {} /\ recording = {} /\ unrecorded = {}
  /\ entered = [a \in Viewers |-> {}]

Shown(t) == share[t].status \in {"ready", "processing"}
Open(t) == Shown(t) /\ share[t].expiry # "past"

(***************************************************************************)
(* The owner's settings, and what becomes of the link.                     *)
(***************************************************************************)
Set(t, row) ==
  /\ share' = [share EXCEPT ![t] = row]
  /\ UNCHANGED <<passwords, cookie, viewers, recording, unrecorded, entered>>

SetDownloadEnabled(t, on) ==
  /\ t \in VideoLinks /\ share[t].status # "deleted" /\ share[t].downloads # on
  /\ Set(t, [share[t] EXCEPT !.downloads = on])

SetEmailGate(t, on) ==
  /\ share[t].status # "deleted" /\ share[t].gate # on
  /\ Set(t, [share[t] EXCEPT !.gate = on])

SetLinkExpiry(t, expiry) ==
  /\ t \in VideoLinks /\ share[t].status # "deleted" /\ expiry \in {"never", "ahead"}
  /\ Set(t, [share[t] EXCEPT !.expiry = expiry])

LinkExpires(t) == share[t].expiry = "ahead" /\ Set(t, [share[t] EXCEPT !.expiry = "past"])

StatusChanges(t, status) ==
  /\ t \in VideoLinks /\ share[t].status \notin {"deleted", status} /\ status # "uploading"
  /\ Set(t, [share[t] EXCEPT !.status = status])

\* UpdatePlaylist: sharing makes another token, of a shared playlist too, so that nobody
\* has cookies for it; the settings stay.
SharePlaylist(t) ==
  /\ t \in PlaylistLinks
  /\ share' = [share EXCEPT ![t].status = "ready"]
  /\ cookie' = [a \in Viewers |-> [cookie[a] EXCEPT ![t] = NoCookie]]
  /\ UNCHANGED <<passwords, viewers, recording, unrecorded, entered>>

UnsharePlaylist(t) ==
  /\ t \in PlaylistLinks /\ share[t].status = "ready"
  /\ Set(t, [share[t] EXCEPT !.status = "uploading"])

SetSharePassword(t) ==
  /\ share[t].status # "deleted" /\ passwords[t] < MaxSharePasswords
  /\ passwords' = [passwords EXCEPT ![t] = @ + 1]
  /\ share' = [share EXCEPT ![t].password = passwords[t] + 1]
  /\ UNCHANGED <<cookie, viewers, recording, unrecorded, entered>>

ClearSharePassword(t) ==
  /\ share[t].status # "deleted" /\ share[t].password # 0
  /\ Set(t, [share[t] EXCEPT !.password = 0])

(***************************************************************************)
(* VerifyWatchPassword and VerifyPlaylistWatchPassword; IdentifyViewer and *)
(* IdentifyPlaylistViewer.  None of them looks at the expiry, and only a   *)
(* video's viewers are recorded.                                           *)
(***************************************************************************)
EnterPassword(a, t) ==
  /\ Shown(t) /\ share[t].password # 0
  /\ cookie' = [cookie EXCEPT ![a][t].wa = share[t].password]
  /\ entered' = [entered EXCEPT ![a] = @ \cup {<<t, share[t].password>>}]
  /\ UNCHANGED <<share, passwords, viewers, recording, unrecorded>>

VerifyWatchPassword(a, t) == t \in VideoLinks /\ EnterPassword(a, t)
VerifyPlaylistWatchPassword(a, t) == t \in PlaylistLinks /\ EnterPassword(a, t)

GiveMail(a, t, m) == cookie' = [cookie EXCEPT ![a][t].eg = m]

\* A plausible mistake, to test the properties: an address is recorded once a viewer.
IdentifyOnce(a, t, m) ==
  /\ t \in VideoLinks /\ Shown(t)
  /\ GiveMail(a, t, m)
  /\ recording' = IF cookie[a][t].eg = NoMail THEN recording \cup {<<t, m>>} ELSE recording
  /\ UNCHANGED <<share, passwords, viewers, unrecorded, entered>>

IdentifyViewer(a, t, m) ==
  /\ t \in VideoLinks /\ Shown(t)
  /\ GiveMail(a, t, m)
  /\ recording' = recording \cup {<<t, m>>}
  /\ UNCHANGED <<share, passwords, viewers, unrecorded, entered>>

IdentifyPlaylistViewer(a, t, m) ==
  /\ t \in PlaylistLinks /\ Shown(t)
  /\ GiveMail(a, t, m)
  /\ UNCHANGED <<share, passwords, viewers, recording, unrecorded, entered>>

\* The goroutine inserts the row, or fails, or dies with the process.
RecordViewer(t, m) ==
  /\ <<t, m>> \in recording
  /\ recording' = recording \ {<<t, m>>}
  /\ \/ viewers' = viewers \cup {<<t, m>>} /\ UNCHANGED unrecorded
     \/ unrecorded' = unrecorded \cup {<<t, m>>} /\ UNCHANGED viewers
  /\ UNCHANGED <<share, passwords, cookie, entered>>

\* Cookies live for seven days.
CookiesExpire(a, t) ==
  /\ cookie[a][t] # NoCookie
  /\ cookie' = [cookie EXCEPT ![a][t] = NoCookie]
  /\ UNCHANGED <<share, passwords, viewers, recording, unrecorded, entered>>

-----------------------------------------------------------------------------
(***************************************************************************)
(* Who is answered with content.                                           *)
(***************************************************************************)
\* A plausible mistake, to test the properties: the signature is of the link only.
SignedForLink(a, t) == cookie[a][t].wa # 0

HasValidWatchCookie(a, t) == cookie[a][t].wa = share[t].password
HasValidEmailGateCookie(a, t) == cookie[a][t].eg # NoMail

PasswordPassed(a, t) == share[t].password # 0 => HasValidWatchCookie(a, t)
GatePassed(a, t) == share[t].gate => HasValidEmailGateCookie(a, t)
EnforceWatchAccess(a, t) == PasswordPassed(a, t) /\ GatePassed(a, t)

WatchPage(a, t) == t \in VideoLinks /\ Open(t) /\ EnforceWatchAccess(a, t)
EmbedPage(a, t) == t \in VideoLinks /\ Open(t) /\ EnforceWatchAccess(a, t)
Watch(a, t) == t \in VideoLinks /\ Open(t) /\ EnforceWatchAccess(a, t)
WatchThumbnail(a, t) == t \in VideoLinks /\ Open(t) /\ EnforceWatchAccess(a, t)
OEmbed(a, t) == t \in VideoLinks /\ Open(t) /\ EnforceWatchAccess(a, t)
WatchDownload(a, t) ==
  t \in VideoLinks /\ share[t].downloads /\ Open(t) /\ EnforceWatchAccess(a, t)
PlaylistWatchPage(a, t) == t \in PlaylistLinks /\ Shown(t) /\ EnforceWatchAccess(a, t)
PlaylistEmbedPage(a, t) == t \in PlaylistLinks /\ Shown(t) /\ EnforceWatchAccess(a, t)
\* Comments do not ask for the address.
LookupWatchVideo(a, t) == t \in VideoLinks /\ Open(t) /\ PasswordPassed(a, t)

ShownVideo(a, t) ==
  \/ WatchPage(a, t) \/ EmbedPage(a, t) \/ Watch(a, t)
  \/ WatchThumbnail(a, t) \/ OEmbed(a, t) \/ WatchDownload(a, t)
ShownAny(a, t) ==
  \/ ShownVideo(a, t) \/ LookupWatchVideo(a, t)
  \/ PlaylistWatchPage(a, t) \/ PlaylistEmbedPage(a, t)

-----------------------------------------------------------------------------
WatchingNext ==
  \/ \E t \in ShareLinks :
       \/ \E on \in BOOLEAN : SetDownloadEnabled(t, on) \/ SetEmailGate(t, on)
       \/ \E expiry \in {"never", "ahead"} : SetLinkExpiry(t, expiry)
       \/ \E status \in {"processing", "ready", "deleted"} : StatusChanges(t, status)
       \/ LinkExpires(t) \/ SharePlaylist(t) \/ UnsharePlaylist(t)
       \/ SetSharePassword(t) \/ ClearSharePassword(t)
  \/ \E a \in Viewers, t \in ShareLinks :
       \/ VerifyWatchPassword(a, t) \/ VerifyPlaylistWatchPassword(a, t) \/ CookiesExpire(a, t)
       \/ \E m \in Mails : IdentifyViewer(a, t, m) \/ IdentifyPlaylistViewer(a, t, m)
  \/ \E t \in VideoLinks, m \in Mails : RecordViewer(t, m)

WatchingSpec == WatchingInit /\ [][WatchingNext]_watchingVars

-----------------------------------------------------------------------------
WatchingTypeOK ==
  /\ share \in [ShareLinks -> Share]
  /\ passwords \in [ShareLinks -> 0..MaxSharePasswords]
  /\ cookie \in [Viewers -> [ShareLinks -> Cookie]]
  /\ viewers \subseteq VideoLinks \X Mails
  /\ recording \subseteq VideoLinks \X Mails
  /\ unrecorded \subseteq VideoLinks \X Mails
  /\ entered \in [Viewers -> SUBSET (ShareLinks \X (1..MaxSharePasswords))]

\* Whoever is shown anything of a link with a password has entered the password it has
\* now: one entered before it was changed, or taken away and set again, does not do.
PasswordHolds ==
  \A a \in Viewers, t \in ShareLinks :
    (ShownAny(a, t) /\ share[t].password # 0) => <<t, share[t].password>> \in entered[a]

\* Whoever is shown a video behind the e-mail gate is on its list of viewers by the
\* address they gave last, except while the row is being written and where that failed.
GateIsRecorded ==
  \A a \in Viewers, t \in VideoLinks :
    (ShownVideo(a, t) /\ share[t].gate) =>
      <<t, cookie[a][t].eg>> \in viewers \cup recording \cup unrecorded
=============================================================================
