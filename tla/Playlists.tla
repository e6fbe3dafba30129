----------------------------- MODULE Playlists -----------------------------
(***************************************************************************)
(* Playlists and the order of their videos: playlist.go.                   *)
(*                                                                         *)
(* Videos are added one at a time at the end, the end being read from the  *)
(* rows; a new order is written one row at a time.  Neither is done in a   *)
(* transaction, and deleted videos keep their rows.  (Sharing a playlist   *)
(* is in Watching.)                                                        *)
(***************************************************************************)
EXTENDS Integers, FiniteSets, FiniteSetsExt

CONSTANTS Lists, Films,
          Changes,       \* requests in flight
          Unlisted,      \* no row
          MaxLists,      \* h.maxPlaylists, of a free plan
          MaxPosition    \* bounds the model

ASSUME PlaylistsAssumption ==
  /\ MaxLists \in Nat /\ MaxPosition \in Nat
  /\ IsFiniteSet(Films) /\ Cardinality(Films) <= MaxPosition + 1
  /\ Unlisted \notin Int

VARIABLES playlist,  \* the playlists of one user
          position,  \* playlist_videos.position
          gone,      \* the videos with status = 'deleted'
          paying,    \* users.subscription_plan is not 'free'
          change,    \* what each request does
          mixed      \* history: playlists whose rows requests changed across each other

playlistVars == <<playlist, position, gone, paying, change, mixed>>

Positions == 0..MaxPosition
Change == [pc : {"idle", "create"}]
  \cup [pc : {"look"}, list : Lists, left : SUBSET Films]
  \cup [pc : {"insert"}, list : Lists, left : SUBSET Films, film : Films, at : Positions]
  \cup [pc : {"move"}, list : Lists, left : SUBSET Films, to : UNION {[S -> Positions] : S \in SUBSET Films}]

NoChange == [pc |-> "idle"]

PlaylistsInit ==
  /\ playlist = {}
  /\ position = [p \in Lists |-> [v \in Films |-> Unlisted]]
  /\ gone = {} /\ paying = FALSE
  /\ change = [c \in Changes |-> NoChange]
  /\ mixed = {}

Rows(p) == {v \in Films : position[p][v] # Unlisted}
\* GetPlaylist, loadPlaylistVideos: rows of deleted videos are not shown.
Visible(p) == Rows(p) \ gone
WorksOn(c, p) == change[c].pc \notin {"idle", "create"} /\ change[c].list = p

\* A request begins to work on a playlist; it mixes with those that are at it.
Meets(c, p) == \E other \in Changes \ {c} : WorksOn(other, p)
Mix(p, does) == mixed' = IF does THEN mixed \cup {p} ELSE mixed

(***************************************************************************)
(* CreatePlaylist counts, for a free plan, and inserts; DeletePlaylist.    *)
(***************************************************************************)
CreatePlaylist(c) ==
  /\ change[c].pc = "idle"
  /\ ~paying => (MaxLists = 0 \/ Cardinality(playlist) < MaxLists)
  /\ change' = [change EXCEPT ![c] = [pc |-> "create"]]
  /\ UNCHANGED <<playlist, position, gone, paying, mixed>>

InsertPlaylist(c, p) ==
  /\ change[c].pc = "create" /\ p \notin playlist /\ \A d \in Changes : ~WorksOn(d, p)
  /\ playlist' = playlist \cup {p}
  /\ mixed' = mixed \ {p}
  /\ change' = [change EXCEPT ![c] = NoChange]
  /\ UNCHANGED <<position, gone, paying>>

DeletePlaylist(p) ==
  /\ p \in playlist
  /\ playlist' = playlist \ {p}
  /\ position' = [position EXCEPT ![p] = [v \in Films |-> Unlisted]]
  /\ UNCHANGED <<gone, paying, change, mixed>>

ChangePlan ==
  /\ paying' = ~paying
  /\ UNCHANGED <<playlist, position, gone, change, mixed>>

(***************************************************************************)
(* AddPlaylistVideos: for each video, is it there, and one statement that  *)
(* reads the highest position and inserts the next.  Another request's row *)
(* may come between the two halves of the statement; the video may be      *)
(* deleted before it, which is all the same for the first half.            *)
(***************************************************************************)
AddPlaylistVideos(c, p, films) ==
  /\ change[c].pc = "idle" /\ p \in playlist /\ films # {}
  /\ change' = [change EXCEPT ![c] = [pc |-> "look", list |-> p, left |-> films]]
  /\ Mix(p, Meets(c, p))
  /\ UNCHANGED <<playlist, position, gone, paying>>

\* A plausible mistake, to test the properties: the rows are counted.
CountRows(p) == Cardinality(Rows(p))

\* And: the highest position is used again.
LastPosition(p) == Max({-1} \cup {position[p][v] : v \in Rows(p)})

NextPosition(p) == Max({-1} \cup {position[p][v] : v \in Rows(p)}) + 1

\* A video that is gone ends the request; those before it stay added.
LookUpFilm(c) ==
  /\ change[c].pc = "look"
  /\ LET p == change[c].list IN \E v \in change[c].left :
       IF v \in gone
         THEN change' = [change EXCEPT ![c] = NoChange]
         ELSE /\ NextPosition(p) <= MaxPosition
              /\ change' = [change EXCEPT ![c] =
                   [pc |-> "insert", list |-> p, left |-> change[c].left \ {v}, film |-> v,
                    at |-> NextPosition(p)]]
  /\ UNCHANGED <<playlist, position, gone, paying, mixed>>

\* ON CONFLICT DO NOTHING; of a playlist deleted since, a foreign key error.
InsertFilm(c) ==
  /\ change[c].pc = "insert"
  /\ LET j == change[c] IN
       /\ position' = IF j.list \in playlist /\ j.film \notin Rows(j.list)
                        THEN [position EXCEPT ![j.list][j.film] = j.at] ELSE position
       /\ change' = [change EXCEPT ![c] =
            IF j.list \notin playlist \/ j.left = {} THEN NoChange
            ELSE [pc |-> "look", list |-> j.list, left |-> j.left]]
  /\ UNCHANGED <<playlist, gone, paying, mixed>>

RemovePlaylistVideo(p, v) ==
  /\ v \in Rows(p)
  /\ position' = [position EXCEPT ![p][v] = Unlisted]
  /\ UNCHANGED <<playlist, gone, paying, change, mixed>>

\* A single delete leaves the video's rows; a batch delete and retention remove them,
\* if the statement does not fail.
DeleteFilm(v) ==
  /\ v \notin gone /\ gone' = gone \cup {v}
  /\ \/ UNCHANGED position
     \/ position' = [p \in Lists |-> [position[p] EXCEPT ![v] = Unlisted]]
  /\ UNCHANGED <<playlist, paying, change, mixed>>

(***************************************************************************)
(* ReorderPlaylistVideos: the client numbers the videos it shows from 0.   *)
(* What it shows may be out of date, which counts as mixing, too.          *)
(***************************************************************************)
Numberings(films) ==
  {to \in [films -> 0..(Cardinality(films) - 1)] :
     \A v, w \in films : to[v] = to[w] => v = w}

ReorderPlaylistVideos(c, p, films) ==
  /\ change[c].pc = "idle" /\ p \in playlist /\ films # {}
  /\ \E to \in Numberings(films) :
       change' = [change EXCEPT ![c] = [pc |-> "move", list |-> p, left |-> films, to |-> to]]
  /\ Mix(p, Meets(c, p) \/ films # Visible(p))
  /\ UNCHANGED <<playlist, position, gone, paying>>

\* One UPDATE each.
MoveFilm(c) ==
  /\ change[c].pc = "move"
  /\ LET j == change[c] IN \E v \in j.left :
       /\ position' = IF v \in Rows(j.list)
                        THEN [position EXCEPT ![j.list][v] = j.to[v]] ELSE position
       /\ change' = [change EXCEPT ![c] =
            IF j.left = {v} THEN NoChange ELSE [j EXCEPT !.left = j.left \ {v}]]
  /\ UNCHANGED <<playlist, gone, paying, mixed>>

\* A statement fails, or the process dies: half of a new order is a mixture.
BreakChange(c) ==
  /\ change[c].pc # "idle"
  /\ change' = [change EXCEPT ![c] = NoChange]
  /\ mixed' = IF change[c].pc = "move" THEN mixed \cup {change[c].list} ELSE mixed
  /\ UNCHANGED <<playlist, position, gone, paying>>

-----------------------------------------------------------------------------
PlaylistsNext ==
  \/ ChangePlan
  \/ \E v \in Films : DeleteFilm(v)
  \/ \E p \in Lists : DeletePlaylist(p) \/ \E v \in Films : RemovePlaylistVideo(p, v)
  \/ \E c \in Changes :
       \/ CreatePlaylist(c) \/ LookUpFilm(c) \/ InsertFilm(c) \/ MoveFilm(c) \/ BreakChange(c)
       \/ \E p \in Lists :
            \/ InsertPlaylist(c, p)
            \/ \E films \in SUBSET Films :
                 AddPlaylistVideos(c, p, films) \/ ReorderPlaylistVideos(c, p, films)

PlaylistsSpec == PlaylistsInit /\ [][PlaylistsNext]_playlistVars

-----------------------------------------------------------------------------
PlaylistsTypeOK ==
  /\ playlist \subseteq Lists
  /\ position \in [Lists -> [Films -> Positions \cup {Unlisted}]]
  /\ gone \subseteq Films /\ paying \in BOOLEAN
  /\ change \in [Changes -> Change]
  /\ mixed \subseteq Lists

\* The videos a playlist shows are in one order, the one asked for: no two of them tie,
\* however videos were added, removed, deleted and moved, unless requests worked on the
\* playlist across each other, a new order broke off, or was of another set of videos.
OrderIsStrict ==
  \A p \in playlist \ mixed :
    (\A c \in Changes : ~(WorksOn(c, p) /\ change[c].pc = "move")) =>
      \A v, w \in Visible(p) : position[p][v] = position[p][w] => v = w
=============================================================================
