------------------------------- MODULE MCSafety -------------------------------
(***************************************************************************)
(* Small instances of VideoLifecycle, Identities, Library, Playlists and   *)
(* Analytics.  They share no state here: each behaviour is one of one of   *)
(* them, told by part, and a model value stands for a task of one and a    *)
(* request of another.  The library is taken apart further, along a line   *)
(* that nothing crosses but the requests: folders from tags.               *)
(***************************************************************************)
EXTENDS MCVideoLifecycle, Identities, Library, Playlists, Analytics

VARIABLE part

others == <<identityVars, libraryVars, playlistVars, analyticsVars>>

SafetyInit ==
  /\ Init /\ IdentitiesInit /\ LibraryInit /\ PlaylistsInit /\ AnalyticsInit
  /\ part \in {"videos", "identities", "folders", "tags", "playlists", "analytics"}

Filing == LibraryNext /\ \A e \in Edits : edit'[e].pc # "addTag"
Tagging == LibraryNext /\ \A e \in Edits : edit'[e].pc \notin {"file", "addFolder"}

SafetyNext ==
  \/ part = "videos" /\ Next /\ UNCHANGED <<others, part>>
  \/ /\ \/ part = "folders" /\ Filing
        \/ part = "tags" /\ Tagging
     /\ UNCHANGED <<vars, identityVars, playlistVars, analyticsVars, part>>
  \/ /\ part = "identities" /\ IdentitiesNext
     /\ UNCHANGED <<vars, libraryVars, playlistVars, analyticsVars, part>>
  \/ /\ part = "playlists" /\ PlaylistsNext
     /\ UNCHANGED <<vars, identityVars, libraryVars, analyticsVars, part>>
  \/ /\ part = "analytics" /\ AnalyticsNext
     /\ UNCHANGED <<vars, identityVars, libraryVars, playlistVars, part>>

SafetySpec == SafetyInit /\ [][SafetyNext]_<<vars, others, part>>

\* Every row, request and goroutine of these modules has its type.
TypesOK == IdentitiesTypeOK /\ LibraryTypeOK /\ PlaylistsTypeOK /\ AnalyticsTypeOK

\* Tasks and requests are interchangeable, and so are people, owners, and films.
Interchangeable == Symmetry \cup Permutations(People)

\* The state of the other modules does not change.
AllObserved ==
  <<part, CASE part = "videos" -> Observed
            [] part = "identities" -> identityVars
            [] part = "playlists" -> playlistVars
            [] part = "analytics" -> analyticsVars
            [] OTHER -> libraryVars>>
=============================================================================
