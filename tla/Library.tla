------------------------------ MODULE Library ------------------------------
(***************************************************************************)
(* Folders and tags, and the videos filed under them: folder.go, tag.go,   *)
(* transfer.go and the folders and tags of batch.go.                       *)
(*                                                                         *)
(* Every handler works in the scope of its caller, a workspace or the      *)
(* caller's own rows, and verifies what it was named in one statement and  *)
(* writes in another.  A transfer moves a video between scopes meanwhile.  *)
(***************************************************************************)
EXTENDS Naturals, FiniteSets

CONSTANTS Owners, Teams, Clips, Folders,
          Tags,             \* numbered, the least free one is the next
          Edits,            \* requests in flight
          Nowhere,          \* no workspace, no folder, no row
          MaxFolders,       \* maxFoldersPerUser, and maxTagsPerUser
          MaxTagsPerClip    \* maxTagsPerVideo

ASSUME LibraryAssumption ==
  /\ Nowhere \notin Teams \cup Folders /\ Tags \subseteq Nat
  /\ MaxFolders \in Nat \ {0} /\ MaxTagsPerClip \in Nat \ {0}
  /\ IsFiniteSet(Edits) /\ IsFiniteSet(Tags)

VARIABLES clip,    \* videos: user_id, organization_id, status
          filed,   \* videos.folder_id
          folder,  \* folders: user_id, organization_id
          tag,     \* tags: the same
          labels,  \* video_tags
          edit     \* what each request does

libraryVars == <<clip, filed, folder, tag, labels, edit>>

\* The scope a row is in, and the one a request is made in.
Scope == [user : Owners, org : Teams \cup {Nowhere}]
Clip == [user : Owners, org : Teams \cup {Nowhere}, status : {"processing", "ready", "deleted"}]

ASSUME NoSuchRow == Nowhere \notin Scope \cup Clip

Edit == [pc : {"idle"}]
  \cup [pc : {"addFolder", "addTag"}, scope : Scope]
  \cup [pc : {"file"}, scope : Scope, clips : SUBSET Clips, folder : Folders \cup {Nowhere},
        mine : BOOLEAN]
  \cup [pc : {"clear"}, clips : SUBSET Clips, tags : SUBSET Tags]
  \cup [pc : {"label"}, clip : Clips, left : SUBSET Tags, clips : SUBSET Clips, tags : SUBSET Tags]
  \cup [pc : {"move"}, clip : Clips, org : Teams \cup {Nowhere}]
  \cup [pc : {"strip"}, clip : Clips]

NoEdit == [pc |-> "idle"]

LibraryInit ==
  /\ clip = [v \in Clips |-> Nowhere]
  /\ filed = [v \in Clips |-> Nowhere]
  /\ folder = [f \in Folders |-> Nowhere]
  /\ tag = [t \in Tags |-> Nowhere]
  /\ labels = [v \in Clips |-> {}]
  /\ edit = [e \in Edits |-> NoEdit]

BeginEdit(e, job) == edit[e].pc = "idle" /\ edit' = [edit EXCEPT ![e] = job]
GoOn(e, job) == edit' = [edit EXCEPT ![e] = job]
EndEdit(e) == edit' = [edit EXCEPT ![e] = NoEdit]

\* WHERE organization_id = $org in a workspace, WHERE user_id = $user outside: a user's
\* own scope has also the rows they made in workspaces.
Within(row, scope) ==
  /\ row # Nowhere
  /\ IF scope.org # Nowhere THEN row.org = scope.org ELSE row.user = scope.user

ListFolders(scope) == {f \in Folders : Within(folder[f], scope)}
ListTags(scope) == {t \in Tags : Within(tag[t], scope)}
\* Identifiers are not used twice: a row that no request names stands for a new one.
NewFolder(f) ==
  folder[f] = Nowhere /\ \A e \in Edits : edit[e].pc = "file" => edit[e].folder # f
FreeTags == {t \in Tags : tag[t] = Nowhere /\ \A e \in Edits :
                            edit[e].pc \in {"clear", "label"} => t \notin edit[e].tags}
NewTag(t) == t \in FreeTags /\ \A s \in FreeTags : t <= s

Kept(v) == clip[v] # Nowhere /\ clip[v].status # "deleted"

(***************************************************************************)
(* The videos themselves, as far as they matter here.                      *)
(***************************************************************************)
AddClip(v, scope) ==
  /\ clip[v] = Nowhere
  /\ clip' = [clip EXCEPT ![v] = [user |-> scope.user, org |-> scope.org, status |-> "processing"]]
  /\ UNCHANGED <<filed, folder, tag, labels, edit>>

SetStatus(v, status) ==
  /\ Kept(v) /\ clip[v].status # status
  /\ clip' = [clip EXCEPT ![v].status = status]
  /\ UNCHANGED <<filed, folder, tag, labels, edit>>

(***************************************************************************)
(* CreateFolder, CreateTag: the rows of the scope are counted, then one is *)
(* inserted.  DeleteFolder, DeleteTag: the videos let go of it.            *)
(***************************************************************************)
CreateFolder(e, scope) ==
  /\ Cardinality(ListFolders(scope)) < MaxFolders
  /\ BeginEdit(e, [pc |-> "addFolder", scope |-> scope])
  /\ UNCHANGED <<clip, filed, folder, tag, labels>>

InsertFolder(e, f) ==
  /\ edit[e].pc = "addFolder" /\ NewFolder(f)
  /\ folder' = [folder EXCEPT ![f] = edit[e].scope]
  /\ EndEdit(e)
  /\ UNCHANGED <<clip, filed, tag, labels>>

DeleteFolder(scope, f) ==
  /\ f \in ListFolders(scope)
  /\ folder' = [folder EXCEPT ![f] = Nowhere]
  /\ filed' = [v \in Clips |-> IF filed[v] = f THEN Nowhere ELSE filed[v]]
  /\ UNCHANGED <<clip, tag, labels, edit>>

CreateTag(e, scope) ==
  /\ Cardinality(ListTags(scope)) < MaxFolders
  /\ BeginEdit(e, [pc |-> "addTag", scope |-> scope])
  /\ UNCHANGED <<clip, filed, folder, tag, labels>>

InsertTag(e, t) ==
  /\ edit[e].pc = "addTag" /\ NewTag(t)
  /\ tag' = [tag EXCEPT ![t] = edit[e].scope]
  /\ EndEdit(e)
  /\ UNCHANGED <<clip, filed, folder, labels>>

DeleteTag(scope, t) ==
  /\ t \in ListTags(scope)
  /\ tag' = [tag EXCEPT ![t] = Nowhere]
  /\ labels' = [v \in Clips |-> labels[v] \ {t}]
  /\ UNCHANGED <<clip, filed, folder, edit>>

(***************************************************************************)
(* SetVideoFolder, BatchSetFolder: the folder is verified, then the videos *)
(* of the scope are updated; a batch of a plain member, only their own.    *)
(***************************************************************************)
SetFolder(e, scope, clips, f, mine) ==
  /\ f # Nowhere => f \in ListFolders(scope)
  /\ BeginEdit(e, [pc |-> "file", scope |-> scope, clips |-> clips, folder |-> f, mine |-> mine])
  /\ UNCHANGED <<clip, filed, folder, tag, labels>>

SetVideoFolder(e, scope, v, f) == SetFolder(e, scope, {v}, f, FALSE)
BatchSetFolder(e, scope, clips, f) == \E mine \in BOOLEAN : SetFolder(e, scope, clips, f, mine)

\* A folder deleted since is a foreign key error.
FileClips(e) ==
  /\ edit[e].pc = "file"
  /\ LET j == edit[e]
         reached == {v \in j.clips : Kept(v) /\ Within(clip[v], j.scope)
                                       /\ (j.mine => clip[v].user = j.scope.user)}
     IN IF j.folder = Nowhere \/ folder[j.folder] # Nowhere
          THEN filed' = [v \in Clips |-> IF v \in reached THEN j.folder ELSE filed[v]]
          ELSE UNCHANGED filed
  /\ EndEdit(e)
  /\ UNCHANGED <<clip, folder, tag, labels>>

(***************************************************************************)
(* SetVideoTags, BatchSetTags: the tags are counted, those of each video   *)
(* deleted, and the new ones inserted one at a time.  A batch counts the   *)
(* videos of the scope too, and does nothing with the count.               *)
(***************************************************************************)
SetVideoTags(e, scope, v, tags) ==
  /\ Kept(v) /\ Within(clip[v], scope)
  /\ Cardinality(tags) <= MaxTagsPerClip /\ tags \subseteq ListTags(scope)
  /\ BeginEdit(e, [pc |-> "clear", clips |-> {v}, tags |-> tags])
  /\ UNCHANGED <<clip, filed, folder, tag, labels>>

BatchSetTags(e, scope, clips, tags) ==
  /\ Cardinality(tags) <= MaxTagsPerClip /\ tags \subseteq ListTags(scope)
  /\ BeginEdit(e, [pc |-> "clear", clips |-> clips, tags |-> tags])
  /\ UNCHANGED <<clip, filed, folder, tag, labels>>

\* The next video of a request, or the end of it.
NextClip(e, clips, tags) ==
  IF clips = {} THEN EndEdit(e) ELSE GoOn(e, [pc |-> "clear", clips |-> clips, tags |-> tags])

\* A plausible mistake, to test the properties: the old tags are kept.
ClearNone(e) ==
  /\ edit[e].pc = "clear"
  /\ \E v \in edit[e].clips :
       IF edit[e].tags = {} \/ clip[v] = Nowhere
         THEN NextClip(e, edit[e].clips \ {v}, edit[e].tags)
         ELSE GoOn(e, [pc |-> "label", clip |-> v, left |-> edit[e].tags,
                       clips |-> edit[e].clips \ {v}, tags |-> edit[e].tags])
  /\ UNCHANGED <<clip, filed, folder, tag, labels>>

ClearLabels(e) ==
  /\ edit[e].pc = "clear"
  /\ LET j == edit[e] IN \E v \in j.clips :
       /\ labels' = [labels EXCEPT ![v] = {}]
       /\ IF j.tags = {}
            THEN NextClip(e, j.clips \ {v}, j.tags)
            ELSE GoOn(e, [pc |-> "label", clip |-> v, left |-> j.tags,
                          clips |-> j.clips \ {v}, tags |-> j.tags])
  /\ UNCHANGED <<clip, filed, folder, tag>>

\* A tag that another request has put there, and one that was deleted, are errors.
InsertLabel(e) ==
  /\ edit[e].pc = "label"
  /\ LET j == edit[e]  v == j.clip IN \E t \in j.left :
       IF t \in labels[v] \/ tag[t] = Nowhere \/ clip[v] = Nowhere
         THEN EndEdit(e) /\ UNCHANGED labels
         ELSE /\ labels' = [labels EXCEPT ![v] = labels[v] \cup {t}]
              /\ IF j.left = {t} THEN NextClip(e, j.clips, j.tags)
                 ELSE GoOn(e, [j EXCEPT !.left = j.left \ {t}])
  /\ UNCHANGED <<clip, filed, folder, tag>>

(***************************************************************************)
(* Transfer: by the video's creator or an administrator, to a workspace    *)
(* the caller may write to or to the creator's own scope.  What was read   *)
(* is not asked for again by the update.                                   *)
(***************************************************************************)
Transfer(e, scope, v, org) ==
  /\ Kept(v) /\ clip[v].status = "ready" /\ clip[v].org = scope.org
  /\ scope.org = Nowhere => clip[v].user = scope.user
  /\ org # clip[v].org
  /\ BeginEdit(e, [pc |-> "move", clip |-> v, org |-> org])
  /\ UNCHANGED <<clip, filed, folder, tag, labels>>

\* A plausible mistake, to test the properties: the folder is kept.
MoveWithFolder(e) ==
  /\ edit[e].pc = "move"
  /\ clip' = [clip EXCEPT ![edit[e].clip].org = edit[e].org]
  /\ GoOn(e, [pc |-> "strip", clip |-> edit[e].clip])
  /\ UNCHANGED <<filed, folder, tag, labels>>

MoveClip(e) ==
  /\ edit[e].pc = "move"
  /\ clip' = [clip EXCEPT ![edit[e].clip].org = edit[e].org]
  /\ filed' = [filed EXCEPT ![edit[e].clip] = Nowhere]
  /\ GoOn(e, [pc |-> "strip", clip |-> edit[e].clip])
  /\ UNCHANGED <<folder, tag, labels>>

\* DELETE FROM video_tags; an error is ignored.
StripLabels(e) ==
  /\ edit[e].pc = "strip"
  /\ labels' = [labels EXCEPT ![edit[e].clip] = {}]
  /\ EndEdit(e)
  /\ UNCHANGED <<clip, filed, folder, tag>>

\* A failing statement or the death of the process ends a request where it is.
BreakEdit(e) ==
  /\ edit[e].pc # "idle"
  /\ EndEdit(e)
  /\ UNCHANGED <<clip, filed, folder, tag, labels>>

-----------------------------------------------------------------------------
LibraryNext ==
  \/ \E v \in Clips :
       \/ \E scope \in Scope : AddClip(v, scope)
       \/ \E status \in {"processing", "ready", "deleted"} : SetStatus(v, status)
  \/ \E scope \in Scope :
       \/ \E f \in Folders : DeleteFolder(scope, f)
       \/ \E t \in Tags : DeleteTag(scope, t)
  \/ \E e \in Edits, scope \in Scope :
       \/ CreateFolder(e, scope) \/ CreateTag(e, scope)
       \/ \E v \in Clips, f \in Folders \cup {Nowhere} : SetVideoFolder(e, scope, v, f)
       \/ \E clips \in SUBSET Clips \ {{}}, f \in Folders \cup {Nowhere} :
            BatchSetFolder(e, scope, clips, f)
       \/ \E v \in Clips, tags \in SUBSET Tags : SetVideoTags(e, scope, v, tags)
       \/ \E clips \in SUBSET Clips \ {{}}, tags \in SUBSET Tags :
            BatchSetTags(e, scope, clips, tags)
       \/ \E v \in Clips, org \in Teams \cup {Nowhere} : Transfer(e, scope, v, org)
  \/ \E e \in Edits :
       \/ FileClips(e) \/ ClearLabels(e) \/ InsertLabel(e) \/ MoveClip(e) \/ StripLabels(e)
       \/ BreakEdit(e)
       \/ \E f \in Folders : InsertFolder(e, f)
       \/ \E t \in Tags : InsertTag(e, t)

LibrarySpec == LibraryInit /\ [][LibraryNext]_libraryVars

-----------------------------------------------------------------------------
LibraryTypeOK ==
  /\ clip \in [Clips -> Clip \cup {Nowhere}]
  /\ filed \in [Clips -> Folders \cup {Nowhere}]
  /\ folder \in [Folders -> Scope \cup {Nowhere}]
  /\ tag \in [Tags -> Scope \cup {Nowhere}]
  /\ labels \in [Clips -> SUBSET Tags]
  /\ edit \in [Edits -> Edit]

\* A video is never in a folder its creator cannot open: one of the workspace the video
\* is in now, or one the creator made, whatever was moved or deleted between the
\* statement that verified the folder and the one that wrote it.
FolderInReach ==
  \A v \in Clips : filed[v] # Nowhere =>
    filed[v] \in ListFolders([user |-> clip[v].user, org |-> clip[v].org])
                   \cup ListFolders([user |-> clip[v].user, org |-> Nowhere])

\* The tags that requests have still to insert for a video.
Still(v) == {i \in Edits \X Tags :
  edit[i[1]].pc = "label" /\ edit[i[1]].clip = v /\ i[2] \in edit[i[1]].left}

\* The limit on a video's tags is exceeded only by what requests that run at the same
\* time add, a full set each: every request deletes what it finds before it inserts.
LabelsBounded ==
  \A v \in Clips :
    Cardinality(labels[v]) + Cardinality(Still(v)) <= MaxTagsPerClip * Cardinality(Edits)
=============================================================================
