---------------------------- MODULE RecordingRows ----------------------------
(***************************************************************************)
(* The recording list and the link store while files come, go and change   *)
(* their names: list rebuilds (list_rows), the rename of one recording, an *)
(* upload's _link, deletion and a change of the watched folder, all        *)
(* running at once under the publication and the link store lock.          *)
(*                                                                         *)
(* A recording is one version of a file: the (size, mtime) pair the code   *)
(* tells files apart by.  Every row id stands for one VideoInfo object,    *)
(* whose path may be repointed; the upload worker keeps the object it      *)
(* captured after the row is gone.                                         *)
(***************************************************************************)
EXTENDS Naturals, Sequences, FiniteSets, Functions

CONSTANTS
    Names,               \* the paths recordings live at
    Folder,              \* [Names -> the folder of a path]
    Recordings,          \* the versions of files that may ever exist
    Listers,             \* threads that may be inside list_rows
    MaxLists,            \* bound: calls of list_rows
    MaxRenames,          \* bound: recordings renamed
    MaxVideos            \* bound: videos published

Folders == {Folder[n] : n \in Names}
NoRec == "nothing"

ASSUME NamesAssumption == IsFiniteSet(Names) /\ Folder \in [Names -> Folders]
ASSUME RecordingsAssumption == NoRec \notin Recordings
ASSUME ListBounds == {MaxLists, MaxRenames, MaxVideos} \subseteq Nat

VARIABLES
    file,                \* [Names -> the recording at a path, NoRec if none]
    fresh,               \* the recordings not made yet
    recordingDir,        \* state.recording_dir
    generation,          \* _generation
    revision,            \* _rename_revision
    infos,               \* the VideoInfo behind each id: [name, rec]
    rows,                \* the installed RowSnapshot: [id -> link]
    minted,              \* RowSnapshot._minted
    store,               \* the link store: [Names -> entry]
    lister,              \* [Listers -> a list_rows call]
    renamer,             \* the bridge thread inside rename_recording
    uploader,            \* the upload worker
    videos,              \* the recording each published video was made from
    strayed              \* history: a rename or an upload met another recording
                         \* at its path than the one its row was made from

vars == <<file, fresh, recordingDir, generation, revision, infos, rows, minted,
          store, lister, renamer, uploader, videos, strayed>>

NoVideo == 0
NoEntry == [rec |-> NoRec, video |-> NoVideo]

IdleLister == [pc |-> "idle"]
IdleRenamer == [pc |-> "idle"]
IdleUploader == [pc |-> "idle"]

Ids == DOMAIN rows
Minted == 1 .. minted

\* Mutant: links are looked up by path alone.
LookupByPath(name, rec) == store[name].video

\* links.lookup: the link of this exact version at this path.
Lookup(name, rec) ==
    IF store[name].rec = rec THEN store[name].video ELSE NoVideo

busy == uploader.pc # "idle"

\* The publication lock is held from the acceptance of a scan to its delivery
\* and for the whole of a rename; the store lock for the middle of a rename.
PublicationFree ==
    /\ renamer.pc = "idle"
    /\ \A l \in Listers : lister[l].pc # "install"

StoreFree == renamer.pc # "moved"

\* The objects that workers hold on to, whatever becomes of their rows.  The
\* others are collected when their rows go.
ToDelete == {lister[l].id : l \in {m \in Listers : lister[m].pc = "confirm"}}
Captured == ToDelete \cup (IF busy THEN {uploader.id} ELSE {})

Info == [name : Names, rec : Recordings]

TypeOK ==
    /\ file \in [Names -> Recordings \cup {NoRec}]
    /\ fresh \subseteq Recordings
    /\ recordingDir \in Folders
    /\ generation \in 0 .. MaxLists
    /\ revision \in 0 .. MaxRenames
    /\ DOMAIN infos \subseteq Minted /\ \A i \in DOMAIN infos : infos[i] \in Info
    /\ Ids \subseteq DOMAIN infos /\ \A i \in Ids : rows[i] \in 0 .. Len(videos)
    /\ \A n \in Names : \/ store[n] = NoEntry
                        \/ store[n] \in [rec : Recordings, video : DOMAIN videos]
    /\ \A l \in Listers : lister[l].pc \in {"idle", "confirm", "list", "scan", "accept", "install"}
    /\ renamer.pc \in {"idle", "checked", "moved"}
    /\ uploader.pc \in {"idle", "claimed", "persist", "announce"}
    /\ Captured \subseteq DOMAIN infos
    /\ strayed \in BOOLEAN

Init ==
    /\ file \in [Names -> Recordings \cup {NoRec}]
    /\ IsInjective(Restrict(file, {n \in Names : file[n] # NoRec}))
    /\ fresh = Recordings \ Range(file)
    /\ recordingDir \in Folders
    /\ generation = 0
    /\ revision = 0
    /\ infos = <<>>
    /\ rows = <<>>
    /\ minted = 0
    /\ store = [n \in Names |-> NoEntry]
    /\ lister = [l \in Listers |-> IdleLister]
    /\ renamer = IdleRenamer
    /\ uploader = IdleUploader
    /\ videos = <<>>
    /\ strayed = FALSE

-----------------------------------------------------------------------------
(* Files and folders. *)

\* A recording is finished, a clip is cut, a join is moved into the folder.
NewRecording(n, r) ==
    /\ file[n] = NoRec /\ r \in fresh
    /\ file' = [file EXCEPT ![n] = r]
    /\ fresh' = fresh \ {r}
    /\ UNCHANGED <<recordingDir, generation, revision, infos, rows, minted, store,
                   lister, renamer, uploader, videos, strayed>>

\* delete_selected and archive_selected: the VideoInfo is captured, then the
\* user is asked.
ChooseDelete(l, i) ==
    /\ lister[l].pc = "idle" /\ i \in Ids
    /\ lister' = [lister EXCEPT ![l] = [pc |-> "confirm", id |-> i]]
    /\ UNCHANGED <<file, fresh, recordingDir, generation, revision, infos, rows, minted,
                   store, renamer, uploader, videos, strayed>>

\* Whatever is at the path goes, unless it is locked or has gone, and the list is
\* rebuilt either way.  The link store is left alone.
Delete(l) ==
    /\ lister[l].pc = "confirm"
    /\ \/ /\ file' = [file EXCEPT ![infos[lister[l].id].name] = NoRec]
          /\ lister' = [lister EXCEPT ![l] = [pc |-> "list"]]
       \/ /\ lister' = [lister EXCEPT ![l] = [pc |-> "list"]]
          /\ UNCHANGED file
       \/ /\ lister' = [lister EXCEPT ![l] = IdleLister]
          /\ UNCHANGED file
    /\ UNCHANGED <<fresh, recordingDir, generation, revision, infos, rows, minted,
                   store, renamer, uploader, videos, strayed>>

SetFolder(l, folder) ==
    /\ lister[l].pc = "idle" /\ folder # recordingDir
    /\ recordingDir' = folder
    /\ lister' = [lister EXCEPT ![l] = [pc |-> "list"]]
    /\ UNCHANGED <<file, fresh, generation, revision, infos, rows, minted, store,
                   renamer, uploader, videos, strayed>>

-----------------------------------------------------------------------------
(* list_rows. *)

Discovered(folder) == {n \in Names : Folder[n] = folder /\ file[n] # NoRec}

\* Under the state lock; every earlier call is superseded from here on.
ListRows(l) ==
    /\ lister[l].pc \in {"idle", "list"} /\ generation < MaxLists
    /\ generation' = generation + 1
    /\ lister' = [lister EXCEPT ![l] =
                    [pc |-> "scan", generation |-> generation', folder |-> recordingDir,
                     revision |-> revision, todo |-> Discovered(recordingDir),
                     found |-> {}]]
    /\ UNCHANGED <<file, fresh, recordingDir, revision, infos, rows, minted, store,
                   renamer, uploader, videos, strayed>>

\* The scan holds no lock: each path found is looked at in turn, and one that
\* has gone in between is left out.
Scan(l) ==
    /\ lister[l].pc = "scan"
    /\ IF lister[l].todo = {}
       THEN lister' = [lister EXCEPT ![l].pc = "accept"]
       ELSE LET n == CHOOSE m \in lister[l].todo : TRUE
            IN  lister' = [lister EXCEPT ![l].todo = @ \ {n},
                                         ![l].found = IF file[n] = NoRec THEN @
                                             ELSE @ \cup {[name |-> n, rec |-> file[n]]}]
    /\ UNCHANGED <<file, fresh, recordingDir, generation, revision, infos, rows, minted,
                   store, renamer, uploader, videos, strayed>>

\* Mutant: a rebuild that was overtaken is installed all the same.
SupersededNever(l) == FALSE

Superseded(l) ==
    lister[l].generation # generation \/ lister[l].folder # recordingDir

GiveUp(l) ==
    /\ lister[l].pc = "accept" /\ PublicationFree
    /\ Superseded(l)
    /\ lister' = [lister EXCEPT ![l] = IdleLister]
    /\ UNCHANGED <<file, fresh, recordingDir, generation, revision, infos, rows, minted,
                   store, renamer, uploader, videos, strayed>>

Rescan(l) ==
    /\ lister[l].pc = "accept" /\ PublicationFree
    /\ ~Superseded(l) /\ lister[l].revision # revision
    /\ lister' = [lister EXCEPT ![l].pc = "scan", ![l].revision = revision,
                                ![l].todo = Discovered(lister[l].folder), ![l].found = {}]
    /\ UNCHANGED <<file, fresh, recordingDir, generation, revision, infos, rows, minted,
                   store, renamer, uploader, videos, strayed>>

\* From here to Install the call holds the publication lock.
Accept(l) ==
    /\ lister[l].pc = "accept" /\ PublicationFree
    /\ ~Superseded(l) /\ lister[l].revision = revision
    /\ lister' = [lister EXCEPT ![l] =
                    [pc |-> "install", generation |-> lister[l].generation,
                     folder |-> lister[l].folder,
                     found |-> {[info |-> i, link |-> Lookup(i.name, i.rec)] :
                                i \in lister[l].found}]]
    /\ UNCHANGED <<file, fresh, recordingDir, generation, revision, infos, rows, minted,
                   store, renamer, uploader, videos, strayed>>

\* Mutant: every snapshot numbers its rows from one.
InstallRenumbers(l) ==
    /\ lister[l].pc = "install"
    /\ LET found == lister[l].found
           ids == 1 .. Cardinality(found)
           order == CHOOSE f \in [ids -> found] : IsInjective(f)
       IN  /\ minted' = Cardinality(found)
           /\ rows' = [i \in ids |-> order[i].link]
           /\ infos' = [i \in ids \cup Captured |->
                           IF i \in ids THEN order[i].info ELSE infos[i]]
    /\ lister' = [lister EXCEPT ![l] = IdleLister]
    /\ UNCHANGED <<file, fresh, recordingDir, generation, revision, store, renamer,
                   uploader, videos, strayed>>

\* A fresh id for every recording; nothing of the old snapshot stays but what a
\* worker has captured.
Install(l) ==
    /\ lister[l].pc = "install"
    /\ LET found == lister[l].found
           ids == minted + 1 .. minted + Cardinality(found)
           order == CHOOSE f \in [ids -> found] : IsInjective(f)
       IN  /\ minted' = minted + Cardinality(found)
           /\ rows' = [i \in ids |-> order[i].link]
           /\ infos' = [i \in ids \cup Captured |->
                           IF i \in ids THEN order[i].info ELSE infos[i]]
    /\ lister' = [lister EXCEPT ![l] = IdleLister]
    /\ UNCHANGED <<file, fresh, recordingDir, generation, revision, store, renamer,
                   uploader, videos, strayed>>

-----------------------------------------------------------------------------
(* rename_recording. *)

\* The publication lock is taken and the refusals are checked.
StartRename(i, to) ==
    /\ PublicationFree /\ revision < MaxRenames
    /\ ~busy /\ i \in Ids
    /\ file[infos[i].name] # NoRec /\ file[to] = NoRec
    /\ Folder[to] = Folder[infos[i].name]
    /\ renamer' = [pc |-> "checked", id |-> i, from |-> infos[i].name, to |-> to]
    /\ UNCHANGED <<file, fresh, recordingDir, generation, revision, infos, rows, minted,
                   store, lister, uploader, videos, strayed>>

\* Path.rename, under the store lock.  It fails if the file has gone, if the
\* destination has come, or if another process holds the file.
MoveFile ==
    /\ renamer.pc = "checked"
    /\ \/ /\ file[renamer.from] # NoRec /\ file[renamer.to] = NoRec
          /\ file' = [file EXCEPT ![renamer.from] = NoRec,
                                  ![renamer.to] = file[renamer.from]]
          /\ revision' = revision + 1
          /\ renamer' = [renamer EXCEPT !.pc = "moved"]
          /\ strayed' = (strayed \/ file[renamer.from] # infos[renamer.id].rec)
       \/ renamer' = IdleRenamer /\ UNCHANGED <<file, revision, strayed>>
    /\ UNCHANGED <<fresh, recordingDir, generation, infos, rows, minted, store, lister,
                   uploader, videos>>

\* Mutant: a rename leaves the link store alone.
MoveEntryNot(from, to) == store

\* links.rename: the entry follows the file; without one nothing is moved.
MoveEntry(from, to) ==
    IF store[from] = NoEntry THEN store
    ELSE [store EXCEPT ![from] = NoEntry, ![to] = store[from]]

\* Mutant: a rename repoints the row's own VideoInfo only.
RepointedRowOnly(i) == i = renamer.id

\* The VideoInfos rename_recording repoints: the row's own, and every accepted
\* one that named the same version of the file.
Repointed(i) ==
    \/ i = renamer.id
    \/ infos[i] = [name |-> renamer.from, rec |-> infos[renamer.id].rec]

\* The rest of the transition, still under both locks.
MoveIdentity ==
    /\ renamer.pc = "moved"
    /\ store' = MoveEntry(renamer.from, renamer.to)
    /\ infos' = [i \in DOMAIN infos |->
                   IF Repointed(i) THEN [infos[i] EXCEPT !.name = renamer.to]
                   ELSE infos[i]]
    /\ renamer' = IdleRenamer
    /\ UNCHANGED <<file, fresh, recordingDir, generation, revision, rows, minted, lister,
                   uploader, videos, strayed>>

-----------------------------------------------------------------------------
(* An upload, from the capture of its row to its link. *)

StartUpload(i) ==
    /\ ~busy /\ i \in Ids /\ Len(videos) < MaxVideos
    /\ uploader' = [pc |-> "claimed", id |-> i]
    /\ UNCHANGED <<file, fresh, recordingDir, generation, revision, infos, rows, minted,
                   store, lister, renamer, videos, strayed>>

\* The file is read at its path, whichever it is by now, and the video exists; or
\* the job ends without.
Transfer ==
    /\ uploader.pc = "claimed"
    /\ \/ /\ file[infos[uploader.id].name] # NoRec
          /\ videos' = Append(videos, file[infos[uploader.id].name])
          /\ uploader' = [uploader EXCEPT !.pc = "persist"]
          /\ strayed' = (strayed \/ file[infos[uploader.id].name] # infos[uploader.id].rec)
          /\ UNCHANGED infos
       \/ /\ uploader' = IdleUploader
          /\ infos' = Restrict(infos, Ids \cup ToDelete)
          /\ UNCHANGED <<videos, strayed>>
    /\ UNCHANGED <<file, fresh, recordingDir, generation, revision, rows, minted, store,
                   lister, renamer>>

\* The first half of _link: remembered against the captured VideoInfo.
Persist ==
    /\ uploader.pc = "persist" /\ StoreFree
    /\ LET info == infos[uploader.id]
       IN  store' = [store EXCEPT ![info.name] = [rec |-> info.rec, video |-> Len(videos)]]
    /\ uploader' = [uploader EXCEPT !.pc = "announce"]
    /\ UNCHANGED <<file, fresh, recordingDir, generation, revision, infos, rows, minted,
                   lister, renamer, videos, strayed>>

\* The second half: the row, if the id still stands for something and the store
\* still answers with this video.
Announce ==
    /\ uploader.pc = "announce" /\ PublicationFree
    /\ rows' = IF /\ uploader.id \in Ids
                  /\ Lookup(infos[uploader.id].name, infos[uploader.id].rec) = Len(videos)
               THEN [rows EXCEPT ![uploader.id] = Len(videos)]
               ELSE rows
    /\ uploader' = IdleUploader
    /\ infos' = Restrict(infos, Ids \cup ToDelete)
    /\ UNCHANGED <<file, fresh, recordingDir, generation, revision, minted, store, lister,
                   renamer, videos, strayed>>

-----------------------------------------------------------------------------
Listing(l) ==
    \/ ListRows(l) \/ Scan(l) \/ GiveUp(l) \/ Rescan(l) \/ Accept(l) \/ Install(l)

Renaming == MoveFile \/ MoveIdentity
Uploading == Transfer \/ Persist \/ Announce

Next ==
    \/ \E n \in Names, r \in Recordings : NewRecording(n, r)
    \/ \E l \in Listers :
        \/ \E i \in Ids : ChooseDelete(l, i)
        \/ Delete(l)
        \/ \E folder \in Folders : SetFolder(l, folder)
        \/ Listing(l)
    \/ \E i \in Ids, to \in Names : StartRename(i, to)
    \/ Renaming
    \/ \E i \in Ids : StartUpload(i)
    \/ Uploading

Spec == Init /\ [][Next]_vars

\* The threads that are inside one of the code's calls run.
FairSpec ==
    /\ Spec
    /\ WF_vars(Renaming) /\ WF_vars(Uploading)
    /\ \A l \in Listers : WF_vars(lister[l].pc # "idle" /\ Listing(l))

-----------------------------------------------------------------------------
(* Properties. *)

\* A VideoInfo still in use names the file it was made from, wherever renames
\* have taken that file; only inside a rename is the pair out of step.
CapturesFollowFiles ==
    (renamer.pc # "moved" /\ ~strayed) =>
        \A i \in DOMAIN infos, n \in Names :
            file[n] = infos[i].rec => infos[i].name = n

\* The newest video of a recording on disk is found under the name the
\* recording has now.
LinksFollowFiles ==
    (renamer.pc # "moved" /\ uploader.pc # "persist" /\ ~strayed) =>
        \A v \in DOMAIN videos, n \in Names :
            /\ file[n] = videos[v]
            /\ \A w \in DOMAIN videos : w > v => videos[w] # videos[v]
            => Lookup(n, videos[v]) = v

\* A row never shows a video made from another recording than its own, whatever
\* took its name over in the meantime.
RowsShowTheirOwnVideo ==
    ~strayed => \A i \in Ids : rows[i] # NoVideo => videos[rows[i]] = infos[i].rec

\* Every row is a recording that is on disk, under that name and in the watched
\* folder; if not, a rebuild that will put it right has begun or is about to.
ListIsCurrent ==
    (renamer.pc # "moved" /\ ~strayed) =>
        \/ \A i \in Ids : /\ Folder[infos[i].name] = recordingDir
                         /\ file[infos[i].name] = infos[i].rec
        \/ \E l \in Listers :
            \/ lister[l].pc = "list"
            \/ /\ lister[l].pc \in {"scan", "accept", "install"}
               /\ lister[l].generation = generation
=============================================================================
