------------------------ MODULE RecordingRows_proofs ------------------------
(***************************************************************************)
(* The recording list and the link store follow the files, for any names,  *)
(* folders and recordings, any number of list threads, rebuilds, renames   *)
(* and videos.                                                             *)
(*                                                                         *)
(* LockInv says what the two locks and the captures hold on to, SeenInv    *)
(* that a new file is one nobody has seen.  The others say of each pair    *)
(* that a property compares (names and files, links and files, rows and    *)
(* videos, the list and the disk) how far it may be out of step inside a   *)
(* rename, an upload or a rebuild.                                         *)
(***************************************************************************)
EXTENDS RecordingRows, FiniteSetTheorems, SequenceTheorems, TLAPS

(* The types of the variables, each under a name of its own *)

Files == [Names -> Recordings \cup {NoRec}]
Entries == [rec : Recordings \cup {NoRec}, video : Nat]
RestS == [pc : {"idle", "list"}]
ConfirmS == [pc : {"confirm"}, id : Nat]
ScanS == [pc : {"scan", "accept"}, generation : Nat, folder : Folders, revision : Nat,
          todo : SUBSET Names, found : SUBSET Info]
InstallS == [pc : {"install"}, generation : Nat, folder : Folders,
             found : SUBSET [info : Info, link : Nat]]
ListerS == RestS \cup ConfirmS \cup ScanS \cup InstallS
RenamerS == {IdleRenamer} \cup
            [pc : {"checked", "moved"}, id : Nat, from : Names, to : Names]
UploaderS == {IdleUploader} \cup [pc : {"claimed", "persist", "announce"}, id : Nat]

Typed ==
    /\ file \in Files /\ fresh \in SUBSET Recordings /\ recordingDir \in Folders
    /\ generation \in 0..MaxLists /\ revision \in 0..MaxRenames /\ minted \in Nat
    /\ infos \in [DOMAIN infos -> Info] /\ DOMAIN infos \subseteq Minted
    /\ rows \in [Ids -> Nat] /\ Ids \subseteq DOMAIN infos
    /\ videos \in Seq(Recordings) /\ store \in [Names -> Entries]
    /\ lister \in [Listers -> ListerS] /\ renamer \in RenamerS /\ uploader \in UploaderS
    /\ strayed \in BOOLEAN

\* What a call of list_rows has found so far.
Scanning(x) == x.pc \in {"scan", "accept"}
Found(x) == IF x.pc = "install" THEN {e.info : e \in x.found}
            ELSE IF Scanning(x) THEN x.found ELSE {}

\* One rebuild or rename publishes at a time, and captures are kept.
LockInv ==
    /\ \A l, m \in Listers : lister[l].pc = "install" /\ lister[m].pc = "install" => l = m
    /\ \A l \in Listers : lister[l].pc = "install" => renamer.pc = "idle"
    /\ \A l \in Listers : lister[l].pc = "confirm" => lister[l].id \in DOMAIN infos
    /\ uploader.pc # "idle" => uploader.id \in DOMAIN infos
    /\ renamer.pc = "checked" => revision < MaxRenames
    /\ renamer.pc # "idle" =>
          /\ renamer.id \in Ids /\ infos[renamer.id].name = renamer.from
          /\ renamer.from # renamer.to /\ Folder[renamer.to] = Folder[renamer.from]

\* A recording is at one path, and one that was not made yet is nowhere.
SeenInv ==
    /\ \A n, m \in Names : file[n] # NoRec /\ file[n] = file[m] => n = m
    /\ \A n \in Names : file[n] \notin fresh
    /\ \A i \in DOMAIN infos : infos[i].rec \notin fresh
    /\ \A v \in DOMAIN videos : videos[v] \notin fresh
    /\ \A l \in Listers : \A e \in Found(lister[l]) : e.rec \notin fresh

\* An entry is that of its video, and the video in the worker's hands is the last;
\* it was made from the recording the worker was told, unless one has strayed.
MadeFrom(v, rec) == v \in DOMAIN videos /\ (strayed \/ videos[v] = rec)
Linked(link, rec) == link = NoVideo \/ MadeFrom(link, rec)
StoreInv ==
    /\ \A n \in Names : store[n] = NoEntry \/ /\ store[n].rec \in Recordings
                                              /\ MadeFrom(store[n].video, store[n].rec)
    /\ uploader.pc \in {"persist", "announce"} =>
          MadeFrom(Len(videos), infos[uploader.id].rec)

\* A row, and a row to be, has a video of its own recording.
RowInv ==
    /\ \A i \in Ids : Linked(rows[i], infos[i].rec)
    /\ \A l \in Listers : lister[l].pc = "install" =>
          \A e \in lister[l].found : Linked(e.link, e.info.rec)

\* Names follow files; inside a rename those of the moved recording are behind, the
\* name it has left is nobody's, and nobody has seen what may be at the name it gets.
Moved == renamer.pc = "moved"
Fits(info, n) == file[n] = info.rec => info.name = n
NameInv ==
    /\ \A l \in Listers : Scanning(lister[l]) => lister[l].revision <= revision
    /\ \A l \in Listers :
          lister[l].pc = "install" \/ (Scanning(lister[l]) /\ lister[l].revision = revision)
          => \A e \in Found(lister[l]), n \in Names : Fits(e, n)
    /\ ~strayed => \A i \in DOMAIN infos, n \in Names :
          IF Moved /\ n = renamer.to
          THEN file[n] = infos[i].rec => /\ infos[i].name = renamer.from
                                         /\ infos[i].rec = infos[renamer.id].rec
          ELSE Fits(infos[i], n)
    /\ renamer.pc = "checked" => \A i \in DOMAIN infos : file[renamer.to] # infos[i].rec
    /\ Moved => \A i \in DOMAIN infos : file[renamer.from] # infos[i].rec

\* Links follow files; inside a rename that of the moved recording is behind, and
\* inside an upload the newest one is to come, at a name that is its own.
Newer(v) == \E w \in DOMAIN videos : w > v /\ videos[w] = videos[v]
At(n) == IF Moved /\ n = renamer.to THEN renamer.from ELSE n
Owed(v) == uploader.pc = "persist" /\ v = Len(videos)
LinkInv == ~strayed =>
    /\ \A v \in DOMAIN videos, n \in Names :
          file[n] = videos[v] /\ ~Newer(v) /\ ~Owed(v)
          => store[At(n)].rec = videos[v] /\ store[At(n)].video = v
    /\ uploader.pc = "persist" =>
          /\ renamer.pc # "idle" => infos[uploader.id].name # renamer.to
          /\ \A v \in DOMAIN videos : file[infos[uploader.id].name] = videos[v]
                                      => videos[v] = infos[uploader.id].rec
    /\ Moved => \A v \in DOMAIN videos :
          /\ file[renamer.from] # videos[v]
          /\ file[renamer.to] = videos[v] => videos[v] = infos[renamer.id].rec

\* The list follows the disk and the folder, or somebody will see to it: a rebuild is
\* about to begin, or the newest one has found nothing that is not so any more.
Pending == \E l \in Listers : lister[l].pc = "list"
Newest(l) == /\ Scanning(lister[l]) \/ lister[l].pc = "install"
             /\ lister[l].generation = generation
Stale(x) == Scanning(x) /\ x.revision # revision
RowCurrent(i) ==
    /\ Folder[infos[i].name] = recordingDir
    /\ \/ file[infos[i].name] = infos[i].rec
       \/ /\ Moved /\ infos[i].name = renamer.from
          /\ infos[i].rec = infos[renamer.id].rec
          /\ file[renamer.to] = infos[i].rec
ListInv ==
    /\ \A l \in Listers : Scanning(lister[l]) \/ lister[l].pc = "install"
                          => lister[l].generation <= generation
    /\ \A l \in Listers : Scanning(lister[l]) =>
          \A n \in lister[l].todo : Folder[n] = lister[l].folder
    /\ \A l \in Listers : Newest(l) =>
          \/ Pending
          \/ /\ lister[l].folder = recordingDir
             /\ \A e \in Found(lister[l]) :
                   /\ Folder[e.name] = recordingDir
                   /\ file[e.name] = e.rec \/ Stale(lister[l])
    /\ \A l \in Listers : lister[l].pc = "install" /\ ~Newest(l) =>
          Pending \/ \E m \in Listers : Newest(m) /\ Scanning(lister[m])
    /\ ~strayed => \/ Pending
                   \/ \E l \in Listers : Newest(l)
                   \/ \A i \in Ids : RowCurrent(i)

\* What is found can be counted.
FiniteInv == \A l \in Listers : Scanning(lister[l]) \/ lister[l].pc = "install"
                                => IsFiniteSet(lister[l].found)

IInv ==
    /\ Typed /\ FiniteInv /\ LockInv /\ SeenInv /\ StoreInv
    /\ RowInv /\ NameInv /\ LinkInv /\ ListInv

-----------------------------------------------------------------------------
(* Helpers and types *)

\* Every folder of a name is a folder, and a name has one.
LEMMA FolderType == \A n \in Names : Folder[n] \in Folders
BY NamesAssumption

\* What a list thread holds in each of its places.
LEMMA ListerFacts ==
  ASSUME NEW x \in ListerS
  PROVE  /\ x.pc \in {"idle", "list", "confirm", "scan", "accept", "install"}
         /\ x.pc = "confirm" => x.id \in Nat
         /\ Scanning(x) => /\ x \in ScanS /\ x.generation \in Nat /\ x.folder \in Folders
                           /\ x.revision \in Nat /\ x.todo \in SUBSET Names
                           /\ x.found \in SUBSET Info
         /\ x.pc = "install" => /\ x.generation \in Nat /\ x.folder \in Folders
                                /\ x.found \in SUBSET [info : Info, link : Nat]
<1>1. CASE x \in RestS
  BY <1>1 DEF RestS, Scanning
<1>2. CASE x \in ConfirmS
  BY <1>2 DEF ConfirmS, Scanning
<1>3. CASE x \in ScanS
  BY <1>3 DEF ScanS, Scanning
<1>4. CASE x \in InstallS
  BY <1>4 DEF InstallS, Scanning
<1>5. QED
  BY <1>1, <1>2, <1>3, <1>4 DEF ListerS

\* The renamer and the uploader have their job when they are at work.
LEMMA WorkerFacts ==
  ASSUME renamer \in RenamerS, uploader \in UploaderS
  PROVE  /\ renamer.pc \in {"idle", "checked", "moved"}
         /\ uploader.pc \in {"idle", "claimed", "persist", "announce"}
         /\ renamer.pc # "idle" => /\ renamer \in [pc : {"checked", "moved"}, id : Nat,
                                                   from : Names, to : Names]
                                   /\ renamer.id \in Nat /\ renamer.from \in Names
                                   /\ renamer.to \in Names
         /\ uploader.pc # "idle" => uploader.id \in Nat
<1>1. /\ renamer.pc \in {"idle", "checked", "moved"}
      /\ renamer.pc # "idle" => /\ renamer \in [pc : {"checked", "moved"}, id : Nat,
                                                from : Names, to : Names]
                                /\ renamer.id \in Nat /\ renamer.from \in Names
                                /\ renamer.to \in Names
  BY DEF RenamerS, IdleRenamer
<1>2. /\ uploader.pc \in {"idle", "claimed", "persist", "announce"}
      /\ uploader.pc # "idle" => uploader.id \in Nat
  BY DEF UploaderS, IdleUploader
<1>3. QED
  BY <1>1, <1>2

\* What is found is the names and recordings of files.
LEMMA FoundType ==
  ASSUME NEW x \in ListerS
  PROVE  Found(x) \in SUBSET Info
<1>1. CASE x.pc = "install"
  <2>1. x.found \in SUBSET [info : Info, link : Nat]
    BY <1>1, ListerFacts
  <2>2. \A e \in x.found : e.info \in Info
    BY <2>1
  <2>3. QED
    BY <1>1, <2>2 DEF Found
<1>2. CASE x.pc # "install"
  BY <1>2, ListerFacts DEF Found
<1>3. QED
  BY <1>1, <1>2

\* The files of the folder looked at.
LEMMA DiscoveredType ==
  ASSUME NEW folder
  PROVE  Discovered(folder) \in SUBSET Names /\ \A n \in Discovered(folder) : Folder[n] = folder
BY DEF Discovered

\* The links of the store are the numbers of videos.
LEMMA LookupType ==
  ASSUME store \in [Names -> Entries], NEW n \in Names, NEW rec
  PROVE  Lookup(n, rec) \in Nat
<1>1. store[n] \in Entries
  OBVIOUS
<1>2. store[n].video \in Nat
  BY <1>1 DEF Entries
<1>3. QED
  BY <1>2 DEF Lookup, NoVideo

\* The rows of a rebuild can be numbered: there is an order to install.
LEMMA OrderExists ==
  ASSUME NEW found, IsFiniteSet(found), NEW base \in Nat
  PROVE  /\ Cardinality(found) \in Nat
         /\ LET ids == base + 1 .. base + Cardinality(found)
            IN  (CHOOSE f \in [ids -> found] : IsInjective(f)) \in [ids -> found]
<1> DEFINE c == Cardinality(found)
           ids == base + 1 .. base + c
<1>1. c \in Nat /\ ExistsBijection(1..c, found)
  BY FS_CardinalityType
<1>2. PICK g \in Bijection(1..c, found) : TRUE
  BY <1>1 DEF ExistsBijection
<1>3. g \in [1..c -> found] /\ \A a, b \in 1..c : g[a] = g[b] => a = b
  BY <1>2 DEF Bijection, Injection, IsInjective
<1> DEFINE f == [i \in ids |-> g[i - base]]
<1>4. \A i \in ids : i \in Int /\ i - base \in 1..c
  BY <1>1
<1>5. f \in [ids -> found]
  BY <1>3, <1>4
<1>6. \A a, b \in ids : f[a] = f[b] => a = b
  <2>1. SUFFICES ASSUME NEW a \in ids, NEW b \in ids, f[a] = f[b]
                 PROVE  a = b
    OBVIOUS
  <2>2. g[a - base] = g[b - base]
    BY <2>1
  <2>3. a - base = b - base
    BY <1>3, <1>4, <2>2
  <2>4. QED
    BY <1>4, <2>3
<1>7. DOMAIN f = ids
  OBVIOUS
<1>8. IsInjective(f)
  BY <1>6, <1>7 DEF IsInjective
<1>9. QED
  BY <1>1, <1>5, <1>8

-----------------------------------------------------------------------------
(* What a step of a list thread makes of it *)

\* A thread that begins to list looks at the folder that is watched now.
LEMMA ListRowsFacts ==
  ASSUME Typed, NEW l \in Listers, ListRows(l)
  PROVE  \E t \in ScanS :
            /\ lister' = [lister EXCEPT ![l] = t]
            /\ t.generation = generation' /\ t.folder = recordingDir /\ t.revision = revision
            /\ t.todo = Discovered(recordingDir) /\ t.found = {}
            /\ generation' = generation + 1 /\ generation' \in 0..MaxLists
            /\ lister[l].pc \in {"idle", "list"} /\ t.pc = "scan"
<1> DEFINE t == [pc |-> "scan", generation |-> generation', folder |-> recordingDir,
                 revision |-> revision, todo |-> Discovered(recordingDir), found |-> {}]
<1>1. generation' = generation + 1 /\ generation' \in 0..MaxLists
  BY ListBounds DEF Typed, ListRows
<1>2. generation' \in Nat /\ revision \in Nat /\ recordingDir \in Folders
  BY <1>1 DEF Typed
<1>3. t \in ScanS
  BY <1>2, DiscoveredType DEF ScanS
<1>4. lister' = [lister EXCEPT ![l] = t] /\ lister[l].pc \in {"idle", "list"}
  BY DEF ListRows
<1>5. QED
  BY <1>1, <1>3, <1>4

\* A scan goes on to the next path, and remembers the file if it is still there.
LEMMA ScanFacts ==
  ASSUME Typed, NEW l \in Listers, Scan(l)
  PROVE  \E t \in ScanS :
            /\ lister' = [lister EXCEPT ![l] = t] /\ lister[l].pc = "scan"
            /\ t.generation = lister[l].generation /\ t.folder = lister[l].folder
            /\ t.revision = lister[l].revision /\ t.todo \subseteq lister[l].todo
            /\ \/ t.found = lister[l].found
               \/ \E n \in lister[l].todo :
                     /\ file[n] # NoRec /\ [name |-> n, rec |-> file[n]] \in Info
                     /\ t.found = lister[l].found \cup {[name |-> n, rec |-> file[n]]}
<1> DEFINE x == lister[l]
<1>1. x \in ListerS /\ x.pc = "scan"
  BY DEF Typed, Scan
<1>2. /\ x \in ScanS /\ x.todo \in SUBSET Names /\ x.found \in SUBSET Info
  BY <1>1, ListerFacts DEF Scanning
<1>3. CASE x.todo = {}
  <2> DEFINE t == [x EXCEPT !.pc = "accept"]
  <2>1. lister' = [lister EXCEPT ![l] = t]
    BY <1>3 DEF Scan
  <2>2. /\ t \in ScanS /\ t.generation = x.generation /\ t.folder = x.folder
        /\ t.revision = x.revision /\ t.todo = x.todo /\ t.found = x.found
    BY <1>2 DEF ScanS
  <2>3. QED
    BY <1>1, <2>1, <2>2
<1>4. CASE x.todo # {}
  <2> DEFINE n == CHOOSE m \in x.todo : TRUE
             e == [name |-> n, rec |-> file[n]]
             found == IF file[n] = NoRec THEN x.found ELSE x.found \cup {e}
             t == [x EXCEPT !.todo = x.todo \ {n}, !.found = found]
  <2>1. n \in x.todo /\ n \in Names
    BY <1>2, <1>4
  <2>2. lister' = [lister EXCEPT ![l] = t]
    BY <1>4 DEF Scan
  <2>3. file[n] \in Recordings \cup {NoRec}
    BY <2>1 DEF Typed, Files
  <2>4. file[n] # NoRec => e \in Info
    BY <2>1, <2>3 DEF Info
  <2>5. found \in SUBSET Info
    BY <1>2, <2>4
  <2> HIDE DEF n, e, found
  <2>6. /\ t \in ScanS /\ t.generation = x.generation /\ t.folder = x.folder
        /\ t.revision = x.revision /\ t.todo = x.todo \ {n} /\ t.found = found
    BY <1>2, <2>5 DEF ScanS
  <2> HIDE DEF t
  <2>7. \/ t.found = x.found
        \/ file[n] # NoRec /\ e \in Info /\ t.found = x.found \cup {e}
    BY <2>4, <2>6 DEF found
  <2>8. QED
    BY <1>1, <2>1, <2>2, <2>6, <2>7 DEF e
<1>5. QED
  BY <1>3, <1>4

\* A scan that a rename went through begins again, at the same folder.
LEMMA RescanFacts ==
  ASSUME Typed, NEW l \in Listers, Rescan(l)
  PROVE  \E t \in ScanS :
            /\ lister' = [lister EXCEPT ![l] = t] /\ lister[l].pc = "accept"
            /\ t.generation = lister[l].generation /\ t.folder = lister[l].folder
            /\ t.revision = revision /\ t.todo = Discovered(lister[l].folder)
            /\ t.found = {}
<1> DEFINE x == lister[l]
           todo == Discovered(lister[l].folder)
           t == [x EXCEPT !.pc = "scan", !.revision = revision, !.todo = todo, !.found = {}]
<1>1. x \in ListerS /\ x.pc = "accept" /\ revision \in Nat
  BY DEF Typed, Rescan
<1>2. x \in ScanS
  BY <1>1, ListerFacts DEF Scanning
<1>3. lister' = [lister EXCEPT ![l] = t]
  BY DEF Rescan
<1>4. todo \in SUBSET Names
  BY DiscoveredType
<1> HIDE DEF todo
<1>5. /\ t \in ScanS /\ t.generation = x.generation /\ t.folder = x.folder
      /\ t.revision = revision /\ t.todo = todo /\ t.found = {}
  BY <1>1, <1>2, <1>4 DEF ScanS
<1> HIDE DEF t
<1>6. QED
  BY <1>1, <1>3, <1>5 DEF todo

\* An accepted scan is given its links, and is still what was found.
LEMMA AcceptFacts ==
  ASSUME Typed, NEW l \in Listers, Accept(l)
  PROVE  \E t \in InstallS :
            /\ lister' = [lister EXCEPT ![l] = t] /\ t.pc = "install"
            /\ t.generation = lister[l].generation /\ t.folder = lister[l].folder
            /\ t.found = {[info |-> i, link |-> Lookup(i.name, i.rec)] : i \in lister[l].found}
            /\ Found(t) = lister[l].found /\ lister[l].found \in SUBSET Info
            /\ lister[l].pc = "accept" /\ ~Superseded(l) /\ lister[l].revision = revision
<1> DEFINE x == lister[l]
           found == {[info |-> i, link |-> Lookup(i.name, i.rec)] : i \in x.found}
           t == [pc |-> "install", generation |-> x.generation, folder |-> x.folder,
                 found |-> found]
<1>1. x \in ListerS /\ x.pc = "accept" /\ ~Superseded(l) /\ x.revision = revision
  BY DEF Typed, Accept
<1>2. x.generation \in Nat /\ x.folder \in Folders /\ x.found \in SUBSET Info
  BY <1>1, ListerFacts DEF Scanning
<1>3. lister' = [lister EXCEPT ![l] = t]
  BY DEF Accept
<1>4. found \in SUBSET [info : Info, link : Nat]
  <2>1. SUFFICES ASSUME NEW i \in x.found
                 PROVE  [info |-> i, link |-> Lookup(i.name, i.rec)] \in [info : Info, link : Nat]
    OBVIOUS
  <2>2. i \in Info /\ i.name \in Names
    BY <1>2 DEF Info
  <2>3. Lookup(i.name, i.rec) \in Nat
    BY <2>2, LookupType DEF Typed
  <2>4. QED
    BY <2>2, <2>3
<1>5. {e.info : e \in found} = x.found
  <2>1. \A i \in x.found : [info |-> i, link |-> Lookup(i.name, i.rec)] \in found
    OBVIOUS
  <2>2. \A i \in x.found : \E e \in found : e.info = i
    BY <2>1
  <2>3. \A e \in found : e.info \in x.found
    OBVIOUS
  <2>4. QED
    BY <2>2, <2>3
<1> HIDE DEF found
<1>6. /\ t \in InstallS /\ t.pc = "install" /\ t.generation = x.generation
      /\ t.folder = x.folder /\ t.found = found
  BY <1>2, <1>4 DEF InstallS
<1>7. Found(t) = x.found
  BY <1>5, <1>6 DEF Found
<1> HIDE DEF t
<1>8. QED
  BY <1>1, <1>2, <1>3, <1>6, <1>7 DEF found

\* A thread that rests, or has a rebuild to do, has found nothing.
LEMMA RestFacts ==
  /\ IdleLister \in RestS /\ [pc |-> "list"] \in RestS
  /\ \A t \in RestS \cup ConfirmS : ~Scanning(t) /\ t.pc # "install" /\ Found(t) = {}
BY DEF IdleLister, RestS, ConfirmS, Scanning, Found

\* A new snapshot numbers what was found from where the last one ended; of the old
\* rows, what a worker has captured stays as it was.
LEMMA InstallFacts ==
  ASSUME Typed, FiniteInv, LockInv, NEW l \in Listers, Install(l)
  PROVE  /\ lister' = [lister EXCEPT ![l] = IdleLister] /\ lister[l].pc = "install"
         /\ minted' \in Nat /\ minted <= minted'
         /\ DOMAIN rows' \subseteq minted + 1 .. minted'
         /\ DOMAIN infos' = DOMAIN rows' \cup Captured
         /\ infos' = [i \in DOMAIN infos' |-> infos'[i]]
         /\ rows' = [i \in DOMAIN rows' |-> rows'[i]]
         /\ Captured \subseteq DOMAIN infos /\ Captured \cap DOMAIN rows' = {}
         /\ \A i \in DOMAIN rows' : \E e \in lister[l].found :
               infos'[i] = e.info /\ rows'[i] = e.link
         /\ \A i \in Captured : infos'[i] = infos[i]
<1> DEFINE found == lister[l].found
           ids == minted + 1 .. minted + Cardinality(found)
           order == CHOOSE f \in [ids -> found] : IsInjective(f)
<1>1. lister[l].pc = "install" /\ lister' = [lister EXCEPT ![l] = IdleLister]
  BY DEF Install
<1>2. minted \in Nat /\ IsFiniteSet(found)
  BY <1>1 DEF Typed, FiniteInv
<1>3. Cardinality(found) \in Nat /\ order \in [ids -> found]
  BY <1>2, OrderExists
<1>4. /\ minted' = minted + Cardinality(found)
      /\ rows' = [i \in ids |-> order[i].link]
      /\ infos' = [i \in ids \cup Captured |-> IF i \in ids THEN order[i].info ELSE infos[i]]
  BY DEF Install
<1>5. minted' \in Nat /\ minted <= minted'
  BY <1>2, <1>3, <1>4
<1>6. Captured \subseteq DOMAIN infos
  BY DEF LockInv, Captured, ToDelete, busy
<1>7. Captured \cap ids = {}
  BY <1>2, <1>3, <1>6 DEF Typed, Minted
<1> HIDE DEF order
<1>8. \A i \in ids : order[i] \in found
  BY <1>3
<1>9. ids = minted + 1 .. minted'
  BY <1>4
<1> HIDE DEF ids, found
<1>10. DOMAIN rows' = ids /\ DOMAIN infos' = ids \cup Captured
  BY <1>4
<1>11. \A i \in ids : infos'[i] = order[i].info /\ rows'[i] = order[i].link
  BY <1>4
<1>12. \A i \in Captured : infos'[i] = infos[i]
  BY <1>4, <1>7
<1>13. infos' = [i \in DOMAIN infos' |-> infos'[i]] /\ rows' = [i \in DOMAIN rows' |-> rows'[i]]
  BY <1>4
<1>14. \A i \in ids : \E e \in found : infos'[i] = e.info /\ rows'[i] = e.link
  BY <1>8, <1>11
<1>15. QED
  BY <1>1, <1>5, <1>6, <1>7, <1>9, <1>10, <1>12, <1>13, <1>14 DEF found

\* A step of one list thread leaves the others as they are.
LEMMA SetLister ==
  ASSUME Typed, NEW l \in Listers, NEW t \in ListerS, lister' = [lister EXCEPT ![l] = t]
  PROVE  /\ lister' \in [Listers -> ListerS] /\ lister'[l] = t
         /\ \A m \in Listers : m # l => lister'[m] = lister[m]
BY DEF Typed

-----------------------------------------------------------------------------
(* What the renamer and the uploader do *)

\* A rename that is begun has a row and two names of one folder, one of them free.
LEMMA StartRenameFacts ==
  ASSUME Typed, NEW i \in Ids, NEW to \in Names, StartRename(i, to)
  PROVE  /\ renamer' \in RenamerS /\ renamer'.pc = "checked" /\ renamer'.id = i
         /\ renamer'.from = infos[i].name /\ renamer'.to = to
         /\ renamer'.from \in Names /\ renamer'.from # to /\ Folder[to] = Folder[renamer'.from]
         /\ file[to] = NoRec /\ uploader.pc = "idle" /\ renamer.pc = "idle"
         /\ \A l \in Listers : lister[l].pc # "install"
<1> DEFINE t == [pc |-> "checked", id |-> i, from |-> infos[i].name, to |-> to]
<1>1. i \in Nat /\ infos[i] \in Info
  BY DEF Typed, Minted
<1>2. infos[i].name \in Names
  BY <1>1 DEF Info
<1>3. t \in RenamerS
  BY <1>1, <1>2 DEF RenamerS
<1>4. renamer' = t
  BY DEF StartRename
<1>5. /\ file[infos[i].name] # NoRec /\ file[to] = NoRec /\ uploader.pc = "idle"
      /\ Folder[to] = Folder[infos[i].name] /\ renamer.pc = "idle"
      /\ \A l \in Listers : lister[l].pc # "install"
  BY DEF StartRename, PublicationFree, busy
<1>6. QED
  BY <1>2, <1>3, <1>4, <1>5

\* A rename moves the file, or is refused and over.
LEMMA MoveFileFacts ==
  ASSUME Typed, MoveFile
  PROVE  /\ renamer.pc = "checked" /\ renamer' \in RenamerS
         /\ \/ /\ file[renamer.from] # NoRec /\ file[renamer.to] = NoRec
               /\ file' = [file EXCEPT ![renamer.from] = NoRec,
                                       ![renamer.to] = file[renamer.from]]
               /\ file' \in Files /\ revision' = revision + 1 /\ renamer'.pc = "moved"
               /\ renamer'.id = renamer.id /\ renamer'.from = renamer.from
               /\ renamer'.to = renamer.to
               /\ strayed' = (strayed \/ file[renamer.from] # infos[renamer.id].rec)
            \/ renamer'.pc = "idle" /\ UNCHANGED <<file, revision, strayed>>
<1>1. renamer.pc = "checked"
  BY DEF MoveFile
<1>2. CASE /\ file[renamer.from] # NoRec /\ file[renamer.to] = NoRec
           /\ file' = [file EXCEPT ![renamer.from] = NoRec,
                                   ![renamer.to] = file[renamer.from]]
           /\ revision' = revision + 1 /\ renamer' = [renamer EXCEPT !.pc = "moved"]
           /\ strayed' = (strayed \/ file[renamer.from] # infos[renamer.id].rec)
  <2>1. renamer \in [pc : {"checked", "moved"}, id : Nat, from : Names, to : Names]
    BY <1>1, WorkerFacts DEF Typed
  <2>2. /\ renamer' \in RenamerS /\ renamer'.pc = "moved" /\ renamer'.id = renamer.id
        /\ renamer'.from = renamer.from /\ renamer'.to = renamer.to
    BY <1>2, <2>1 DEF RenamerS
  <2>3. renamer.from \in Names /\ renamer.to \in Names /\ file \in Files
    BY <2>1 DEF Typed
  <2>4. file' \in Files
    BY <1>2, <2>3 DEF Files
  <2>5. QED
    BY <1>1, <1>2, <2>2, <2>4
<1>3. CASE renamer' = IdleRenamer /\ UNCHANGED <<file, revision, strayed>>
  BY <1>1, <1>3 DEF RenamerS, IdleRenamer
<1>4. QED
  BY <1>2, <1>3 DEF MoveFile

\* An entry is moved whole, and every row of the recording renamed gets its new name.
LEMMA MoveIdentityFacts ==
  ASSUME Typed, MoveIdentity
  PROVE  /\ renamer.pc = "moved" /\ renamer' \in RenamerS /\ renamer'.pc = "idle"
         /\ DOMAIN infos' = DOMAIN infos /\ infos' \in [DOMAIN infos -> Info]
         /\ \A i \in DOMAIN infos :
               /\ infos'[i].rec = infos[i].rec
               /\ infos'[i].name = IF Repointed(i) THEN renamer.to ELSE infos[i].name
         /\ store' \in [Names -> Entries]
         /\ store' = MoveEntry(renamer.from, renamer.to)
         /\ renamer.from \in Names /\ renamer.to \in Names
<1>1. renamer.pc = "moved" /\ renamer' = IdleRenamer
  BY DEF MoveIdentity
<1>2. renamer.from \in Names /\ renamer.to \in Names
  BY <1>1, WorkerFacts DEF Typed
<1>3. renamer' \in RenamerS /\ renamer'.pc = "idle"
  BY <1>1 DEF RenamerS, IdleRenamer
<1>4. infos' = [i \in DOMAIN infos |->
                  IF Repointed(i) THEN [infos[i] EXCEPT !.name = renamer.to] ELSE infos[i]]
  BY DEF MoveIdentity
<1>5. ASSUME NEW i \in DOMAIN infos
      PROVE  /\ infos'[i] \in Info /\ infos'[i].rec = infos[i].rec
             /\ infos'[i].name = IF Repointed(i) THEN renamer.to ELSE infos[i].name
  <2>1. infos[i] \in Info
    BY DEF Typed
  <2>2. infos'[i] = IF Repointed(i) THEN [infos[i] EXCEPT !.name = renamer.to] ELSE infos[i]
    BY <1>4
  <2>3. QED
    BY <1>2, <2>1, <2>2 DEF Info
<1>6. DOMAIN infos' = DOMAIN infos
  BY <1>4
<1>7. infos' \in [DOMAIN infos -> Info]
  BY <1>4, <1>5
<1>8. store' = MoveEntry(renamer.from, renamer.to)
  BY DEF MoveIdentity
<1>9. NoEntry \in Entries
  BY DEF NoEntry, NoVideo, Entries
<1>10. store' \in [Names -> Entries]
  BY <1>2, <1>8, <1>9 DEF Typed, MoveEntry
<1>11. QED
  BY <1>1, <1>2, <1>3, <1>5, <1>6, <1>7, <1>8, <1>10

\* The worker that lets go of its row keeps those of the others.
LEMMA LetGoFacts ==
  ASSUME Typed, LockInv
  PROVE  LET kept == Restrict(infos, Ids \cup ToDelete)
         IN  /\ DOMAIN kept = Ids \cup ToDelete /\ DOMAIN kept \subseteq DOMAIN infos
             /\ kept \in [DOMAIN kept -> Info]
             /\ \A i \in DOMAIN kept : kept[i] = infos[i]
<1>1. ToDelete \subseteq DOMAIN infos
  BY DEF LockInv, ToDelete
<1>2. Ids \cup ToDelete \subseteq DOMAIN infos
  BY <1>1 DEF Typed
<1>3. QED
  BY <1>2 DEF Typed, Restrict

\* A claimed row is published, and is the last video; or its job ends without.
LEMMA TransferFacts ==
  ASSUME Typed, LockInv, Transfer
  PROVE  /\ uploader.pc = "claimed" /\ uploader' \in UploaderS
         /\ \/ /\ file[infos[uploader.id].name] # NoRec
               /\ videos' \in Seq(Recordings) /\ Len(videos') = Len(videos) + 1
               /\ DOMAIN videos' = 1..Len(videos) + 1 /\ DOMAIN videos = 1..Len(videos)
               /\ \A v \in DOMAIN videos : videos'[v] = videos[v]
               /\ videos'[Len(videos) + 1] = file[infos[uploader.id].name]
               /\ infos[uploader.id].name \in Names
               /\ uploader'.pc = "persist" /\ uploader'.id = uploader.id
               /\ strayed' = (strayed \/ file[infos[uploader.id].name] # infos[uploader.id].rec)
               /\ strayed' \/ file[infos[uploader.id].name] = infos[uploader.id].rec
               /\ infos' = infos
            \/ /\ uploader'.pc = "idle"
               /\ infos' = Restrict(infos, Ids \cup ToDelete)
               /\ UNCHANGED <<videos, strayed>>
<1>1. uploader.pc = "claimed"
  BY DEF Transfer
<1>2. CASE /\ file[infos[uploader.id].name] # NoRec
           /\ videos' = Append(videos, file[infos[uploader.id].name])
           /\ uploader' = [uploader EXCEPT !.pc = "persist"]
           /\ strayed' = (strayed \/ file[infos[uploader.id].name] # infos[uploader.id].rec)
           /\ infos' = infos
  <2>1. uploader.id \in DOMAIN infos
    BY <1>1 DEF LockInv
  <2>2. infos[uploader.id] \in Info
    BY <2>1 DEF Typed
  <2>3. infos[uploader.id].name \in Names /\ file[infos[uploader.id].name] \in Recordings
    BY <1>2, <2>2 DEF Info, Typed, Files
  <2>4. videos \in Seq(Recordings)
    BY DEF Typed
  <2>5. /\ videos' \in Seq(Recordings) /\ Len(videos') = Len(videos) + 1
        /\ \A v \in 1..Len(videos) : videos'[v] = videos[v]
        /\ videos'[Len(videos) + 1] = file[infos[uploader.id].name]
    BY <1>2, <2>3, <2>4, AppendProperties
  <2>6. DOMAIN videos = 1..Len(videos) /\ DOMAIN videos' = 1..Len(videos) + 1
    BY <2>4, <2>5, LenProperties
  <2>7. uploader' \in UploaderS /\ uploader'.pc = "persist" /\ uploader'.id = uploader.id
    BY <1>1, <1>2 DEF Typed, UploaderS, IdleUploader
  <2>8. QED
    <3>1. strayed' \/ file[infos[uploader.id].name] = infos[uploader.id].rec
      BY <1>2, Zenon
    <3>2. QED
      BY <1>1, <1>2, <2>3, <2>5, <2>6, <2>7, <3>1
<1>3. CASE /\ uploader' = IdleUploader /\ infos' = Restrict(infos, Ids \cup ToDelete)
           /\ UNCHANGED <<videos, strayed>>
  BY <1>1, <1>3 DEF UploaderS, IdleUploader
<1>4. QED
  BY <1>2, <1>3 DEF Transfer

\* The link is remembered at the name the row has now.
LEMMA PersistFacts ==
  ASSUME Typed, LockInv, Persist
  PROVE  LET info == infos[uploader.id]
         IN  /\ uploader.pc = "persist" /\ renamer.pc # "moved"
             /\ uploader' \in UploaderS /\ uploader'.pc = "announce"
             /\ uploader'.id = uploader.id
             /\ info \in Info /\ info.name \in Names /\ info.rec \in Recordings
             /\ uploader.id \in DOMAIN infos
             /\ store' = [store EXCEPT ![info.name] = [rec |-> info.rec, video |-> Len(videos)]]
             /\ store' \in [Names -> Entries]
<1> DEFINE info == infos[uploader.id]
<1>1. uploader.pc = "persist" /\ renamer.pc # "moved"
  BY DEF Persist, StoreFree
<1>2. uploader' \in UploaderS /\ uploader'.pc = "announce" /\ uploader'.id = uploader.id
  BY <1>1 DEF Typed, Persist, UploaderS, IdleUploader
<1>3. uploader.id \in DOMAIN infos
  BY <1>1 DEF LockInv
<1>4. info \in Info
  BY <1>3 DEF Typed
<1>5. info.name \in Names /\ info.rec \in Recordings /\ Len(videos) \in Nat
  BY <1>4, LenProperties DEF Typed, Info
<1>6. store' = [store EXCEPT ![info.name] = [rec |-> info.rec, video |-> Len(videos)]]
  BY DEF Persist
<1>7. [rec |-> info.rec, video |-> Len(videos)] \in Entries
  BY <1>5 DEF Entries
<1> HIDE DEF info
<1>8. store' \in [Names -> Entries]
  BY <1>5, <1>6, <1>7 DEF Typed
<1>9. QED
  BY <1>1, <1>2, <1>3, <1>4, <1>5, <1>6, <1>8 DEF info

\* The row shows the new video only if the store answers with it.
LEMMA AnnounceFacts ==
  ASSUME Typed, LockInv, Announce
  PROVE  /\ uploader.pc = "announce" /\ renamer.pc = "idle"
         /\ \A l \in Listers : lister[l].pc # "install"
         /\ uploader' \in UploaderS /\ uploader'.pc = "idle"
         /\ infos' = Restrict(infos, Ids \cup ToDelete)
         /\ DOMAIN rows' = Ids /\ rows' \in [Ids -> Nat]
         /\ \A i \in Ids : rows'[i] = rows[i] \/ (i = uploader.id /\ rows'[i] = Len(videos))
<1>1. /\ uploader.pc = "announce" /\ PublicationFree /\ uploader' = IdleUploader
      /\ infos' = Restrict(infos, Ids \cup ToDelete)
  BY DEF Announce
<1>2. Len(videos) \in Nat /\ rows \in [Ids -> Nat]
  BY LenProperties DEF Typed
<1>3. rows' = rows \/ (uploader.id \in Ids /\ rows' = [rows EXCEPT ![uploader.id] = Len(videos)])
  BY DEF Announce
<1>4. /\ DOMAIN rows' = Ids /\ rows' \in [Ids -> Nat]
      /\ \A i \in Ids : rows'[i] = rows[i] \/ (i = uploader.id /\ rows'[i] = Len(videos))
  BY <1>2, <1>3
<1>5. QED
  BY <1>1, <1>4 DEF PublicationFree, UploaderS, IdleUploader

-----------------------------------------------------------------------------
(* Types, counts and locks *)

\* The first state has the types.
LEMMA TypedInit == Init => Typed
<1>1. SUFFICES ASSUME Init PROVE Typed
  OBVIOUS
<1>2. /\ generation \in 0..MaxLists /\ revision \in 0..MaxRenames /\ minted \in Nat
  BY <1>1, ListBounds DEF Init
<1>3. /\ DOMAIN infos = {} /\ DOMAIN rows = {}
  BY <1>1 DEF Init
<1>4. infos \in [DOMAIN infos -> Info] /\ DOMAIN infos \subseteq Minted
  BY <1>1 DEF Init
<1>5. rows \in [Ids -> Nat] /\ Ids \subseteq DOMAIN infos
  BY <1>1 DEF Init, Ids
<1>6. store \in [Names -> Entries] /\ videos \in Seq(Recordings)
  BY <1>1 DEF Init, NoEntry, NoVideo, Entries
<1>7. IdleLister \in ListerS
  BY RestFacts DEF ListerS
<1>8. lister \in [Listers -> ListerS]
  BY <1>1, <1>7 DEF Init
<1>9. renamer \in RenamerS /\ uploader \in UploaderS
  BY <1>1 DEF Init, RenamerS, UploaderS
<1>10. file \in Files /\ fresh \in SUBSET Recordings /\ recordingDir \in Folders
  BY <1>1 DEF Init, Files
<1>11. strayed \in BOOLEAN
  BY <1>1 DEF Init
<1>12. QED
  BY <1>2, <1>4, <1>5, <1>6, <1>8, <1>9, <1>10, <1>11 DEF Typed

\* Every step keeps the types.
LEMMA TypedStep ==
  ASSUME Typed, FiniteInv, LockInv, [Next]_vars
  PROVE  Typed'
<1>1. ASSUME NEW n \in Names, NEW r \in Recordings, NewRecording(n, r) PROVE Typed'
  <2>1. file' \in Files /\ fresh' \in SUBSET Recordings
    BY <1>1 DEF NewRecording, Typed, Files
  <2>2. QED
    BY <1>1, <2>1 DEF NewRecording, Typed, Ids, Minted
<1>2. ASSUME NEW l \in Listers, NEW i \in Ids, ChooseDelete(l, i) PROVE Typed'
  <2>1. [pc |-> "confirm", id |-> i] \in ListerS
    BY DEF Typed, Minted, ListerS, ConfirmS
  <2>2. lister' \in [Listers -> ListerS]
    BY <1>2, <2>1, SetLister DEF ChooseDelete
  <2>3. QED
    BY <1>2, <2>2 DEF ChooseDelete, Typed, Ids, Minted
<1>3. ASSUME NEW l \in Listers, Delete(l) PROVE Typed'
  <2>1. lister' \in [Listers -> ListerS]
    BY <1>3, RestFacts, SetLister DEF Delete, ListerS
  <2>2. file' \in Files
    BY <1>3 DEF Delete, Typed, Files
  <2>3. QED
    BY <1>3, <2>1, <2>2 DEF Delete, Typed, Ids, Minted
<1>4. ASSUME NEW l \in Listers, NEW f \in Folders, SetFolder(l, f) PROVE Typed'
  <2>1. lister' \in [Listers -> ListerS]
    BY <1>4, RestFacts, SetLister DEF SetFolder, ListerS
  <2>2. QED
    BY <1>4, <2>1 DEF SetFolder, Typed, Ids, Minted
<1>5. ASSUME NEW l \in Listers, ListRows(l) PROVE Typed'
  <2>1. lister' \in [Listers -> ListerS] /\ generation' \in 0..MaxLists
    BY <1>5, ListRowsFacts, SetLister DEF ListerS
  <2>2. QED
    BY <1>5, <2>1 DEF ListRows, Typed, Ids, Minted
<1>6. ASSUME NEW l \in Listers, Scan(l) PROVE Typed'
  <2>1. lister' \in [Listers -> ListerS]
    BY <1>6, ScanFacts, SetLister DEF ListerS
  <2>2. QED
    BY <1>6, <2>1 DEF Scan, Typed, Ids, Minted
<1>7. ASSUME NEW l \in Listers, GiveUp(l) PROVE Typed'
  <2>1. lister' \in [Listers -> ListerS]
    BY <1>7, RestFacts, SetLister DEF GiveUp, ListerS
  <2>2. QED
    BY <1>7, <2>1 DEF GiveUp, Typed, Ids, Minted
<1>8. ASSUME NEW l \in Listers, Rescan(l) PROVE Typed'
  <2>1. lister' \in [Listers -> ListerS]
    BY <1>8, RescanFacts, SetLister DEF ListerS
  <2>2. QED
    BY <1>8, <2>1 DEF Rescan, Typed, Ids, Minted
<1>9. ASSUME NEW l \in Listers, Accept(l) PROVE Typed'
  <2>1. lister' \in [Listers -> ListerS]
    BY <1>9, AcceptFacts, SetLister DEF ListerS
  <2>2. QED
    BY <1>9, <2>1 DEF Accept, Typed, Ids, Minted
<1>10. ASSUME NEW l \in Listers, Install(l) PROVE Typed'
  <2>1. /\ lister' = [lister EXCEPT ![l] = IdleLister] /\ lister[l].pc = "install"
        /\ minted' \in Nat /\ minted <= minted'
        /\ DOMAIN rows' \subseteq minted + 1 .. minted'
        /\ DOMAIN infos' = DOMAIN rows' \cup Captured
        /\ infos' = [i \in DOMAIN infos' |-> infos'[i]]
        /\ rows' = [i \in DOMAIN rows' |-> rows'[i]]
        /\ Captured \subseteq DOMAIN infos
        /\ \A i \in DOMAIN rows' : \E e \in lister[l].found :
              infos'[i] = e.info /\ rows'[i] = e.link
        /\ \A i \in Captured : infos'[i] = infos[i]
    BY <1>10, InstallFacts
  <2>2. lister' \in [Listers -> ListerS]
    BY <2>1, RestFacts, SetLister DEF ListerS
  <2>3. lister[l] \in ListerS /\ minted \in Nat
    BY DEF Typed
  <2>4. lister[l].found \in SUBSET [info : Info, link : Nat]
    BY <2>1, <2>3, ListerFacts
  <2>5. \A i \in DOMAIN rows' : infos'[i] \in Info /\ rows'[i] \in Nat
    BY <2>1, <2>4
  <2>6. rows' \in [DOMAIN rows' -> Nat]
    BY <2>1, <2>5
  <2>7. \A i \in DOMAIN infos' : infos'[i] \in Info
    BY <2>1, <2>5 DEF Typed
  <2>8. infos' \in [DOMAIN infos' -> Info]
    BY <2>1, <2>7
  <2>9. DOMAIN infos' \subseteq 1..minted'
    BY <2>1, <2>3 DEF Typed, Minted
  <2>10. QED
    BY <1>10, <2>1, <2>2, <2>6, <2>8, <2>9 DEF Install, Typed, Ids, Minted
<1>11. ASSUME NEW i \in Ids, NEW to \in Names, StartRename(i, to) PROVE Typed'
  <2>1. renamer' \in RenamerS
    BY <1>11, StartRenameFacts
  <2>2. QED
    BY <1>11, <2>1 DEF StartRename, Typed, Ids, Minted
<1>12. ASSUME MoveFile PROVE Typed'
  <2>1. renamer' \in RenamerS /\ file' \in Files
    BY <1>12, MoveFileFacts DEF Typed
  <2>2. strayed' \in BOOLEAN
    BY <1>12 DEF MoveFile, Typed
  <2>3. revision' \in 0..MaxRenames
    BY <1>12, MoveFileFacts, ListBounds DEF Typed, LockInv
  <2>4. QED
    BY <1>12, <2>1, <2>2, <2>3 DEF MoveFile, Typed, Ids, Minted
<1>13. ASSUME MoveIdentity PROVE Typed'
  <2>1. /\ renamer' \in RenamerS /\ DOMAIN infos' = DOMAIN infos
        /\ infos' \in [DOMAIN infos -> Info] /\ store' \in [Names -> Entries]
    BY <1>13, MoveIdentityFacts
  <2>2. QED
    BY <1>13, <2>1 DEF MoveIdentity, Typed, Ids, Minted
<1>14. ASSUME NEW i \in Ids, StartUpload(i) PROVE Typed'
  <2>1. [pc |-> "claimed", id |-> i] \in UploaderS
    BY DEF Typed, Minted, UploaderS
  <2>2. QED
    BY <1>14, <2>1 DEF StartUpload, Typed, Ids, Minted
<1>15. ASSUME Transfer PROVE Typed'
  <2>1. uploader' \in UploaderS /\ videos' \in Seq(Recordings)
    BY <1>15, TransferFacts DEF Typed
  <2>2. /\ infos' \in [DOMAIN infos' -> Info] /\ DOMAIN infos' \subseteq DOMAIN infos
        /\ Ids \subseteq DOMAIN infos'
    BY <1>15, TransferFacts, LetGoFacts DEF Typed
  <2>3. strayed' \in BOOLEAN
    BY <1>15 DEF Transfer, Typed
  <2>4. QED
    BY <1>15, <2>1, <2>2, <2>3 DEF Transfer, Typed, Ids, Minted
<1>16. ASSUME Persist PROVE Typed'
  <2>1. uploader' \in UploaderS /\ store' \in [Names -> Entries]
    BY <1>16, PersistFacts
  <2>2. QED
    BY <1>16, <2>1 DEF Persist, Typed, Ids, Minted
<1>17. ASSUME Announce PROVE Typed'
  <2>1. /\ uploader' \in UploaderS /\ DOMAIN rows' = Ids /\ rows' \in [Ids -> Nat]
        /\ infos' = Restrict(infos, Ids \cup ToDelete)
    BY <1>17, AnnounceFacts
  <2>2. /\ infos' \in [DOMAIN infos' -> Info] /\ DOMAIN infos' \subseteq DOMAIN infos
        /\ Ids \subseteq DOMAIN infos'
    BY <2>1, LetGoFacts
  <2>3. QED
    BY <1>17, <2>1, <2>2 DEF Announce, Typed, Ids, Minted
<1>18. ASSUME UNCHANGED vars PROVE Typed'
  BY <1>18 DEF vars, Typed, Ids, Minted
<1>19. QED
  BY <1>1, <1>2, <1>3, <1>4, <1>5, <1>6, <1>7, <1>8, <1>9, <1>10, <1>11, <1>12, <1>13,
     <1>14, <1>15, <1>16, <1>17, <1>18 DEF Next, Listing, Renaming, Uploading

\* A list thread that comes to rest, or to ask, holds nothing it found.
Rests(l) ==
    \/ \E i \in Ids : ChooseDelete(l, i)
    \/ Delete(l) \/ (\E f \in Folders : SetFolder(l, f)) \/ GiveUp(l) \/ Install(l)

\* A step is that of one list thread, or leaves them all alone.
LEMMA ListerSteps ==
  ASSUME [Next]_vars
  PROVE  \/ UNCHANGED lister
         \/ \E l \in Listers : Rests(l) \/ ListRows(l) \/ Scan(l) \/ Rescan(l) \/ Accept(l)
BY DEF Next, Listing, Renaming, Uploading, Rests, NewRecording, StartRename, MoveFile,
   MoveIdentity, StartUpload, Transfer, Persist, Announce, vars

\* Where it rests.
LEMMA RestsFacts ==
  ASSUME Typed, NEW l \in Listers, Rests(l)
  PROVE  \E t \in RestS \cup ConfirmS :
            /\ lister' = [lister EXCEPT ![l] = t] /\ t \in ListerS
            /\ t.pc = "confirm" => /\ t.id \in Ids
                                   /\ UNCHANGED <<infos, uploader, renamer>>
<1>1. ASSUME NEW i \in Ids, ChooseDelete(l, i)
      PROVE  \E t \in ConfirmS : /\ lister' = [lister EXCEPT ![l] = t] /\ t.id \in Ids
                                 /\ UNCHANGED <<infos, uploader, renamer>>
  <2> DEFINE t == [pc |-> "confirm", id |-> i]
  <2>1. t \in ConfirmS /\ t.id = i
    BY DEF Typed, Minted, ConfirmS
  <2>2. /\ lister' = [lister EXCEPT ![l] = t]
        /\ UNCHANGED <<infos, uploader, renamer>>
    BY <1>1 DEF ChooseDelete
  <2>3. QED
    BY <2>1, <2>2
<1>2. CASE Delete(l)
  BY <1>2, RestFacts DEF Delete, ListerS, RestS
<1>3. ASSUME NEW f \in Folders, SetFolder(l, f)
      PROVE  \E t \in RestS : lister' = [lister EXCEPT ![l] = t] /\ t.pc # "confirm"
  BY <1>3, RestFacts DEF SetFolder, RestS
<1>4. CASE GiveUp(l)
  BY <1>4, RestFacts DEF GiveUp, ListerS, RestS
<1>5. CASE Install(l)
  BY <1>5, RestFacts DEF Install, ListerS, RestS
<1>6. QED
  BY <1>1, <1>2, <1>3, <1>4, <1>5 DEF Rests, ListerS

\* What is found stays finite.
LEMMA FiniteStep ==
  ASSUME Typed, FiniteInv, [Next]_vars
  PROVE  FiniteInv'
<1>1. CASE UNCHANGED lister
  BY <1>1 DEF FiniteInv
<1>2. ASSUME NEW l \in Listers, NEW t \in ListerS, lister' = [lister EXCEPT ![l] = t],
             Scanning(t) \/ t.pc = "install" => IsFiniteSet(t.found)
      PROVE  FiniteInv'
  BY <1>2, SetLister DEF FiniteInv
<1>3. ASSUME NEW l \in Listers, Rests(l) PROVE FiniteInv'
  BY <1>2, <1>3, RestsFacts, RestFacts
<1>4. ASSUME NEW l \in Listers, ListRows(l) PROVE FiniteInv'
  <2>1. \E t \in ScanS : lister' = [lister EXCEPT ![l] = t] /\ t.found = {}
    BY <1>4, ListRowsFacts
  <2>2. QED
    BY <1>2, <2>1, FS_EmptySet DEF ListerS
<1>5. ASSUME NEW l \in Listers, Scan(l) PROVE FiniteInv'
  <2>1. PICK t \in ScanS :
            /\ lister' = [lister EXCEPT ![l] = t] /\ lister[l].pc = "scan"
            /\ \/ t.found = lister[l].found
               \/ \E n \in lister[l].todo :
                     t.found = lister[l].found \cup {[name |-> n, rec |-> file[n]]}
    BY <1>5, ScanFacts
  <2>2. IsFiniteSet(lister[l].found)
    BY <2>1 DEF FiniteInv, Scanning
  <2>3. IsFiniteSet(t.found)
    BY <2>1, <2>2, FS_AddElement
  <2>4. QED
    BY <1>2, <2>1, <2>3 DEF ListerS
<1>6. ASSUME NEW l \in Listers, Rescan(l) PROVE FiniteInv'
  BY <1>2, <1>6, RescanFacts, FS_EmptySet DEF ListerS
<1>7. ASSUME NEW l \in Listers, Accept(l) PROVE FiniteInv'
  <2> DEFINE g == [i \in lister[l].found |-> [info |-> i, link |-> Lookup(i.name, i.rec)]]
  <2>1. PICK t \in InstallS :
            /\ lister' = [lister EXCEPT ![l] = t] /\ lister[l].pc = "accept"
            /\ t.found = {[info |-> i, link |-> Lookup(i.name, i.rec)] : i \in lister[l].found}
    BY <1>7, AcceptFacts
  <2>2. IsFiniteSet(lister[l].found)
    BY <2>1 DEF FiniteInv, Scanning
  <2>3. g \in Surjection(lister[l].found, t.found)
    BY <2>1 DEF Surjection
  <2>4. IsFiniteSet(t.found)
    BY <2>2, <2>3, FS_Surjection
  <2>5. QED
    BY <1>2, <2>1, <2>4 DEF ListerS
<1>8. QED
  BY <1>1, <1>3, <1>4, <1>5, <1>6, <1>7, ListerSteps


\* The publication lock: one rebuild at a time, and never beside a rename.
LEMMA PublicationStep ==
  ASSUME Typed, FiniteInv, LockInv, [Next]_vars
  PROVE  /\ \A l, m \in Listers : lister'[l].pc = "install" /\ lister'[m].pc = "install" => l = m
         /\ \A l \in Listers : lister'[l].pc = "install" => renamer'.pc = "idle"
<1>1. CASE UNCHANGED lister
  <2>1. SUFFICES ASSUME NEW l \in Listers, lister[l].pc = "install" PROVE renamer'.pc = "idle"
    BY <1>1 DEF LockInv
  <2>2. renamer.pc = "idle"
    BY <2>1 DEF LockInv
  <2>3. UNCHANGED renamer
    BY <2>1, <2>2 DEF Next, Listing, Renaming, Uploading, vars, NewRecording, ChooseDelete,
       Delete, SetFolder, ListRows, Scan, GiveUp, Rescan, Accept, Install, StartRename,
       MoveFile, MoveIdentity, StartUpload, Transfer, Persist, Announce, PublicationFree
  <2>4. QED
    BY <2>2, <2>3
<1>2. ASSUME NEW l \in Listers, NEW t \in ListerS, lister' = [lister EXCEPT ![l] = t],
             t.pc # "install", UNCHANGED renamer
      PROVE  /\ \A k, m \in Listers : lister'[k].pc = "install" /\ lister'[m].pc = "install"
                                      => k = m
             /\ \A k \in Listers : lister'[k].pc = "install" => renamer'.pc = "idle"
  BY <1>2, SetLister DEF LockInv
<1>3. ASSUME NEW l \in Listers, Rests(l) PROVE UNCHANGED renamer
  BY <1>3 DEF Rests, ChooseDelete, Delete, SetFolder, GiveUp, Install
<1>4. ASSUME NEW l \in Listers, Rests(l)
      PROVE  \E t \in ListerS : lister' = [lister EXCEPT ![l] = t] /\ t.pc # "install"
  BY <1>4, RestsFacts, RestFacts
<1>5. ASSUME NEW l \in Listers, ListRows(l) \/ Scan(l) \/ Rescan(l)
      PROVE  \E t \in ScanS : lister' = [lister EXCEPT ![l] = t]
  BY <1>5, ListRowsFacts, ScanFacts, RescanFacts
<1>6. ASSUME NEW l \in Listers, ListRows(l) \/ Scan(l) \/ Rescan(l) PROVE UNCHANGED renamer
  BY <1>6 DEF ListRows, Scan, Rescan
<1>7. \A t \in ScanS : t \in ListerS /\ t.pc # "install"
  BY DEF ListerS, ScanS
<1>8. ASSUME NEW l \in Listers, Accept(l)
      PROVE  /\ \A k, m \in Listers : lister'[k].pc = "install" /\ lister'[m].pc = "install"
                                      => k = m
             /\ \A k \in Listers : lister'[k].pc = "install" => renamer'.pc = "idle"
  <2>1. \E t \in InstallS : lister' = [lister EXCEPT ![l] = t]
    BY <1>8, AcceptFacts
  <2>2. PublicationFree /\ UNCHANGED renamer
    BY <1>8 DEF Accept
  <2>3. \A m \in Listers : m # l => lister'[m] = lister[m]
    BY <2>1, SetLister DEF ListerS
  <2>4. QED
    BY <2>2, <2>3 DEF PublicationFree
<1>9. QED
  BY <1>1, <1>2, <1>3, <1>4, <1>5, <1>6, <1>7, <1>8, ListerSteps

\* What a step does to the rows that are held.
LEMMA HeldFacts ==
  ASSUME Typed, FiniteInv, LockInv, [Next]_vars
  PROVE  /\ ToDelete \subseteq DOMAIN infos'
         /\ uploader'.pc # "idle" => uploader'.id \in DOMAIN infos'
<1>1. ToDelete \subseteq DOMAIN infos
  BY DEF LockInv, ToDelete
<1>2. ASSUME UNCHANGED <<infos, uploader>> \/ MoveIdentity
      PROVE  /\ ToDelete \subseteq DOMAIN infos'
             /\ uploader'.pc # "idle" => uploader'.id \in DOMAIN infos'
  <2>1. CASE UNCHANGED <<infos, uploader>>
    BY <1>1, <2>1 DEF LockInv
  <2>2. CASE MoveIdentity
    BY <1>1, <2>2, MoveIdentityFacts DEF LockInv, MoveIdentity
  <2>3. QED
    BY <1>2, <2>1, <2>2
<1>3. ASSUME NEW l \in Listers, Install(l)
      PROVE  /\ ToDelete \subseteq DOMAIN infos'
             /\ uploader'.pc # "idle" => uploader'.id \in DOMAIN infos'
  <2>1. DOMAIN infos' = DOMAIN rows' \cup Captured
    BY <1>3, InstallFacts
  <2>2. UNCHANGED uploader
    BY <1>3 DEF Install
  <2>3. QED
    BY <2>1, <2>2 DEF Captured, busy
<1>4. ASSUME NEW i \in Ids, StartUpload(i)
      PROVE  /\ ToDelete \subseteq DOMAIN infos'
             /\ uploader'.pc # "idle" => uploader'.id \in DOMAIN infos'
  BY <1>1, <1>4 DEF StartUpload, Typed
<1>5. CASE Transfer
  <2>1. CASE uploader'.pc = "idle" /\ infos' = Restrict(infos, Ids \cup ToDelete)
    BY <2>1, LetGoFacts
  <2>2. CASE uploader'.pc = "persist" /\ uploader'.id = uploader.id /\ infos' = infos
    BY <1>1, <1>5, <2>2, TransferFacts DEF LockInv
  <2>3. QED
    BY <1>5, <2>1, <2>2, TransferFacts
<1>6. CASE Persist
  BY <1>1, <1>6, PersistFacts DEF Persist
<1>7. CASE Announce
  BY <1>7, AnnounceFacts, LetGoFacts
<1>8. QED
  BY <1>2, <1>3, <1>4, <1>5, <1>6, <1>7 DEF Next, Listing, Renaming, Uploading, vars,
     NewRecording, ChooseDelete, Delete, SetFolder, ListRows, Scan, GiveUp, Rescan, Accept,
     StartRename, MoveFile

\* The captures are kept.
LEMMA CaptureStep ==
  ASSUME Typed, FiniteInv, LockInv, [Next]_vars
  PROVE  /\ \A l \in Listers : lister'[l].pc = "confirm" => lister'[l].id \in DOMAIN infos'
         /\ uploader'.pc # "idle" => uploader'.id \in DOMAIN infos'
<1>1. \A l \in Listers : lister[l].pc = "confirm" => lister[l].id \in DOMAIN infos'
  BY HeldFacts DEF ToDelete
<1>2. ASSUME NEW l \in Listers, NEW t \in ListerS, lister' = [lister EXCEPT ![l] = t],
             t.pc = "confirm" => t.id \in DOMAIN infos'
      PROVE  \A m \in Listers : lister'[m].pc = "confirm" => lister'[m].id \in DOMAIN infos'
  BY <1>1, <1>2, SetLister
<1>3. ASSUME NEW l \in Listers, Rests(l)
      PROVE  \E t \in ListerS : /\ lister' = [lister EXCEPT ![l] = t]
                                /\ t.pc = "confirm" => t.id \in DOMAIN infos'
  BY <1>3, RestsFacts DEF Typed
<1>4. ASSUME NEW l \in Listers, ListRows(l) \/ Scan(l) \/ Rescan(l) \/ Accept(l)
      PROVE  \E t \in ScanS \cup InstallS : lister' = [lister EXCEPT ![l] = t]
  BY <1>4, ListRowsFacts, ScanFacts, RescanFacts, AcceptFacts
<1>5. \A t \in ScanS \cup InstallS : t \in ListerS /\ t.pc # "confirm"
  BY DEF ListerS, ScanS, InstallS
<1>6. \A m \in Listers : lister'[m].pc = "confirm" => lister'[m].id \in DOMAIN infos'
  BY <1>1, <1>2, <1>3, <1>4, <1>5, ListerSteps
<1>7. QED
  BY <1>6, HeldFacts

\* A rename holds on to its row, under the name it moves it from.
LEMMA RenameStep ==
  ASSUME Typed, FiniteInv, LockInv, [Next]_vars
  PROVE  /\ renamer'.pc = "checked" => revision' < MaxRenames
         /\ renamer'.pc # "idle" =>
               /\ renamer'.id \in Ids' /\ infos'[renamer'.id].name = renamer'.from
               /\ renamer'.from # renamer'.to /\ Folder[renamer'.to] = Folder[renamer'.from]
<1> DEFINE Goal == /\ renamer'.pc = "checked" => revision' < MaxRenames
                   /\ renamer'.pc # "idle" =>
                         /\ renamer'.id \in Ids' /\ infos'[renamer'.id].name = renamer'.from
                         /\ renamer'.from # renamer'.to
                         /\ Folder[renamer'.to] = Folder[renamer'.from]
<1>1. CASE UNCHANGED <<renamer, revision, rows, infos>>
  BY <1>1 DEF LockInv, Ids
<1>2. ASSUME NEW l \in Listers, Install(l) PROVE Goal
  <2>1. lister[l].pc = "install" /\ UNCHANGED renamer
    BY <1>2 DEF Install
  <2>2. renamer'.pc = "idle"
    BY <2>1 DEF LockInv
  <2>3. QED
    BY <2>2
<1>3. ASSUME NEW i \in Ids, NEW to \in Names, StartRename(i, to) PROVE Goal
  BY <1>3, StartRenameFacts DEF StartRename, Ids
<1>4. CASE MoveFile
  BY <1>4, MoveFileFacts DEF LockInv, MoveFile, Ids
<1>5. CASE MoveIdentity
  BY <1>5, MoveIdentityFacts
<1>6. CASE Transfer
  <2>1. UNCHANGED <<renamer, revision, rows>>
    BY <1>6 DEF Transfer
  <2>2. \A i \in Ids : infos'[i] = infos[i]
    BY <1>6, TransferFacts, LetGoFacts
  <2>3. QED
    BY <2>1, <2>2 DEF LockInv, Ids
<1>7. CASE Announce
  <2>1. UNCHANGED renamer /\ renamer.pc = "idle"
    BY <1>7, AnnounceFacts DEF Announce
  <2>2. QED
    BY <2>1
<1>8. QED
  BY <1>1, <1>2, <1>3, <1>4, <1>5, <1>6, <1>7 DEF Next, Listing, Renaming, Uploading, vars,
     NewRecording, ChooseDelete, Delete, SetFolder, ListRows, Scan, GiveUp, Rescan, Accept,
     StartUpload, Persist

\* Every step keeps the locks.
LEMMA LockStep ==
  ASSUME Typed, FiniteInv, LockInv, [Next]_vars
  PROVE  LockInv'
BY PublicationStep, CaptureStep, RenameStep DEF LockInv

-----------------------------------------------------------------------------
(* What a step may do to what was found, to the rows and to the videos *)

\* What a thread has found it has found before, or sees on disk now.
LEMMA FoundStep ==
  ASSUME Typed, [Next]_vars, NEW m \in Listers
  PROVE  \A e \in Found(lister'[m]) :
            \/ e \in Found(lister[m])
            \/ \E n \in lister[m].todo : /\ Scan(m) /\ n \in Names /\ file[n] # NoRec
                                         /\ e = [name |-> n, rec |-> file[n]]
<1>1. CASE UNCHANGED lister
  BY <1>1
<1>2. ASSUME NEW l \in Listers, NEW t \in ListerS, lister' = [lister EXCEPT ![l] = t],
             l # m \/ Found(t) \subseteq Found(lister[m])
      PROVE  \A e \in Found(lister'[m]) : e \in Found(lister[m])
  BY <1>2, SetLister
<1>3. ASSUME NEW l \in Listers, Rests(l)
      PROVE  \E t \in ListerS : lister' = [lister EXCEPT ![l] = t] /\ Found(t) = {}
  BY <1>3, RestsFacts, RestFacts
<1>4. ASSUME NEW l \in Listers, ListRows(l) \/ Rescan(l)
      PROVE  \E t \in ListerS : lister' = [lister EXCEPT ![l] = t] /\ Found(t) = {}
  <2>1. \E t \in ScanS : lister' = [lister EXCEPT ![l] = t] /\ t.found = {}
    BY <1>4, ListRowsFacts, RescanFacts
  <2>2. \A t \in ScanS : t \in ListerS /\ t.pc # "install"
    BY DEF ListerS, ScanS
  <2>3. QED
    BY <2>1, <2>2 DEF Found
<1>5. ASSUME NEW l \in Listers, Accept(l)
      PROVE  \E t \in ListerS : /\ lister' = [lister EXCEPT ![l] = t]
                                /\ Found(t) = Found(lister[l])
  <2>1. \E t \in InstallS : /\ lister' = [lister EXCEPT ![l] = t]
                            /\ Found(t) = lister[l].found /\ lister[l].pc = "accept"
    BY <1>5, AcceptFacts
  <2>2. QED
    BY <2>1 DEF ListerS, Found, Scanning
<1>6. ASSUME NEW l \in Listers, Scan(l)
      PROVE  \A e \in Found(lister'[m]) :
                \/ e \in Found(lister[m])
                \/ \E n \in lister[m].todo : /\ Scan(m) /\ n \in Names /\ file[n] # NoRec
                                             /\ e = [name |-> n, rec |-> file[n]]
  <2>1. PICK t \in ScanS :
            /\ lister' = [lister EXCEPT ![l] = t] /\ lister[l].pc = "scan"
            /\ \/ t.found = lister[l].found
               \/ \E n \in lister[l].todo :
                     /\ file[n] # NoRec /\ [name |-> n, rec |-> file[n]] \in Info
                     /\ t.found = lister[l].found \cup {[name |-> n, rec |-> file[n]]}
    BY <1>6, ScanFacts
  <2>2. t \in ListerS /\ Scanning(t) /\ t.pc # "install"
    BY DEF ListerS, ScanS, Scanning
  <2>3. Found(t) = t.found /\ Found(lister[l]) = lister[l].found
    BY <2>1, <2>2 DEF Found, Scanning
  <2>4. lister[l].todo \in SUBSET Names
    BY <2>1, ListerFacts DEF Typed, Scanning
  <2>5. CASE l # m
    BY <1>2, <2>1, <2>2, <2>5
  <2>6. CASE l = m
    <3>1. Found(lister'[m]) = t.found
      BY <2>1, <2>2, <2>3, <2>6, SetLister
    <3>2. QED
      BY <1>6, <2>1, <2>3, <2>4, <2>6, <3>1
  <2>7. QED
    BY <2>5, <2>6
<1>7. ASSUME NEW l \in Listers, ListRows(l) \/ Rescan(l) \/ Rests(l) \/ Accept(l)
      PROVE  \A e \in Found(lister'[m]) : e \in Found(lister[m])
  BY <1>2, <1>3, <1>4, <1>5, <1>7
<1>8. QED
  BY <1>1, <1>6, <1>7, ListerSteps

\* A row that is held keeps its recording; a new one is that of something found.
LEMMA RecStep ==
  ASSUME Typed, FiniteInv, LockInv, [Next]_vars, NEW i \in DOMAIN infos'
  PROVE  \/ i \in DOMAIN infos /\ infos'[i].rec = infos[i].rec
         \/ \E l \in Listers : /\ Install(l) /\ lister[l].pc = "install"
                               /\ infos'[i] \in Found(lister[l])
                               /\ i \in DOMAIN rows' /\ i \notin Captured
<1>1. CASE UNCHANGED infos
  BY <1>1
<1>2. ASSUME NEW l \in Listers, Install(l)
      PROVE  \/ i \in DOMAIN infos /\ infos'[i] = infos[i]
             \/ /\ lister[l].pc = "install" /\ infos'[i] \in Found(lister[l])
                /\ i \in DOMAIN rows' /\ i \notin Captured
  BY <1>2, InstallFacts DEF Found
<1>3. CASE MoveIdentity
  BY <1>3, MoveIdentityFacts
<1>4. CASE infos' = Restrict(infos, Ids \cup ToDelete)
  BY <1>4, LetGoFacts
<1>5. QED
  BY <1>1, <1>2, <1>3, <1>4 DEF Next, Listing, Renaming, Uploading, vars, Transfer,
     NewRecording, ChooseDelete, Delete, SetFolder, ListRows, Scan, GiveUp, Rescan, Accept,
     StartRename, MoveFile, StartUpload, Persist, Announce

\* Whoever has not strayed yet had not before.
LEMMA StrayedStep ==
  ASSUME [Next]_vars, ~strayed'
  PROVE  ~strayed
BY DEF Next, Listing, Renaming, Uploading, vars, NewRecording,
   Delete, ChooseDelete, SetFolder, ListRows, Scan, GiveUp, Rescan, Accept, Install,
   StartRename, MoveFile, MoveIdentity, StartUpload, Transfer, Persist, Announce

\* A video keeps its number, and the only new one is that of the file at the claimed
\* row's path: the row's own, unless the worker strays.
LEMMA VideoStep ==
  ASSUME Typed, LockInv, [Next]_vars
  PROVE  /\ \A v \in DOMAIN videos : v \in DOMAIN videos' /\ videos'[v] = videos[v]
         /\ \A v \in DOMAIN videos' :
               \/ v \in DOMAIN videos
               \/ /\ Transfer /\ v = Len(videos) + 1 /\ v = Len(videos')
                  /\ infos[uploader.id].name \in Names
                  /\ videos'[v] = file[infos[uploader.id].name]
                  /\ uploader.id \in DOMAIN infos
                  /\ strayed' \/ videos'[v] = infos[uploader.id].rec
<1>1. CASE UNCHANGED videos
  BY <1>1
<1>2. CASE Transfer
  <2>1. uploader.id \in DOMAIN infos
    BY <1>2, TransferFacts DEF LockInv
  <2>2. Len(videos) \in Nat
    BY LenProperties DEF Typed
  <2>3. CASE UNCHANGED videos
    BY <2>3
  <2>4. CASE /\ Len(videos') = Len(videos) + 1
             /\ DOMAIN videos' = 1..Len(videos) + 1 /\ DOMAIN videos = 1..Len(videos)
             /\ \A v \in DOMAIN videos : videos'[v] = videos[v]
             /\ videos'[Len(videos) + 1] = file[infos[uploader.id].name]
             /\ infos[uploader.id].name \in Names
             /\ strayed' \/ file[infos[uploader.id].name] = infos[uploader.id].rec
    BY <1>2, <2>1, <2>2, <2>4
  <2>5. QED
    BY <1>2, <2>3, <2>4, TransferFacts
<1>3. QED
  BY <1>1, <1>2 DEF Next, Listing, Renaming, Uploading, vars,
     NewRecording, ChooseDelete, Delete, SetFolder, ListRows, Scan, GiveUp, Rescan, Accept,
     Install, StartRename, MoveFile, MoveIdentity, StartUpload, Persist, Announce

-----------------------------------------------------------------------------
(* New recordings are new to everyone *)

\* Nothing has been seen at first.
LEMMA SeenInit == Init => SeenInv
<1>1. SUFFICES ASSUME Init PROVE SeenInv
  OBVIOUS
<1>2. \A n, m \in Names : file[n] # NoRec /\ file[n] = file[m] => n = m
  <2>1. SUFFICES ASSUME NEW n \in Names, NEW m \in Names, file[n] # NoRec, file[n] = file[m]
                 PROVE  n = m
    OBVIOUS
  <2> DEFINE S == {k \in Names : file[k] # NoRec}
             g == Restrict(file, S)
  <2>2. IsInjective(g)
    BY <1>1 DEF Init
  <2>3. n \in S /\ m \in S
    BY <2>1
  <2> HIDE DEF S
  <2>4. DOMAIN g = S /\ g[n] = g[m]
    BY <2>1, <2>3 DEF Restrict
  <2>5. QED
    BY <2>2, <2>3, <2>4 DEF IsInjective
<1>3. \A n \in Names : file[n] \notin fresh
  <2>1. file \in [Names -> Recordings \cup {NoRec}] /\ fresh = Recordings \ Range(file)
    BY <1>1 DEF Init
  <2>2. DOMAIN file = Names
    BY <2>1
  <2>3. \A n \in Names : file[n] \in Range(file)
    BY <2>2 DEF Range
  <2>4. QED
    BY <2>1, <2>3
<1>4. DOMAIN infos = {} /\ DOMAIN videos = {}
  BY <1>1 DEF Init
<1>5. \A l \in Listers : Found(lister[l]) = {}
  BY <1>1, RestFacts DEF Init
<1>6. QED
  BY <1>2, <1>3, <1>4, <1>5 DEF SeenInv

\* Files stay apart, and what is on disk is no longer to come.
LEMMA FileStep ==
  ASSUME Typed, LockInv, SeenInv, [Next]_vars
  PROVE  /\ \A n, m \in Names : file'[n] # NoRec /\ file'[n] = file'[m] => n = m
         /\ \A n \in Names : file'[n] \notin fresh'
         /\ fresh' \subseteq fresh
<1>1. \A n \in Names : file[n] \in Recordings \cup {NoRec}
  BY DEF Typed, Files
<1>2. NoRec \notin fresh
  BY RecordingsAssumption DEF Typed
<1>3. CASE UNCHANGED <<file, fresh>>
  BY <1>3 DEF SeenInv
<1>4. ASSUME NEW n \in Names, NEW r \in Recordings, NewRecording(n, r)
      PROVE  /\ \A k, m \in Names : file'[k] # NoRec /\ file'[k] = file'[m] => k = m
             /\ \A k \in Names : file'[k] \notin fresh'
             /\ fresh' \subseteq fresh
  <2>1. /\ file' = [file EXCEPT ![n] = r] /\ r \in fresh /\ fresh' = fresh \ {r}
    BY <1>4 DEF NewRecording
  <2>2. file'[n] = r /\ \A k \in Names : k # n => file'[k] = file[k]
    BY <2>1 DEF Typed, Files
  <2>3. QED
    BY <2>1, <2>2 DEF SeenInv
<1>5. ASSUME NEW n \in Names, file' = [file EXCEPT ![n] = NoRec], UNCHANGED fresh
      PROVE  /\ \A k, m \in Names : file'[k] # NoRec /\ file'[k] = file'[m] => k = m
             /\ \A k \in Names : file'[k] \notin fresh'
             /\ fresh' \subseteq fresh
  BY <1>2, <1>5 DEF SeenInv, Typed, Files
<1>6. ASSUME NEW l \in Listers, Delete(l), file' # file
      PROVE  UNCHANGED fresh /\ \E n \in Names : file' = [file EXCEPT ![n] = NoRec]
  <2>1. lister[l].id \in DOMAIN infos
    BY <1>6 DEF Delete, LockInv
  <2>2. infos[lister[l].id].name \in Names
    BY <2>1 DEF Typed, Info
  <2>3. QED
    BY <1>6, <2>2 DEF Delete
<1>7. CASE MoveFile
  <2>1. UNCHANGED fresh
    BY <1>7 DEF MoveFile
  <2>2. CASE UNCHANGED file
    BY <1>3, <2>1, <2>2
  <2>3. CASE /\ file[renamer.from] # NoRec /\ file[renamer.to] = NoRec
             /\ file' = [file EXCEPT ![renamer.from] = NoRec,
                                     ![renamer.to] = file[renamer.from]]
    <3>1. renamer.from \in Names /\ renamer.to \in Names
      BY <1>7, MoveFileFacts, WorkerFacts DEF Typed
    <3>2. \A k \in Names : file'[k] = IF k = renamer.to THEN file[renamer.from]
                                      ELSE IF k = renamer.from THEN NoRec ELSE file[k]
      BY <2>3, <3>1 DEF Typed, Files
    <3>3. \A k \in Names : file'[k] \notin fresh'
      BY <1>2, <2>1, <3>1, <3>2 DEF SeenInv
    <3>4. ASSUME NEW k \in Names, NEW m \in Names, file'[k] # NoRec, file'[k] = file'[m]
          PROVE  k = m
      <4>1. \A j \in Names : file[j] = file[renamer.from] => j = renamer.from
        BY <2>3, <3>1 DEF SeenInv
      <4>2. file[k] # NoRec /\ file[k] = file[m] => k = m
        BY DEF SeenInv
      <4>3. QED
        BY <3>2, <3>4, <4>1, <4>2
    <3>5. QED
      BY <2>1, <3>3, <3>4
  <2>4. QED
    BY <1>7, <2>2, <2>3, MoveFileFacts
<1>8. ASSUME NEW l \in Listers, Delete(l) PROVE UNCHANGED fresh
  BY <1>8 DEF Delete
<1>9. QED
  BY <1>3, <1>4, <1>5, <1>6, <1>7, <1>8 DEF Next, Listing, Renaming, Uploading, vars,
     ChooseDelete, SetFolder, ListRows, Scan, GiveUp, Rescan, Accept, Install, StartRename,
     MoveIdentity, StartUpload, Transfer, Persist, Announce

\* Whatever is seen is seen on disk.
LEMMA SeenStep ==
  ASSUME Typed, FiniteInv, LockInv, SeenInv, [Next]_vars
  PROVE  SeenInv'
<1>1. fresh' \subseteq fresh
  BY FileStep
<1>2. \A i \in DOMAIN infos' : infos'[i].rec \notin fresh'
  BY <1>1, RecStep DEF SeenInv
<1>3. \A v \in DOMAIN videos' : videos'[v] \notin fresh'
  BY <1>1, VideoStep DEF SeenInv
<1>4. \A l \in Listers : \A e \in Found(lister'[l]) : e.rec \notin fresh'
  BY <1>1, FoundStep DEF SeenInv
<1>5. QED
  BY <1>2, <1>3, <1>4, FileStep DEF SeenInv

-----------------------------------------------------------------------------
(* The store and the rows hold links of their own recordings *)

\* A link of the videos after a step.
StillLinked(link, rec) ==
    link = NoVideo \/ (link \in DOMAIN videos' /\ (strayed' \/ videos'[link] = rec))

\* A link stays one as videos are added.
LEMMA LinkedStep ==
  ASSUME Typed, LockInv, [Next]_vars
  PROVE  \A link, rec : Linked(link, rec) => StillLinked(link, rec)
BY VideoStep, StrayedStep DEF Linked, MadeFrom, StillLinked

\* What the store answers with is a link of the recording asked for.
LEMMA LookupLinked ==
  ASSUME Typed, StoreInv, NEW n \in Names, NEW rec \in Recordings
  PROVE  Linked(Lookup(n, rec), rec)
<1>1. CASE store[n] = NoEntry
  BY <1>1, RecordingsAssumption DEF NoEntry, Lookup, Linked
<1>2. CASE MadeFrom(store[n].video, store[n].rec)
  BY <1>2 DEF Lookup, Linked
<1>3. QED
  BY <1>1, <1>2 DEF StoreInv

\* The store holds links only, and the last video is that of the row in hand.
LEMMA StoreStep ==
  ASSUME Typed, FiniteInv, LockInv, StoreInv, [Next]_vars
  PROVE  StoreInv'
<1> DEFINE Good(n) == store[n] = NoEntry \/ /\ store[n].rec \in Recordings
                                            /\ MadeFrom(store[n].video, store[n].rec)
           Last == uploader.pc \in {"persist", "announce"} =>
                      MadeFrom(Len(videos), infos[uploader.id].rec)
<1>1. (\A n \in Names : Good(n)) /\ Last
  BY DEF StoreInv
<1>2. \A n \in Names : Good(n)'
  <2>1. CASE UNCHANGED store
    BY <1>1, <2>1, VideoStep, StrayedStep DEF MadeFrom
  <2>2. CASE MoveIdentity
    <3>1. UNCHANGED <<videos, strayed>>
      BY <2>2 DEF MoveIdentity
    <3>2. /\ renamer.from \in Names /\ renamer.to \in Names
          /\ store' = MoveEntry(renamer.from, renamer.to)
      BY <2>2, MoveIdentityFacts
    <3>3. \A n \in Names : store'[n] = NoEntry \/ \E m \in Names : store'[n] = store[m]
      BY <3>2 DEF MoveEntry, Typed
    <3>4. QED
      BY <1>1, <3>1, <3>3 DEF MadeFrom
  <2>3. CASE Persist
    <3> DEFINE info == infos[uploader.id]
               e == [rec |-> info.rec, video |-> Len(videos)]
    <3>1. /\ uploader.pc = "persist" /\ info.name \in Names /\ info.rec \in Recordings
          /\ store' = [store EXCEPT ![info.name] = e]
      BY <2>3, PersistFacts
    <3>2. UNCHANGED <<videos, strayed>>
      BY <2>3 DEF Persist
    <3>3. e.rec \in Recordings /\ MadeFrom(e.video, e.rec)
      BY <1>1, <3>1
    <3> HIDE DEF e
    <3>4. \A n \in Names : store'[n] = store[n] \/ store'[n] = e
      BY <3>1 DEF Typed
    <3>5. QED
      BY <1>1, <3>2, <3>3, <3>4 DEF MadeFrom
  <2>4. QED
    BY <2>1, <2>2, <2>3 DEF Next, Listing, Renaming, Uploading, vars, NewRecording,
       ChooseDelete, Delete, SetFolder, ListRows, Scan, GiveUp, Rescan, Accept, Install,
       StartRename, MoveFile, StartUpload, Transfer, Announce
<1>3. Last'
  <2>1. SUFFICES ASSUME uploader'.pc \in {"persist", "announce"} PROVE Last'
    OBVIOUS
  <2>2. CASE Transfer
    <3>1. /\ Len(videos') = Len(videos) + 1 /\ DOMAIN videos' = 1..Len(videos) + 1
          /\ videos'[Len(videos) + 1] = file[infos[uploader.id].name]
          /\ strayed' \/ file[infos[uploader.id].name] = infos[uploader.id].rec
          /\ uploader'.id = uploader.id /\ infos' = infos
      BY <2>1, <2>2, TransferFacts
    <3>2. Len(videos) \in Nat
      BY LenProperties DEF Typed
    <3>3. QED
      BY <3>1, <3>2 DEF MadeFrom
  <2>3. CASE Persist
    <3>1. /\ uploader.pc = "persist" /\ uploader'.id = uploader.id
          /\ UNCHANGED <<videos, infos, strayed>>
      BY <2>3, PersistFacts DEF Persist
    <3>2. QED
      BY <1>1, <3>1 DEF MadeFrom
  <2>4. CASE UNCHANGED <<uploader, videos>>
    <3>1. uploader.id \in DOMAIN infos' /\ uploader.id \in Captured
      BY <2>1, <2>4, HeldFacts DEF Captured, busy
    <3>2. infos'[uploader.id].rec = infos[uploader.id].rec
      BY <3>1, RecStep
    <3>3. QED
      BY <1>1, <2>1, <2>4, <3>2, StrayedStep DEF MadeFrom
  <2>5. CASE Announce
    BY <2>1, <2>5, AnnounceFacts
  <2>6. ASSUME NEW i \in Ids, StartUpload(i) PROVE FALSE
    BY <2>1, <2>6 DEF StartUpload
  <2>7. QED
    BY <2>2, <2>3, <2>4, <2>5, <2>6 DEF Next, Listing, Renaming, Uploading, vars,
       NewRecording, ChooseDelete, Delete, SetFolder, ListRows, Scan, GiveUp, Rescan, Accept,
       Install, StartRename, MoveFile, MoveIdentity
<1>4. QED
  BY <1>2, <1>3 DEF StoreInv

\* A row that is there already keeps its recording.
LEMMA OldRecStep ==
  ASSUME Typed, FiniteInv, LockInv, [Next]_vars, NEW i \in Ids, DOMAIN rows' = DOMAIN rows
  PROVE  i \in DOMAIN infos' /\ infos'[i].rec = infos[i].rec
<1>1. i \in DOMAIN infos /\ i \in DOMAIN infos'
  BY TypedStep DEF Typed, Ids
<1>2. ASSUME NEW l \in Listers, Install(l), i \in DOMAIN rows' PROVE FALSE
  <2>1. DOMAIN rows' \subseteq minted + 1 .. minted' /\ minted' \in Nat /\ minted \in Nat
    BY <1>2, InstallFacts DEF Typed
  <2>2. i \in 1..minted
    BY <1>1 DEF Typed, Minted
  <2>3. QED
    BY <1>2, <2>1, <2>2
<1>3. QED
  BY <1>1, <1>2, RecStep DEF Ids

\* A row shows a video of its own recording.
LEMMA RowStep ==
  ASSUME Typed, FiniteInv, LockInv, StoreInv, RowInv, [Next]_vars
  PROVE  RowInv'
<1>1. \A i \in Ids' : StillLinked(rows'[i], infos'[i].rec)
  <2>1. CASE UNCHANGED rows
    BY <2>1, OldRecStep, LinkedStep DEF RowInv, Ids
  <2>2. CASE Announce
    <3>1. /\ DOMAIN rows' = Ids /\ uploader.pc = "announce"
          /\ \A i \in Ids : rows'[i] = rows[i] \/ (i = uploader.id /\ rows'[i] = Len(videos))
      BY <2>2, AnnounceFacts
    <3>2. Linked(Len(videos), infos[uploader.id].rec)
      BY <3>1 DEF StoreInv, Linked
    <3>3. \A i \in Ids : Linked(rows'[i], infos[i].rec)
      BY <3>1, <3>2 DEF RowInv
    <3>4. QED
      BY <3>1, <3>3, OldRecStep, LinkedStep DEF Ids
  <2>3. ASSUME NEW l \in Listers, Install(l)
        PROVE  \A i \in Ids' : StillLinked(rows'[i], infos'[i].rec)
    <3>1. /\ lister[l].pc = "install"
          /\ \A i \in DOMAIN rows' : \E e \in lister[l].found :
                infos'[i] = e.info /\ rows'[i] = e.link
      BY <2>3, InstallFacts
    <3>2. \A i \in DOMAIN rows' : Linked(rows'[i], infos'[i].rec)
      BY <3>1 DEF RowInv
    <3>3. QED
      BY <3>2, LinkedStep DEF Ids
  <2>4. QED
    BY <2>1, <2>2, <2>3 DEF Next, Listing, Renaming, Uploading, vars, NewRecording,
       ChooseDelete, Delete, SetFolder, ListRows, Scan, GiveUp, Rescan, Accept, StartRename,
       MoveFile, MoveIdentity, StartUpload, Transfer, Persist
<1>2. \A l \in Listers : lister'[l].pc = "install" =>
         \A e \in lister'[l].found : StillLinked(e.link, e.info.rec)
  <2>1. \A l \in Listers : lister[l].pc = "install" =>
           \A e \in lister[l].found : StillLinked(e.link, e.info.rec)
    BY LinkedStep DEF RowInv
  <2>2. CASE UNCHANGED lister
    BY <2>1, <2>2
  <2>3. ASSUME NEW l \in Listers, NEW t \in ListerS, lister' = [lister EXCEPT ![l] = t],
               t.pc = "install" => \A e \in t.found : StillLinked(e.link, e.info.rec)
        PROVE  \A m \in Listers : lister'[m].pc = "install" =>
                  \A e \in lister'[m].found : StillLinked(e.link, e.info.rec)
    BY <2>1, <2>3, SetLister
  <2>4. ASSUME NEW l \in Listers, Rests(l)
        PROVE  \E t \in ListerS : lister' = [lister EXCEPT ![l] = t] /\ t.pc # "install"
    BY <2>4, RestsFacts, RestFacts
  <2>5. ASSUME NEW l \in Listers, ListRows(l) \/ Scan(l) \/ Rescan(l)
        PROVE  \E t \in ListerS : lister' = [lister EXCEPT ![l] = t] /\ t.pc # "install"
    <3>1. \E t \in ScanS : lister' = [lister EXCEPT ![l] = t]
      BY <2>5, ListRowsFacts, ScanFacts, RescanFacts
    <3>2. \A t \in ScanS : t \in ListerS /\ t.pc # "install"
      BY DEF ListerS, ScanS
    <3>3. QED
      BY <3>1, <3>2
  <2>6. ASSUME NEW l \in Listers, Accept(l)
        PROVE  \E t \in ListerS : /\ lister' = [lister EXCEPT ![l] = t]
                                  /\ \A e \in t.found : StillLinked(e.link, e.info.rec)
    <3>1. PICK t \in InstallS :
             /\ lister' = [lister EXCEPT ![l] = t] /\ lister[l].found \in SUBSET Info
             /\ t.found = {[info |-> i, link |-> Lookup(i.name, i.rec)] : i \in lister[l].found}
      BY <2>6, AcceptFacts
    <3>2. \A i \in lister[l].found : i.name \in Names /\ i.rec \in Recordings
      BY <3>1 DEF Info
    <3>3. \A i \in lister[l].found : Linked(Lookup(i.name, i.rec), i.rec)
      BY <3>2, LookupLinked
    <3>4. \A e \in t.found : Linked(e.link, e.info.rec)
      BY <3>1, <3>3
    <3>5. QED
      BY <3>1, <3>4, LinkedStep DEF ListerS
  <2>7. QED
    BY <2>2, <2>3, <2>4, <2>5, <2>6, ListerSteps
<1>3. QED
  BY <1>1, <1>2 DEF RowInv, Linked, MadeFrom, StillLinked

-----------------------------------------------------------------------------
(* Names follow files *)

\* A row that is held keeps its name too, but for a rename's and an install's.
LEMMA InfoStep ==
  ASSUME Typed, FiniteInv, LockInv, [Next]_vars, NEW i \in DOMAIN infos'
  PROVE  \/ i \in DOMAIN infos /\ infos'[i] = infos[i]
         \/ \E l \in Listers : /\ Install(l) /\ lister[l].pc = "install"
                               /\ infos'[i] \in Found(lister[l])
         \/ MoveIdentity
<1>1. CASE UNCHANGED infos
  BY <1>1
<1>2. ASSUME NEW l \in Listers, Install(l)
      PROVE  \/ i \in DOMAIN infos /\ infos'[i] = infos[i]
             \/ lister[l].pc = "install" /\ infos'[i] \in Found(lister[l])
  BY <1>2, InstallFacts DEF Found
<1>3. CASE infos' = Restrict(infos, Ids \cup ToDelete)
  BY <1>3, LetGoFacts
<1>4. QED
  BY <1>1, <1>2, <1>3 DEF Next, Listing, Renaming, Uploading, vars, Transfer,
     NewRecording, ChooseDelete, Delete, SetFolder, ListRows, Scan, GiveUp, Rescan, Accept,
     StartRename, MoveFile, StartUpload, Persist, Announce

\* What is at a name was there before, unless it is new or a rename has moved it.
LEMMA FileBack ==
  ASSUME Typed, LockInv, SeenInv, [Next]_vars, NEW n \in Names, NEW rec \in Recordings,
         rec \notin fresh, file'[n] = rec
  PROVE  \/ /\ file[n] = rec
            /\ MoveFile /\ renamer'.pc = "moved" => n # renamer.from /\ n # renamer.to
         \/ /\ MoveFile /\ renamer'.pc = "moved" /\ n = renamer.to
            /\ file[renamer.from] = rec
<1>1. rec # NoRec
  BY RecordingsAssumption
<1>2. CASE MoveFile
  <2>1. CASE renamer'.pc = "idle" /\ UNCHANGED file
    BY <2>1
  <2>2. CASE /\ file' = [file EXCEPT ![renamer.from] = NoRec,
                                     ![renamer.to] = file[renamer.from]]
             /\ renamer'.pc = "moved"
    <3>1. renamer.from \in Names /\ renamer.to \in Names
      BY <1>2, MoveFileFacts, WorkerFacts DEF Typed
    <3>2. file'[n] = IF n = renamer.to THEN file[renamer.from]
                     ELSE IF n = renamer.from THEN NoRec ELSE file[n]
      BY <2>2, <3>1 DEF Typed, Files
    <3>3. QED
      BY <1>1, <1>2, <2>2, <3>2
  <2>3. QED
    BY <1>2, <2>1, <2>2, MoveFileFacts
<1>3. ASSUME NEW k \in Names, NEW r \in Recordings, NewRecording(k, r) PROVE file[n] = rec
  BY <1>3 DEF NewRecording, Typed, Files
<1>4. ASSUME NEW l \in Listers, Delete(l) PROVE file[n] = rec
  BY <1>1, <1>4 DEF Delete, Typed, Files
<1>5. CASE UNCHANGED file /\ ~MoveFile
  BY <1>5
<1>6. CASE UNCHANGED renamer
  <2>1. ~(MoveFile /\ renamer'.pc = "moved")
    BY <1>6 DEF MoveFile
  <2>2. QED
    BY <1>2, <1>3, <1>4, <1>5, <2>1 DEF Next, Listing, Renaming, Uploading, vars,
       ChooseDelete, SetFolder, ListRows, Scan, GiveUp, Rescan, Accept, Install, StartRename,
       MoveIdentity, StartUpload, Transfer, Persist, Announce
<1>7. CASE ~UNCHANGED renamer
  BY <1>2, <1>5, <1>7 DEF Next, Listing, Renaming, Uploading, vars, NewRecording, Delete,
     ChooseDelete, SetFolder, ListRows, Scan, GiveUp, Rescan, Accept, Install, StartRename,
     MoveIdentity, StartUpload, Transfer, Persist, Announce
<1>8. QED
  BY <1>6, <1>7

\* A rename in hand was begun or moved its file in this step, or nothing was done about it
\* and no snapshot was installed.
LEMMA RenamerStep ==
  ASSUME Typed, LockInv, [Next]_vars, renamer'.pc # "idle"
  PROVE  \/ /\ renamer'.pc = "checked" /\ UNCHANGED <<file, infos>>
            /\ file[renamer'.to] = NoRec /\ renamer'.to \in Names
         \/ /\ MoveFile /\ renamer'.pc = "moved" /\ UNCHANGED infos
            /\ renamer'.id = renamer.id /\ renamer'.from = renamer.from
            /\ renamer'.to = renamer.to /\ renamer'.from # renamer'.to
            /\ renamer'.from \in Names /\ renamer'.to \in Names
            /\ file'[renamer'.from] = NoRec
         \/ /\ UNCHANGED renamer /\ ~MoveFile /\ ~MoveIdentity
            /\ \A l \in Listers : ~Install(l)
<1>1. ASSUME NEW i \in Ids, NEW to \in Names, StartRename(i, to)
      PROVE  /\ renamer'.pc = "checked" /\ UNCHANGED <<file, infos>>
             /\ file[renamer'.to] = NoRec /\ renamer'.to \in Names
  BY <1>1, StartRenameFacts DEF StartRename
<1>2. CASE MoveFile
  <2>1. UNCHANGED infos
    BY <1>2 DEF MoveFile
  <2>2. renamer.from \in Names /\ renamer.to \in Names /\ renamer.from # renamer.to
    BY <1>2, MoveFileFacts, WorkerFacts DEF Typed, LockInv
  <2>3. /\ file' = [file EXCEPT ![renamer.from] = NoRec, ![renamer.to] = file[renamer.from]]
        /\ renamer'.pc = "moved" /\ renamer'.id = renamer.id
        /\ renamer'.from = renamer.from /\ renamer'.to = renamer.to
    BY <1>2, MoveFileFacts
  <2>4. file'[renamer'.from] = NoRec
    BY <2>2, <2>3 DEF Typed, Files
  <2>5. QED
    BY <1>2, <2>1, <2>2, <2>3, <2>4
<1>3. CASE UNCHANGED renamer
  <2>1. ~MoveFile
    BY <1>3, MoveFileFacts
  <2>2. ~MoveIdentity
    BY <1>3, MoveIdentityFacts
  <2>3. ASSUME NEW l \in Listers, Install(l) PROVE FALSE
    BY <1>3, <2>3 DEF LockInv, Install
  <2>4. QED
    BY <1>3, <2>1, <2>2, <2>3
<1>4. CASE MoveIdentity
  BY <1>4, MoveIdentityFacts
<1>5. QED
  BY <1>1, <1>2, <1>3, <1>4 DEF Next, Listing, Renaming, Uploading, vars, NewRecording,
     Delete, ChooseDelete, SetFolder, ListRows, Scan, GiveUp, Rescan, Accept, Install,
     StartUpload, Transfer, Persist, Announce

\* What may be installed: it is about to be, or no rename has gone through it.
Sound(x) == x.pc = "install" \/ (Scanning(x) /\ x.revision = revision)

\* No scan is ahead of the renames.
LEMMA RevisionStep ==
  ASSUME Typed, NameInv, [Next]_vars
  PROVE  /\ revision <= revision'
         /\ \A l \in Listers : Scanning(lister'[l]) => lister'[l].revision <= revision'
<1>1. revision \in Nat /\ revision' \in Nat /\ revision <= revision'
  <2>1. revision \in Nat
    BY DEF Typed
  <2>2. revision' = revision \/ revision' = revision + 1
    BY MoveFileFacts DEF Next, Listing, Renaming, Uploading, vars, NewRecording,
       Delete, ChooseDelete, SetFolder, ListRows, Scan, GiveUp, Rescan, Accept, Install,
       StartRename, MoveIdentity, StartUpload, Transfer, Persist, Announce
  <2>3. QED
    BY <2>1, <2>2
<1>2. \A l \in Listers : Scanning(lister[l]) => /\ lister[l].revision <= revision'
                                                /\ lister[l].revision \in Nat
  BY <1>1, ListerFacts DEF NameInv, Typed
<1>3. CASE UNCHANGED lister
  BY <1>1, <1>2, <1>3
<1>4. ASSUME NEW l \in Listers, NEW t \in ListerS, lister' = [lister EXCEPT ![l] = t],
             Scanning(t) => t.revision <= revision'
      PROVE  \A m \in Listers : Scanning(lister'[m]) => lister'[m].revision <= revision'
  BY <1>2, <1>4, SetLister
<1>5. ASSUME NEW l \in Listers, Rests(l)
      PROVE  \E t \in ListerS : lister' = [lister EXCEPT ![l] = t] /\ ~Scanning(t)
  BY <1>5, RestsFacts, RestFacts
<1>6. ASSUME NEW l \in Listers, ListRows(l) \/ Rescan(l)
      PROVE  \E t \in ListerS : /\ lister' = [lister EXCEPT ![l] = t]
                                /\ Scanning(t) => t.revision <= revision'
  <2>1. \E t \in ScanS : lister' = [lister EXCEPT ![l] = t] /\ t.revision = revision
    BY <1>6, ListRowsFacts, RescanFacts
  <2>2. QED
    BY <1>1, <2>1 DEF ListerS
<1>7. ASSUME NEW l \in Listers, Scan(l)
      PROVE  \E t \in ListerS : /\ lister' = [lister EXCEPT ![l] = t]
                                /\ Scanning(t) => t.revision <= revision'
  <2>1. \E t \in ScanS : /\ lister' = [lister EXCEPT ![l] = t] /\ lister[l].pc = "scan"
                         /\ t.revision = lister[l].revision
    BY <1>7, ScanFacts
  <2>2. QED
    BY <1>2, <2>1 DEF ListerS, Scanning
<1>8. ASSUME NEW l \in Listers, Accept(l)
      PROVE  \E t \in ListerS : lister' = [lister EXCEPT ![l] = t] /\ ~Scanning(t)
  <2>1. \E t \in InstallS : lister' = [lister EXCEPT ![l] = t]
    BY <1>8, AcceptFacts
  <2>2. QED
    BY <2>1 DEF ListerS, InstallS, Scanning
<1>9. QED
  BY <1>1, <1>3, <1>4, <1>5, <1>6, <1>7, <1>8, ListerSteps


\* Where the renames have got to.
LEMMA RevisionFacts ==
  ASSUME Typed, [Next]_vars
  PROVE  /\ revision \in Nat
         /\ UNCHANGED revision \/ (MoveFile /\ revision' = revision + 1 /\ UNCHANGED lister)
         /\ MoveFile /\ renamer'.pc = "moved" => revision' = revision + 1
<1>1. revision \in Nat
  BY DEF Typed
<1>2. CASE MoveFile
  <2>1. UNCHANGED lister
    BY <1>2 DEF MoveFile
  <2>2. QED
    BY <1>1, <1>2, <2>1, MoveFileFacts
<1>3. CASE ~MoveFile
  <2>1. UNCHANGED revision
    BY <1>3 DEF Next, Listing, Renaming, Uploading, vars, NewRecording,
       Delete, ChooseDelete, SetFolder, ListRows, Scan, GiveUp, Rescan, Accept, Install,
       StartRename, MoveIdentity, StartUpload, Transfer, Persist, Announce
  <2>2. QED
    BY <1>1, <1>3, <2>1
<1>4. QED
  BY <1>2, <1>3

\* What is sound after a step was so before it, and no file was moved in between.
LEMMA SoundStep ==
  ASSUME Typed, FiniteInv, LockInv, NameInv, [Next]_vars, NEW m \in Listers,
         lister'[m].pc = "install" \/ (Scanning(lister'[m]) /\ lister'[m].revision = revision'),
         NEW e \in Found(lister'[m])
  PROVE  Sound(lister[m]) /\ ~(MoveFile /\ renamer'.pc = "moved")
<1>1. CASE UNCHANGED lister
  <2>1. CASE MoveFile /\ renamer'.pc = "moved"
    <3>1. renamer.pc = "checked"
      BY <2>1, MoveFileFacts
    <3>2. lister[m].pc # "install"
      BY <3>1 DEF LockInv
    <3>3. Scanning(lister[m]) => lister[m].revision \in Nat /\ lister[m].revision <= revision
      BY ListerFacts DEF NameInv, Typed
    <3>4. QED
      BY <1>1, <2>1, <3>2, <3>3, RevisionFacts
  <2>2. CASE ~(MoveFile /\ renamer'.pc = "moved")
    <3>1. CASE MoveFile
      BY <1>1, <2>2, <3>1, MoveFileFacts DEF Sound
    <3>2. CASE ~MoveFile
      BY <1>1, <2>2, <3>2, RevisionFacts DEF Sound
    <3>3. QED
      BY <3>1, <3>2
  <2>3. QED
    BY <2>1, <2>2
<1>2. ASSUME NEW l \in Listers, NEW t \in ListerS, lister' = [lister EXCEPT ![l] = t],
             Sound(lister[l]) \/ Found(t) = {}, lister' # lister
      PROVE  Sound(lister[m]) /\ ~(MoveFile /\ renamer'.pc = "moved")
  <2>1. UNCHANGED revision /\ ~(MoveFile /\ renamer'.pc = "moved")
    BY <1>2, RevisionFacts DEF MoveFile
  <2>2. CASE m = l
    BY <1>2, <2>1, <2>2, SetLister
  <2>3. CASE m # l
    BY <1>2, <2>1, <2>3, SetLister DEF Sound
  <2>4. QED
    BY <2>2, <2>3
<1>3. ASSUME NEW l \in Listers, Rests(l)
      PROVE  \E t \in ListerS : lister' = [lister EXCEPT ![l] = t] /\ Found(t) = {}
  BY <1>3, RestsFacts, RestFacts
<1>4. ASSUME NEW l \in Listers, ListRows(l) \/ Rescan(l)
      PROVE  \E t \in ListerS : lister' = [lister EXCEPT ![l] = t] /\ Found(t) = {}
  <2>1. \E t \in ScanS : lister' = [lister EXCEPT ![l] = t] /\ t.found = {}
    BY <1>4, ListRowsFacts, RescanFacts
  <2>2. \A t \in ScanS : t \in ListerS /\ t.pc # "install"
    BY DEF ListerS, ScanS
  <2>3. QED
    BY <2>1, <2>2 DEF Found
<1>5. ASSUME NEW l \in Listers, Accept(l)
      PROVE  \E t \in ListerS : lister' = [lister EXCEPT ![l] = t] /\ Sound(lister[l])
  <2>1. \E t \in InstallS : lister' = [lister EXCEPT ![l] = t]
    BY <1>5, AcceptFacts
  <2>2. Sound(lister[l])
    BY <1>5 DEF Accept, Sound, Scanning
  <2>3. QED
    BY <2>1, <2>2 DEF ListerS
<1>6. ASSUME NEW l \in Listers, Scan(l), lister' # lister
      PROVE  Sound(lister[m]) /\ ~(MoveFile /\ renamer'.pc = "moved")
  <2>1. PICK t \in ScanS : /\ lister' = [lister EXCEPT ![l] = t] /\ lister[l].pc = "scan"
                           /\ t.revision = lister[l].revision
    BY <1>6, ScanFacts
  <2>2. UNCHANGED revision /\ ~(MoveFile /\ renamer'.pc = "moved")
    BY <1>6, RevisionFacts DEF MoveFile
  <2>3. t \in ListerS /\ t.pc # "install"
    BY DEF ListerS, ScanS
  <2>4. CASE m = l
    BY <2>1, <2>2, <2>3, <2>4, SetLister DEF Sound, Scanning
  <2>5. CASE m # l
    BY <2>1, <2>2, <2>3, <2>5, SetLister DEF Sound
  <2>6. QED
    BY <2>4, <2>5
<1>7. QED
  BY <1>1, <1>2, <1>3, <1>4, <1>5, <1>6, ListerSteps

\* What may be installed fits the names on disk.
LEMMA FoundFitsStep ==
  ASSUME Typed, FiniteInv, LockInv, SeenInv, NameInv, [Next]_vars, NEW m \in Listers,
         lister'[m].pc = "install" \/ (Scanning(lister'[m]) /\ lister'[m].revision = revision'),
         NEW e \in Found(lister'[m]), NEW n \in Names, file'[n] = e.rec
  PROVE  e.name = n
<1>1. Sound(lister[m]) /\ ~(MoveFile /\ renamer'.pc = "moved")
  BY SoundStep
<1>2. CASE e \in Found(lister[m])
  <2>1. e \in Info /\ e.rec \notin fresh
    BY <1>2, FoundType DEF Typed, SeenInv
  <2>2. e.rec \in Recordings
    BY <2>1 DEF Info
  <2>3. file[n] = e.rec
    BY <1>1, <2>1, <2>2, FileBack
  <2>4. QED
    BY <1>1, <1>2, <2>3 DEF NameInv, Sound, Fits
<1>3. ASSUME NEW k \in Names, Scan(m), file[k] # NoRec, e = [name |-> k, rec |-> file[k]]
      PROVE  e.name = n
  BY <1>3 DEF Scan, SeenInv
<1>4. QED
  BY <1>2, <1>3, FoundStep

\* The name a rename has left, or will give, is that of no row's recording.
LEMMA RenamerNamesStep ==
  ASSUME Typed, FiniteInv, LockInv, SeenInv, NameInv, [Next]_vars
  PROVE  /\ renamer'.pc = "checked" => \A i \in DOMAIN infos' : file'[renamer'.to] # infos'[i].rec
         /\ renamer'.pc = "moved" => \A i \in DOMAIN infos' : file'[renamer'.from] # infos'[i].rec
<1>1. SUFFICES ASSUME renamer'.pc # "idle", NEW i \in DOMAIN infos'
               PROVE  /\ renamer'.pc = "checked" => file'[renamer'.to] # infos'[i].rec
                      /\ renamer'.pc = "moved" => file'[renamer'.from] # infos'[i].rec
  BY TypedStep
<1>2. Typed' /\ infos'[i] \in Info
  BY TypedStep DEF Typed
<1>3. infos'[i].rec \in Recordings /\ infos'[i].rec # NoRec
  BY <1>2, RecordingsAssumption DEF Info
<1>4. CASE renamer'.pc = "checked" /\ UNCHANGED <<file, infos>> /\ file[renamer'.to] = NoRec
  BY <1>3, <1>4
<1>5. CASE renamer'.pc = "moved" /\ file'[renamer'.from] = NoRec
  BY <1>3, <1>5
<1>6. CASE UNCHANGED renamer /\ ~MoveFile /\ ~MoveIdentity /\ \A l \in Listers : ~Install(l)
  <2>1. i \in DOMAIN infos /\ infos'[i] = infos[i]
    BY <1>6, InfoStep
  <2>2. infos[i].rec \in Recordings /\ infos[i].rec \notin fresh
    BY <1>3, <2>1 DEF SeenInv
  <2>3. renamer.from \in Names /\ renamer.to \in Names
    BY <1>1, <1>6, WorkerFacts DEF Typed
  <2>4. \A n \in Names : file'[n] = infos[i].rec => file[n] = infos[i].rec
    BY <1>6, <2>2, FileBack
  <2>5. QED
    BY <1>6, <2>1, <2>3, <2>4 DEF NameInv, Moved
<1>7. QED
  BY <1>1, <1>4, <1>5, <1>6, RenamerStep

\* A rename carries the rows of its recording along.
LEMMA InfoFitsStep ==
  ASSUME Typed, FiniteInv, LockInv, SeenInv, NameInv, [Next]_vars, ~strayed',
         NEW i \in DOMAIN infos', NEW n \in Names, file'[n] = infos'[i].rec
  PROVE  IF renamer'.pc = "moved" /\ n = renamer'.to
         THEN infos'[i].name = renamer'.from /\ infos'[i].rec = infos'[renamer'.id].rec
         ELSE infos'[i].name = n
<1> DEFINE Goal == IF renamer'.pc = "moved" /\ n = renamer'.to
                   THEN infos'[i].name = renamer'.from /\ infos'[i].rec = infos'[renamer'.id].rec
                   ELSE infos'[i].name = n
<1>1. ~strayed
  BY DEF Next, Listing, Renaming, Uploading, vars, NewRecording,
     Delete, ChooseDelete, SetFolder, ListRows, Scan, GiveUp, Rescan, Accept, Install,
     StartRename, MoveFile, MoveIdentity, StartUpload, Transfer, Persist, Announce
<1>2. \A j \in DOMAIN infos, k \in Names :
         IF Moved /\ k = renamer.to
         THEN file[k] = infos[j].rec => /\ infos[j].name = renamer.from
                                        /\ infos[j].rec = infos[renamer.id].rec
         ELSE file[k] = infos[j].rec => infos[j].name = k
  BY <1>1 DEF NameInv, Fits
<1>3. Typed' /\ infos'[i] \in Info
  BY TypedStep DEF Typed
<1>4. infos'[i].rec \in Recordings /\ infos'[i].rec # NoRec
  BY <1>3, RecordingsAssumption DEF Info
<1>5. ASSUME NEW l \in Listers, Install(l), lister[l].pc = "install",
             infos'[i] \in Found(lister[l])
      PROVE  Goal
  <2>1. UNCHANGED <<file, renamer>>
    BY <1>5 DEF Install
  <2>2. renamer.pc = "idle"
    BY <1>5 DEF LockInv
  <2>3. infos'[i].name = n
    BY <1>5, <2>1 DEF NameInv, Fits
  <2>4. QED
    BY <2>1, <2>2, <2>3
<1>6. CASE MoveIdentity
  <2>1. /\ renamer.pc = "moved" /\ renamer'.pc = "idle" /\ i \in DOMAIN infos
        /\ infos'[i].rec = infos[i].rec
        /\ infos'[i].name = IF Repointed(i) THEN renamer.to ELSE infos[i].name
    BY <1>6, MoveIdentityFacts
  <2>2. UNCHANGED file
    BY <1>6 DEF MoveIdentity
  <2>3. infos[i] \in Info /\ renamer.id \in DOMAIN infos
    BY <2>1 DEF Typed, LockInv
  <2>4. CASE n = renamer.to
    <3>1. infos[i].name = renamer.from /\ infos[i].rec = infos[renamer.id].rec
      BY <1>2, <2>1, <2>2, <2>4 DEF Moved
    <3>2. infos[i] = [name |-> renamer.from, rec |-> infos[renamer.id].rec]
      BY <2>3, <3>1 DEF Info
    <3>3. QED
      BY <2>1, <2>4, <3>2 DEF Repointed
  <2>5. CASE n # renamer.to
    <3>1. infos[i].name = n /\ file[n] = infos[i].rec
      BY <1>2, <2>1, <2>2, <2>5
    <3>2. n # renamer.from
      BY <2>1, <3>1 DEF NameInv, Moved
    <3>3. ~Repointed(i)
      BY <2>1, <3>1, <3>2 DEF Repointed, LockInv
    <3>4. QED
      BY <2>1, <3>1, <3>3
  <2>6. QED
    BY <2>4, <2>5
<1>7. CASE i \in DOMAIN infos /\ infos'[i] = infos[i] /\ ~MoveIdentity
  <2>1. infos[i].rec \in Recordings /\ infos[i].rec \notin fresh
    BY <1>4, <1>7 DEF SeenInv
  <2>2. CASE MoveFile /\ renamer'.pc = "moved"
    <3>1. /\ renamer.pc = "checked" /\ renamer'.id = renamer.id
          /\ renamer'.from = renamer.from /\ renamer'.to = renamer.to
          /\ strayed' = (strayed \/ file[renamer.from] # infos[renamer.id].rec)
      BY <2>2, MoveFileFacts
    <3>2. UNCHANGED infos /\ renamer.from \in Names
      BY <2>2, <3>1, WorkerFacts DEF MoveFile, Typed
    <3>3. file[renamer.from] = infos[renamer.id].rec
      BY <3>1
    <3>4. CASE n = renamer.to
      <4>1. file[renamer.from] = infos[i].rec
        BY <1>7, <2>1, <2>2, <3>4, FileBack
      <4>2. infos[i].name = renamer.from
        BY <1>2, <1>7, <3>1, <3>2, <4>1 DEF Moved
      <4>3. QED
        BY <2>2, <3>1, <3>2, <3>3, <3>4, <4>1, <4>2
    <3>5. CASE n # renamer.to
      <4>1. file[n] = infos[i].rec
        BY <1>7, <2>1, <3>5, FileBack
      <4>2. QED
        BY <1>2, <1>7, <3>1, <3>5, <4>1 DEF Moved
    <3>6. QED
      BY <3>4, <3>5
  <2>3. CASE ~(MoveFile /\ renamer'.pc = "moved")
    <3>1. file[n] = infos[i].rec
      BY <1>7, <2>1, <2>3, FileBack
    <3>2. CASE renamer'.pc = "moved"
      <4>1. UNCHANGED renamer /\ \A l \in Listers : ~Install(l)
        BY <2>3, <3>2, RenamerStep
      <4>2. renamer.id \in DOMAIN infos' /\ renamer.id \in DOMAIN infos
        BY <3>2, <4>1, <1>3, RenameStep DEF Typed, Ids, LockInv
      <4>3. infos'[renamer.id] = infos[renamer.id]
        BY <1>7, <4>1, <4>2, InfoStep
      <4>4. QED
        BY <1>2, <1>7, <3>1, <3>2, <4>1, <4>3 DEF Moved
    <3>3. CASE renamer'.pc # "moved"
      <4>1. ~Moved \/ MoveIdentity
        BY <3>3 DEF Moved, Next, Listing, Renaming, Uploading, vars, NewRecording,
           Delete, ChooseDelete, SetFolder, ListRows, Scan, GiveUp, Rescan, Accept, Install,
           StartRename, PublicationFree, MoveFile, StartUpload, Transfer, Persist, Announce
      <4>2. QED
        BY <1>2, <1>7, <3>1, <3>3, <4>1
    <3>4. QED
      BY <3>2, <3>3
  <2>4. QED
    BY <2>2, <2>3
<1>8. QED
  BY <1>5, <1>6, <1>7, InfoStep

\* Names follow files through every step.
LEMMA NameStep ==
  ASSUME Typed, FiniteInv, LockInv, SeenInv, NameInv, [Next]_vars
  PROVE  NameInv'
<1>1. \A l \in Listers : Scanning(lister'[l]) => lister'[l].revision <= revision'
  BY RevisionStep
<1>2. \A l \in Listers :
         lister'[l].pc = "install" \/ (Scanning(lister'[l]) /\ lister'[l].revision = revision')
         => \A e \in Found(lister'[l]), n \in Names : file'[n] = e.rec => e.name = n
  BY FoundFitsStep
<1>3. ~strayed' => \A i \in DOMAIN infos', n \in Names :
         IF renamer'.pc = "moved" /\ n = renamer'.to
         THEN file'[n] = infos'[i].rec => /\ infos'[i].name = renamer'.from
                                          /\ infos'[i].rec = infos'[renamer'.id].rec
         ELSE file'[n] = infos'[i].rec => infos'[i].name = n
  BY InfoFitsStep
<1>4. QED
  BY <1>1, <1>2, <1>3, RenamerNamesStep DEF NameInv, Moved, Fits

-----------------------------------------------------------------------------
(* Links follow files *)

\* The recordings of videos, and which of them are the newest.
LEMMA VideoFacts ==
  ASSUME Typed, SeenInv, NEW v \in DOMAIN videos
  PROVE  /\ videos[v] \in Recordings /\ videos[v] # NoRec /\ videos[v] \notin fresh
         /\ v \in 1..Len(videos) /\ Len(videos) \in Nat /\ v \in Nat
<1>1. videos \in Seq(Recordings)
  BY DEF Typed
<1>2. DOMAIN videos = 1..Len(videos) /\ Len(videos) \in Nat
  BY <1>1, LenProperties
<1>3. videos[v] \in Recordings
  BY <1>1, <1>2, ElementOfSeq
<1>4. QED
  BY <1>2, <1>3, RecordingsAssumption DEF SeenInv

\* The newest video of a recording that has a file is the one its name has in the store.
Answers(n, v) == store[n].rec = videos[v] /\ store[n].video = v

\* What the first part of LinkInv says.
NewestLinked ==
    \A v \in DOMAIN videos, n \in Names :
        file[n] = videos[v] /\ ~Newer(v) /\ ~Owed(v) => Answers(At(n), v)

\* Steps that leave the store, the rename and the upload where they were.
LEMMA NewestLinkedQuiet ==
  ASSUME Typed, LockInv, SeenInv, NewestLinked, [Next]_vars,
         UNCHANGED <<store, videos>>, Moved' <=> Moved, Moved => UNCHANGED renamer,
         uploader.pc = "persist" <=> uploader'.pc = "persist",
         ~(MoveFile /\ renamer'.pc = "moved")
  PROVE  NewestLinked'
<1>1. SUFFICES ASSUME NEW v \in DOMAIN videos, NEW n \in Names,
                      file'[n] = videos[v], ~Newer(v)', ~Owed(v)'
               PROVE  Answers(At(n), v)'
  BY DEF NewestLinked
<1>2. file[n] = videos[v]
  BY <1>1, VideoFacts, FileBack
<1>3. ~Newer(v) /\ ~Owed(v)
  BY <1>1 DEF Newer, Owed
<1>4. Answers(At(n), v)
  BY <1>2, <1>3 DEF NewestLinked
<1>5. At(n)' = At(n)
  BY DEF At, Moved
<1>6. QED
  BY <1>4, <1>5 DEF Answers

\* The file goes first: its link is under the name it has left.
LEMMA NewestLinkedMoveFile ==
  ASSUME Typed, LockInv, SeenInv, NewestLinked, [Next]_vars, MoveFile, renamer'.pc = "moved"
  PROVE  NewestLinked'
<1>1. UNCHANGED <<store, videos, uploader>> /\ renamer.pc = "checked"
  BY MoveFileFacts DEF MoveFile
<1>2. renamer'.from = renamer.from /\ renamer'.to = renamer.to
  BY MoveFileFacts
<1>3. SUFFICES ASSUME NEW v \in DOMAIN videos, NEW n \in Names,
                      file'[n] = videos[v], ~Newer(v)', ~Owed(v)'
               PROVE  Answers(At(n), v)'
  BY <1>1 DEF NewestLinked
<1>4. ~Newer(v) /\ ~Owed(v) /\ ~Moved
  BY <1>1, <1>3 DEF Newer, Owed, Moved
<1>5. renamer.from \in Names
  BY <1>1, WorkerFacts DEF Typed
<1>6. CASE n = renamer.to
  <2>1. file[renamer.from] = videos[v]
    BY <1>3, <1>6, VideoFacts, FileBack
  <2>2. Answers(renamer.from, v)
    BY <1>4, <1>5, <2>1 DEF NewestLinked, At
  <2>3. QED
    BY <1>1, <1>2, <1>6, <2>2 DEF At, Moved, Answers
<1>7. CASE n # renamer.to
  <2>1. file[n] = videos[v]
    BY <1>3, <1>7, VideoFacts, FileBack
  <2>2. Answers(n, v)
    BY <1>4, <2>1 DEF NewestLinked, At
  <2>3. QED
    BY <1>1, <1>2, <1>7, <2>2 DEF At, Moved, Answers
<1>8. QED
  BY <1>6, <1>7

\* The link follows.
LEMMA NewestLinkedMoveIdentity ==
  ASSUME Typed, LockInv, SeenInv, NewestLinked, ~strayed, LinkInv, MoveIdentity
  PROVE  NewestLinked'
<1>1. UNCHANGED <<file, videos, uploader>> /\ renamer.pc = "moved" /\ renamer'.pc = "idle"
  BY MoveIdentityFacts DEF MoveIdentity
<1>2. /\ renamer.from \in Names /\ renamer.to \in Names /\ renamer.from # renamer.to
      /\ store' = MoveEntry(renamer.from, renamer.to) /\ store \in [Names -> Entries]
  BY <1>1, MoveIdentityFacts DEF LockInv, Typed
<1>3. SUFFICES ASSUME NEW v \in DOMAIN videos, NEW n \in Names,
                      file[n] = videos[v], ~Newer(v)', ~Owed(v)'
               PROVE  Answers(At(n), v)'
  BY <1>1 DEF NewestLinked
<1>4. Answers(At(n), v)
  BY <1>1, <1>3 DEF NewestLinked, Newer, Owed
<1>5. At(n)' = n /\ videos[v] # NoRec
  BY <1>1, VideoFacts DEF At, Moved
<1>6. CASE n = renamer.to
  <2>1. Answers(renamer.from, v)
    BY <1>1, <1>4, <1>6 DEF At, Moved
  <2>2. store[renamer.from] # NoEntry
    BY <1>5, <2>1 DEF Answers, NoEntry
  <2>3. store'[renamer.to] = store[renamer.from]
    BY <1>2, <2>2 DEF MoveEntry
  <2>4. QED
    BY <1>1, <1>5, <1>6, <2>1, <2>3 DEF Answers
<1>7. CASE n # renamer.to
  <2>1. n # renamer.from
    BY <1>1, <1>3 DEF LinkInv, Moved
  <2>2. Answers(n, v)
    BY <1>4, <1>7 DEF At
  <2>3. store'[n] = store[n]
    BY <1>2, <1>7, <2>1 DEF MoveEntry
  <2>4. QED
    BY <1>1, <1>5, <2>2, <2>3 DEF Answers
<1>8. QED
  BY <1>6, <1>7

\* A new video is owed its link.
LEMMA NewestLinkedTransfer ==
  ASSUME Typed, LockInv, SeenInv, NewestLinked, [Next]_vars, Transfer, uploader'.pc = "persist"
  PROVE  NewestLinked'
<1>1. UNCHANGED <<file, store, renamer>> /\ uploader.pc = "claimed"
  BY TransferFacts DEF Transfer
<1>2. /\ Len(videos') = Len(videos) + 1 /\ DOMAIN videos' = 1..Len(videos) + 1
      /\ DOMAIN videos = 1..Len(videos) /\ \A v \in DOMAIN videos : videos'[v] = videos[v]
  BY TransferFacts
<1>3. SUFFICES ASSUME NEW v \in DOMAIN videos', NEW n \in Names,
                      file[n] = videos'[v], ~Newer(v)', ~Owed(v)'
               PROVE  Answers(At(n), v)'
  BY <1>1 DEF NewestLinked
<1>4. v # Len(videos)'
  BY <1>3 DEF Owed
<1>5. Len(videos) \in Nat
  BY LenProperties DEF Typed
<1>6. v \in DOMAIN videos /\ videos'[v] = videos[v]
  BY <1>2, <1>4, <1>5
<1>7. ~Newer(v)
  BY <1>2, <1>3, <1>5, <1>6 DEF Newer
<1>8. Answers(At(n), v)
  BY <1>1, <1>3, <1>6, <1>7 DEF NewestLinked, Owed
<1>9. QED
  BY <1>1, <1>6, <1>8 DEF Answers, At, Moved

\* The link is written under the name the recording has now; at that name there was
\* no other recording's.
LEMMA NewestLinkedPersist ==
  ASSUME Typed, LockInv, SeenInv, StoreInv, NameInv, NewestLinked, ~strayed, LinkInv, Persist
  PROVE  NewestLinked'
<1> DEFINE id == uploader.id
           info == infos[id]
           last == Len(videos)
<1>1. /\ UNCHANGED <<file, videos, renamer>> /\ uploader.pc = "persist" /\ ~Moved
      /\ info.name \in Names /\ id \in DOMAIN infos
      /\ store' = [store EXCEPT ![info.name] = [rec |-> info.rec, video |-> last]]
      /\ uploader'.pc = "announce"
  BY PersistFacts DEF Persist, Moved
<1>2. last \in DOMAIN videos /\ videos[last] = info.rec
  BY <1>1 DEF StoreInv, MadeFrom
<1>3. /\ store'[info.name].rec = info.rec /\ store'[info.name].video = last
      /\ \A n \in Names : n # info.name => store'[n] = store[n]
  BY <1>1 DEF Typed
<1>4. SUFFICES ASSUME NEW v \in DOMAIN videos, NEW n \in Names, file[n] = videos[v], ~Newer(v)
               PROVE  store'[n].rec = videos[v] /\ store'[n].video = v
  BY <1>1 DEF NewestLinked, Newer, Answers, At, Moved
<1>5. CASE v = last
  <2>1. info.name = n
    BY <1>1, <1>2, <1>4, <1>5 DEF NameInv, Fits
  <2>2. QED
    BY <1>2, <1>3, <1>5, <2>1
<1>6. CASE v # last
  <2>1. n # info.name
    <3>1. SUFFICES ASSUME n = info.name PROVE FALSE
      OBVIOUS
    <3>2. videos[v] = info.rec
      BY <1>1, <1>4, <3>1 DEF LinkInv
    <3>3. v < last
      BY <1>6, VideoFacts
    <3>4. QED
      BY <1>2, <1>4, <3>2, <3>3 DEF Newer
  <2>2. ~Owed(v)
    BY <1>6 DEF Owed
  <2>3. store[n].rec = videos[v] /\ store[n].video = v
    BY <1>1, <1>4, <2>2 DEF NewestLinked, Answers, At
  <2>4. QED
    BY <1>3, <2>1, <2>3
<1>7. QED
  BY <1>5, <1>6

\* The newest links are found in every state.
LEMMA NewestLinkedStep ==
  ASSUME Typed, LockInv, SeenInv, StoreInv, NameInv, LinkInv, [Next]_vars, ~strayed'
  PROVE  NewestLinked'
<1>1. ~strayed /\ NewestLinked
  BY StrayedStep DEF LinkInv, NewestLinked, Answers
<1>2. CASE MoveFile /\ renamer'.pc = "moved"
  BY <1>1, <1>2, NewestLinkedMoveFile
<1>3. CASE MoveFile /\ renamer'.pc # "moved"
  <2>1. UNCHANGED <<store, videos, uploader>> /\ ~Moved /\ ~Moved'
    BY <1>3, MoveFileFacts DEF MoveFile, Moved
  <2>2. QED
    BY <1>1, <1>3, <2>1, NewestLinkedQuiet
<1>4. CASE MoveIdentity
  BY <1>1, <1>4, NewestLinkedMoveIdentity
<1>5. CASE Transfer /\ uploader'.pc = "persist"
  BY <1>1, <1>5, NewestLinkedTransfer
<1>6. CASE Transfer /\ uploader'.pc # "persist"
  <2>1. UNCHANGED <<store, videos, renamer>> /\ uploader.pc = "claimed" /\ ~MoveFile
    BY <1>6, TransferFacts DEF Transfer, MoveFile
  <2>2. QED
    BY <1>1, <1>6, <2>1, NewestLinkedQuiet DEF Moved
<1>7. CASE Persist
  BY <1>1, <1>7, NewestLinkedPersist
<1>8. CASE /\ UNCHANGED <<store, videos>> /\ ~MoveFile /\ (Moved => UNCHANGED renamer)
           /\ (Moved' => UNCHANGED renamer)
           /\ (uploader.pc = "persist" <=> uploader'.pc = "persist")
  BY <1>1, <1>8, NewestLinkedQuiet DEF Moved
<1>9. ASSUME ~MoveFile, ~MoveIdentity, ~Transfer, ~Persist
      PROVE  /\ UNCHANGED <<store, videos>> /\ (Moved => UNCHANGED renamer)
             /\ (Moved' => UNCHANGED renamer)
             /\ (uploader.pc = "persist" <=> uploader'.pc = "persist")
  <2>1. UNCHANGED <<store, videos>>
    BY <1>9 DEF Next, Listing, Renaming, Uploading, vars, NewRecording, Delete, ChooseDelete,
       SetFolder, ListRows, Scan, GiveUp, Rescan, Accept, Install, StartRename, StartUpload,
       Announce
  <2>2. UNCHANGED renamer \/ \E i \in Ids, to \in Names : StartRename(i, to)
    BY <1>9 DEF Next, Listing, Renaming, Uploading, vars, NewRecording, Delete, ChooseDelete,
       SetFolder, ListRows, Scan, GiveUp, Rescan, Accept, Install, StartUpload, Announce
  <2>3. (Moved => UNCHANGED renamer) /\ (Moved' => UNCHANGED renamer)
    BY <2>2, StartRenameFacts DEF Moved
  <2>4. UNCHANGED uploader \/ Announce \/ \E i \in Ids : StartUpload(i)
    BY <1>9 DEF Next, Listing, Renaming, Uploading, vars, NewRecording, Delete, ChooseDelete,
       SetFolder, ListRows, Scan, GiveUp, Rescan, Accept, Install, StartRename
  <2>5. uploader.pc = "persist" <=> uploader'.pc = "persist"
    BY <2>4, AnnounceFacts DEF StartUpload, busy
  <2>6. QED
    BY <2>1, <2>3, <2>5
<1>10. QED
  BY <1>2, <1>3, <1>4, <1>5, <1>6, <1>7, <1>8, <1>9

\* A rename in hand, before and after: it has just moved its file, or is where it was.
LEMMA MovedStep ==
  ASSUME Typed, LockInv, [Next]_vars, Moved'
  PROVE  /\ renamer'.id = renamer.id /\ renamer'.from = renamer.from /\ renamer'.to = renamer.to
         /\ renamer.pc \in {"checked", "moved"} /\ renamer.from \in Names
         /\ renamer.to \in Names /\ renamer.from # renamer.to /\ ~MoveIdentity
         /\ renamer.id \in DOMAIN infos
         /\ \A l \in Listers : ~Install(l)
         /\ MoveFile \/ (~MoveFile /\ Moved)
<1>1. renamer'.pc = "moved"
  BY DEF Moved
<1>2. CASE MoveFile
  <2>1. /\ renamer'.id = renamer.id /\ renamer'.from = renamer.from /\ renamer'.to = renamer.to
        /\ renamer.pc = "checked"
    BY <1>1, <1>2, MoveFileFacts
  <2>2. ASSUME NEW l \in Listers, Install(l) PROVE FALSE
    BY <2>1, <2>2 DEF Install, LockInv
  <2>3. ~MoveIdentity
    BY <2>1 DEF MoveIdentity
  <2>4. QED
    BY <1>2, <2>1, <2>2, <2>3, WorkerFacts DEF Typed, LockInv
<1>3. CASE ~MoveFile
  <2>1. UNCHANGED renamer /\ ~MoveIdentity /\ \A l \in Listers : ~Install(l)
    BY <1>1, <1>3, RenamerStep
  <2>2. QED
    BY <1>1, <1>3, <2>1, WorkerFacts DEF Typed, LockInv, Moved
<1>4. QED
  BY <1>2, <1>3

\* No video is found at the name a rename has left, nor another's at the one it got.
LEMMA MovedVideosStep ==
  ASSUME Typed, FiniteInv, LockInv, SeenInv, NameInv, LinkInv, [Next]_vars, ~strayed', Moved'
  PROVE  \A v \in DOMAIN videos' :
            /\ file'[renamer'.from] # videos'[v]
            /\ file'[renamer'.to] = videos'[v] => videos'[v] = infos'[renamer'.id].rec
<1>1. SUFFICES ASSUME NEW v \in DOMAIN videos'
               PROVE  /\ file'[renamer.from] # videos'[v]
                      /\ file'[renamer.to] = videos'[v] => videos'[v] = infos'[renamer.id].rec
  BY MovedStep
<1>2. ~strayed
  BY StrayedStep
<1>3. renamer.id \in DOMAIN infos' /\ renamer.id \in DOMAIN infos
  BY MovedStep, RenameStep, TypedStep DEF Typed, Ids, Moved
<1>4. infos'[renamer.id].rec = infos[renamer.id].rec
  BY <1>3, MovedStep, RecStep
<1>5. CASE MoveFile
  <2>1. /\ file[renamer.from] # NoRec
        /\ file' = [file EXCEPT ![renamer.from] = NoRec, ![renamer.to] = file[renamer.from]]
        /\ strayed' = (strayed \/ file[renamer.from] # infos[renamer.id].rec)
    BY <1>5, MoveFileFacts DEF Moved
  <2>2. file'[renamer.from] = NoRec /\ file'[renamer.to] = file[renamer.from]
    BY <2>1, MovedStep DEF Typed, Files
  <2>3. videos'[v] # NoRec
    <3>1. UNCHANGED videos
      BY <1>5 DEF MoveFile
    <3>2. QED
      BY <3>1, VideoFacts
  <2>4. QED
    BY <1>4, <2>1, <2>2, <2>3
<1>6. CASE ~MoveFile /\ Moved
  <2>1. CASE v \in DOMAIN videos
    <3>1. videos'[v] = videos[v]
      BY <2>1, VideoStep
    <3>2. \A n \in Names : file'[n] = videos[v] => file[n] = videos[v]
      BY <1>6, <2>1, VideoFacts, FileBack
    <3>3. QED
      BY <1>2, <1>4, <1>6, <2>1, <3>1, <3>2, MovedStep DEF LinkInv
  <2>2. CASE v \notin DOMAIN videos
    <3>1. Transfer /\ videos'[v] = infos[uploader.id].rec /\ uploader.id \in DOMAIN infos
      BY <2>2, VideoStep
    <3>2. UNCHANGED file
      BY <3>1 DEF Transfer
    <3>3. file[renamer.from] # infos[uploader.id].rec
      BY <1>6, <3>1 DEF NameInv
    <3>4. file[renamer.to] = infos[uploader.id].rec
          => infos[uploader.id].rec = infos[renamer.id].rec
      BY <1>2, <1>6, <3>1, MovedStep DEF NameInv
    <3>5. QED
      BY <1>4, <3>1, <3>2, <3>3, <3>4
  <2>3. QED
    BY <2>1, <2>2
<1>7. QED
  BY <1>5, <1>6, MovedStep

\* The link in hand will be written under a name of its own.
Mine ==
    uploader.pc = "persist" =>
        /\ renamer.pc # "idle" => infos[uploader.id].name # renamer.to
        /\ \A v \in DOMAIN videos : file[infos[uploader.id].name] = videos[v]
                                    => videos[v] = infos[uploader.id].rec

\* It comes to be in hand when its file is read, and stays through a rename.
LEMMA MineStep ==
  ASSUME Typed, FiniteInv, LockInv, SeenInv, NameInv, LinkInv, [Next]_vars, ~strayed'
  PROVE  Mine'
<1>1. ~strayed /\ Mine
  BY StrayedStep DEF LinkInv, Mine
<1>2. SUFFICES ASSUME uploader'.pc = "persist" PROVE Mine'
  BY DEF Mine
<1>3. CASE Transfer
  <2>1. /\ file[infos[uploader.id].name] # NoRec /\ uploader'.id = uploader.id
        /\ infos' = infos /\ UNCHANGED <<file, renamer>>
        /\ strayed' = (strayed \/ file[infos[uploader.id].name] # infos[uploader.id].rec)
        /\ uploader.id \in DOMAIN infos
    BY <1>2, <1>3, TransferFacts DEF Transfer, LockInv
  <2>2. file[infos[uploader.id].name] = infos[uploader.id].rec
    BY <2>1
  <2>3. infos[uploader.id].name \in Names
    BY <2>1 DEF Typed, Info
  <2>4. renamer.pc # "idle" => infos[uploader.id].name # renamer.to
    <3>1. SUFFICES ASSUME renamer.pc # "idle", infos[uploader.id].name = renamer.to PROVE FALSE
      OBVIOUS
    <3>2. renamer.pc \in {"checked", "moved"} /\ renamer.from # renamer.to
      BY <3>1, WorkerFacts DEF Typed, LockInv
    <3>3. renamer.pc # "checked"
      BY <2>1, <2>2, <3>1 DEF NameInv
    <3>4. infos[uploader.id].name = renamer.from
      BY <1>1, <2>1, <2>2, <2>3, <3>1, <3>2, <3>3 DEF NameInv, Moved
    <3>5. QED
      BY <3>1, <3>2, <3>4
  <2>5. QED
    BY <2>1, <2>2, <2>4 DEF Mine
<1>4. CASE ~Transfer
  <2>1. UNCHANGED <<uploader, videos>>
    <3>1. UNCHANGED uploader
      <4>1. ~Persist /\ ~Announce
        BY <1>2, PersistFacts, AnnounceFacts
      <4>2. ASSUME NEW i \in Ids, StartUpload(i) PROVE FALSE
        BY <1>2, <4>2 DEF StartUpload
      <4>3. QED
        BY <1>4, <4>1, <4>2 DEF Next, Listing, Renaming, Uploading, vars,
           NewRecording, Delete, ChooseDelete, SetFolder, ListRows, Scan, GiveUp, Rescan,
           Accept, Install, StartRename, MoveFile, MoveIdentity
    <3>2. UNCHANGED videos
      BY <1>4 DEF Next, Listing, Renaming, Uploading, vars,
         NewRecording, Delete, ChooseDelete, SetFolder, ListRows, Scan, GiveUp, Rescan, Accept,
         Install, StartRename, MoveFile, MoveIdentity, StartUpload, Persist, Announce
    <3>3. QED
      BY <3>1, <3>2
  <2> DEFINE id == uploader.id
  <2>2. /\ id \in DOMAIN infos /\ id \in DOMAIN infos' /\ uploader.pc = "persist"
        /\ id \in Captured
    BY <1>2, <2>1, HeldFacts DEF LockInv, Captured, busy
  <2>3. infos'[id].rec = infos[id].rec
    BY <2>2, RecStep
  <2>4. infos[id].name \in Names
    BY <2>2 DEF Typed, Info
  <2>5. \A v \in DOMAIN videos : file[infos[id].name] = videos[v] => videos[v] = infos[id].rec
    BY <1>1, <2>2 DEF Mine
  <2>6. CASE MoveIdentity
    <3>1. /\ renamer.pc = "moved" /\ renamer'.pc = "idle" /\ UNCHANGED file
          /\ infos'[id].name = IF Repointed(id) THEN renamer.to ELSE infos[id].name
      BY <2>2, <2>6, MoveIdentityFacts DEF MoveIdentity
    <3>2. CASE Repointed(id)
      <4>1. infos[id].rec = infos[renamer.id].rec
        BY <3>2 DEF Repointed
      <4>2. \A v \in DOMAIN videos : file[renamer.to] = videos[v] => videos[v] = infos[id].rec
        BY <1>1, <3>1, <4>1 DEF LinkInv, Moved
      <4>3. QED
        BY <2>1, <2>3, <3>1, <3>2, <4>2 DEF Mine
    <3>3. CASE ~Repointed(id)
      BY <2>1, <2>3, <2>5, <3>1, <3>3 DEF Mine
    <3>4. QED
      BY <3>2, <3>3
  <2>7. CASE ~MoveIdentity
    <3>1. infos'[id] = infos[id]
      <4>1. ASSUME NEW l \in Listers, Install(l) PROVE infos'[id] = infos[id]
        BY <2>2, <4>1, InstallFacts
      <4>2. QED
        BY <2>2, <2>7, <4>1, InfoStep
    <3>2. \A v \in DOMAIN videos : file'[infos[id].name] = videos[v] => videos[v] = infos[id].rec
      <4>1. SUFFICES ASSUME NEW v \in DOMAIN videos, file'[infos[id].name] = videos[v]
                     PROVE  videos[v] = infos[id].rec
        OBVIOUS
      <4>2. MoveFile /\ renamer'.pc = "moved" => infos[id].name # renamer.to
        BY <1>1, <2>2, MoveFileFacts DEF Mine
      <4>3. file[infos[id].name] = videos[v]
        BY <2>4, <4>1, <4>2, VideoFacts, FileBack
      <4>4. QED
        BY <2>5, <4>3
    <3>3. renamer'.pc # "idle" => infos[id].name # renamer'.to
      <4>1. ASSUME NEW i \in Ids, NEW to \in Names, StartRename(i, to) PROVE FALSE
        BY <2>2, <4>1, StartRenameFacts
      <4>2. CASE MoveFile
        BY <1>1, <2>2, <4>2, MoveFileFacts DEF Mine
      <4>3. CASE UNCHANGED renamer
        BY <1>1, <2>2, <4>3 DEF Mine
      <4>4. QED
        BY <2>7, <4>1, <4>2, <4>3 DEF Next, Listing, Renaming, Uploading, vars,
           NewRecording, Delete, ChooseDelete, SetFolder, ListRows, Scan, GiveUp, Rescan,
           Accept, Install, StartUpload, Transfer, Persist, Announce
    <3>4. QED
      BY <2>1, <3>1, <3>2, <3>3 DEF Mine
  <2>8. QED
    BY <2>6, <2>7
<1>5. QED
  BY <1>3, <1>4

\* Links follow files through every step.
LEMMA LinkStep ==
  ASSUME Typed, FiniteInv, LockInv, SeenInv, StoreInv, NameInv, LinkInv, [Next]_vars
  PROVE  LinkInv'
<1>1. SUFFICES ASSUME ~strayed' PROVE LinkInv'
  BY DEF LinkInv
<1>2. NewestLinked' /\ Mine'
  BY <1>1, NewestLinkedStep, MineStep
<1>3. Moved' => \A v \in DOMAIN videos' :
          /\ file'[renamer'.from] # videos'[v]
          /\ file'[renamer'.to] = videos'[v] => videos'[v] = infos'[renamer'.id].rec
  BY <1>1, MovedVideosStep
<1>4. QED
  BY <1>2, <1>3 DEF LinkInv, NewestLinked, Answers, Mine

-----------------------------------------------------------------------------
(* The list follows the disk *)

\* A call of list_rows that is under way.
Live(x) == Scanning(x) \/ x.pc = "install"

\* Calls are numbered in the order they begin.
LEMMA GenerationFacts ==
  ASSUME Typed, [Next]_vars
  PROVE  /\ generation \in Nat
         /\ \/ UNCHANGED generation /\ \A l \in Listers : ~ListRows(l)
            \/ generation' = generation + 1 /\ \E l \in Listers : ListRows(l)
<1>1. generation \in Nat
  BY DEF Typed
<1>2. ASSUME NEW l \in Listers, ListRows(l) PROVE generation' = generation + 1
  BY <1>2 DEF ListRows
<1>3. ASSUME \A l \in Listers : ~ListRows(l) PROVE UNCHANGED generation
  BY <1>3 DEF Next, Listing, Renaming, Uploading, vars, NewRecording,
     Delete, ChooseDelete, SetFolder, Scan, GiveUp, Rescan, Accept, Install,
     StartRename, MoveFile, MoveIdentity, StartUpload, Transfer, Persist, Announce
<1>4. QED
  BY <1>1, <1>2, <1>3

\* What becomes of one call in a step: it begins, it ends, or it goes on.
LEMMA CallStep ==
  ASSUME Typed, [Next]_vars, NEW m \in Listers
  PROVE  \/ /\ ListRows(m) /\ lister'[m].generation = generation' /\ Scanning(lister'[m])
            /\ lister'[m].folder = recordingDir /\ lister'[m].todo = Discovered(recordingDir)
            /\ Found(lister'[m]) = {} /\ UNCHANGED recordingDir /\ ~Live(lister[m])
         \/ ~Live(lister'[m]) /\ (Live(lister[m]) => GiveUp(m) \/ Install(m))
         \/ /\ Live(lister[m]) /\ Live(lister'[m])
            /\ lister'[m].generation = lister[m].generation
            /\ lister'[m].folder = lister[m].folder
            /\ Scanning(lister'[m]) => /\ Scanning(lister[m])
                                       /\ \/ /\ lister'[m].todo \subseteq lister[m].todo
                                             /\ lister'[m].revision = lister[m].revision
                                          \/ /\ lister'[m].todo = Discovered(lister[m].folder)
                                             /\ Found(lister'[m]) = {}
            /\ lister'[m].pc = "install" => lister[m].pc = "install" \/ Accept(m)
            /\ Scanning(lister[m]) => Scanning(lister'[m]) \/ Accept(m)
<1> DEFINE Goal ==
         \/ /\ ListRows(m) /\ lister'[m].generation = generation' /\ Scanning(lister'[m])
            /\ lister'[m].folder = recordingDir /\ lister'[m].todo = Discovered(recordingDir)
            /\ Found(lister'[m]) = {} /\ UNCHANGED recordingDir /\ ~Live(lister[m])
         \/ ~Live(lister'[m]) /\ (Live(lister[m]) => GiveUp(m) \/ Install(m))
         \/ /\ Live(lister[m]) /\ Live(lister'[m])
            /\ lister'[m].generation = lister[m].generation
            /\ lister'[m].folder = lister[m].folder
            /\ Scanning(lister'[m]) => /\ Scanning(lister[m])
                                       /\ \/ /\ lister'[m].todo \subseteq lister[m].todo
                                             /\ lister'[m].revision = lister[m].revision
                                          \/ /\ lister'[m].todo = Discovered(lister[m].folder)
                                             /\ Found(lister'[m]) = {}
            /\ lister'[m].pc = "install" => lister[m].pc = "install" \/ Accept(m)
            /\ Scanning(lister[m]) => Scanning(lister'[m]) \/ Accept(m)
<1>1. CASE lister'[m] = lister[m]
  BY <1>1 DEF Live
<1>2. ASSUME Rests(m) PROVE Goal
  <2>1. PICK t \in RestS \cup ConfirmS : lister' = [lister EXCEPT ![m] = t] /\ t \in ListerS
    BY <1>2, RestsFacts
  <2>2. ~Live(lister'[m])
    BY <2>1, SetLister, RestFacts DEF Live
  <2>3. lister[m].pc \in {"idle", "confirm"} \/ GiveUp(m) \/ Install(m)
    BY <1>2 DEF Rests, ChooseDelete, Delete, SetFolder
  <2>4. QED
    BY <2>2, <2>3 DEF Live, Scanning
<1>3. ASSUME ListRows(m) PROVE Goal
  <2>1. PICK t \in ScanS :
            /\ lister' = [lister EXCEPT ![m] = t]
            /\ t.generation = generation' /\ t.folder = recordingDir
            /\ t.todo = Discovered(recordingDir) /\ t.found = {}
            /\ lister[m].pc \in {"idle", "list"} /\ t.pc = "scan"
    BY <1>3, ListRowsFacts
  <2>2. lister'[m] = t /\ Scanning(t) /\ Found(t) = {}
    BY <2>1, SetLister DEF ListerS, Scanning, Found
  <2>3. ~Live(lister[m]) /\ UNCHANGED recordingDir
    BY <1>3, <2>1 DEF Live, Scanning, ListRows
  <2>4. QED
    BY <1>3, <2>1, <2>2, <2>3
<1>4. ASSUME Scan(m) PROVE Goal
  <2>1. PICK t \in ScanS :
            /\ lister' = [lister EXCEPT ![m] = t] /\ lister[m].pc = "scan"
            /\ t.generation = lister[m].generation /\ t.folder = lister[m].folder
            /\ t.revision = lister[m].revision /\ t.todo \subseteq lister[m].todo
    BY <1>4, ScanFacts
  <2>2. lister'[m] = t /\ Scanning(t) /\ t.pc # "install"
    BY <2>1, SetLister DEF ListerS, ScanS, Scanning
  <2>3. QED
    BY <2>1, <2>2 DEF Live, Scanning
<1>5. ASSUME Rescan(m) PROVE Goal
  <2>1. PICK t \in ScanS :
            /\ lister' = [lister EXCEPT ![m] = t] /\ lister[m].pc = "accept"
            /\ t.generation = lister[m].generation /\ t.folder = lister[m].folder
            /\ t.todo = Discovered(lister[m].folder) /\ t.found = {}
    BY <1>5, RescanFacts
  <2>2. lister'[m] = t /\ Scanning(t) /\ t.pc # "install"
    BY <2>1, SetLister DEF ListerS, ScanS, Scanning
  <2>3. Found(t) = {}
    BY <2>1, <2>2 DEF Found
  <2>4. QED
    BY <2>1, <2>2, <2>3 DEF Live, Scanning
<1>6. ASSUME Accept(m) PROVE Goal
  <2>1. PICK t \in InstallS :
            /\ lister' = [lister EXCEPT ![m] = t] /\ t.pc = "install"
            /\ t.generation = lister[m].generation /\ t.folder = lister[m].folder
            /\ lister[m].pc = "accept"
    BY <1>6, AcceptFacts
  <2>2. lister'[m] = t
    BY <2>1, SetLister DEF ListerS
  <2>3. QED
    BY <1>6, <2>1, <2>2 DEF Live, Scanning
<1>7. ASSUME NEW l \in Listers, l # m,
             Rests(l) \/ ListRows(l) \/ Scan(l) \/ Rescan(l) \/ Accept(l)
      PROVE  lister'[m] = lister[m]
  <2>1. \E t \in ListerS : lister' = [lister EXCEPT ![l] = t]
    BY <1>7, RestsFacts, ListRowsFacts, ScanFacts, RescanFacts, AcceptFacts DEF ListerS
  <2>2. QED
    BY <1>7, <2>1, SetLister
<1>8. QED
  BY <1>1, <1>2, <1>3, <1>4, <1>5, <1>6, <1>7, ListerSteps

\* No call is ahead of the counter, and each looks at its own folder.
LEMMA CallsInOrder ==
  ASSUME Typed, ListInv, [Next]_vars, NEW m \in Listers
  PROVE  /\ Live(lister'[m]) => lister'[m].generation <= generation'
         /\ Scanning(lister'[m]) => \A n \in lister'[m].todo : Folder[n] = lister'[m].folder
<1>1. generation \in Nat /\ generation <= generation' /\ generation' \in Nat
  BY GenerationFacts
<1>2. Live(lister[m]) => lister[m].generation \in Nat /\ lister[m].generation <= generation
  BY ListerFacts DEF Typed, ListInv, Live
<1>3. Live(lister'[m]) => lister'[m].generation <= generation'
  BY <1>1, <1>2, CallStep
<1>4. Scanning(lister[m]) => \A n \in lister[m].todo : Folder[n] = lister[m].folder
  BY DEF ListInv
<1>5. \A folder : \A n \in Discovered(folder) : Folder[n] = folder
  BY DiscoveredType
<1>6. Scanning(lister'[m]) => \A n \in lister'[m].todo : Folder[n] = lister'[m].folder
  BY <1>4, <1>5, CallStep DEF Live
<1>7. QED
  BY <1>3, <1>6

\* A rebuild that is due is begun.
LEMMA PendingStep ==
  ASSUME Typed, [Next]_vars, Pending
  PROVE  Pending' \/ \E l \in Listers : ListRows(l)
<1>1. PICK p \in Listers : lister[p].pc = "list"
  BY DEF Pending
<1>2. CASE lister'[p] = lister[p]
  BY <1>1, <1>2 DEF Pending
<1>3. ASSUME NEW l \in Listers, l # p, NEW t \in ListerS, lister' = [lister EXCEPT ![l] = t]
      PROVE  lister'[p] = lister[p]
  BY <1>3, SetLister
<1>4. ASSUME NEW l \in Listers, Rests(l) \/ Scan(l) \/ Rescan(l) \/ Accept(l)
      PROVE  l # p /\ \E t \in ListerS : lister' = [lister EXCEPT ![l] = t]
  <2>1. l # p
    BY <1>1, <1>4 DEF Rests, ChooseDelete, Delete, SetFolder, GiveUp, Install, Scan, Rescan,
       Accept
  <2>2. \E t \in ListerS : lister' = [lister EXCEPT ![l] = t]
    BY <1>4, RestsFacts, ScanFacts, RescanFacts, AcceptFacts DEF ListerS
  <2>3. QED
    BY <2>1, <2>2
<1>5. QED
  BY <1>2, <1>3, <1>4, ListerSteps

\* The newest call was so before, or has just begun.
LEMMA NewestStep ==
  ASSUME Typed, ListInv, [Next]_vars, NEW m \in Listers, Newest(m)'
  PROVE  \/ /\ ListRows(m) /\ lister'[m].folder = recordingDir /\ Found(lister'[m]) = {}
            /\ UNCHANGED recordingDir
         \/ /\ Newest(m) /\ lister'[m].folder = lister[m].folder
            /\ \A l \in Listers : ~ListRows(l)
<1>1. Live(lister'[m]) /\ lister'[m].generation = generation'
  BY DEF Newest, Live
<1>2. Live(lister[m]) => lister[m].generation \in Nat /\ lister[m].generation <= generation
  BY ListerFacts DEF Typed, ListInv, Live
<1>3. CASE ListRows(m)
  <2>1. ~Live(lister[m])
    BY <1>3 DEF ListRows, Live, Scanning
  <2>2. QED
    BY <1>1, <1>3, <2>1, CallStep
<1>4. CASE ~ListRows(m)
  <2>1. /\ Live(lister[m]) /\ lister'[m].generation = lister[m].generation
        /\ lister'[m].folder = lister[m].folder
    BY <1>1, <1>4, CallStep
  <2>2. UNCHANGED generation /\ \A l \in Listers : ~ListRows(l)
    BY <1>1, <1>2, <2>1, GenerationFacts
  <2>3. QED
    BY <1>1, <2>1, <2>2 DEF Newest, Live
<1>5. QED
  BY <1>3, <1>4

\* A file that is there stays, unless a rebuild is due or a rename moves it.
LEMMA FileForward ==
  ASSUME Typed, LockInv, [Next]_vars, ~Pending', NEW n \in Names, file[n] # NoRec
  PROVE  file'[n] = file[n] \/ (MoveFile /\ renamer'.pc = "moved")
<1>1. ASSUME NEW k \in Names, NEW r \in Recordings, NewRecording(k, r) PROVE file'[n] = file[n]
  BY <1>1 DEF NewRecording, Typed, Files
<1>2. ASSUME NEW l \in Listers, Delete(l) PROVE file'[n] = file[n]
  <2>1. CASE UNCHANGED file
    BY <2>1
  <2>2. CASE lister' = [lister EXCEPT ![l] = [pc |-> "list"]]
    <3>1. lister'[l].pc = "list"
      BY <2>2 DEF Typed
    <3>2. QED
      BY <3>1 DEF Pending
  <2>3. QED
    BY <1>2, <2>1, <2>2 DEF Delete
<1>3. CASE MoveFile
  BY <1>3, MoveFileFacts
<1>4. QED
  BY <1>1, <1>2, <1>3 DEF Next, Listing, Renaming, Uploading, vars, ChooseDelete, SetFolder,
     ListRows, Scan, GiveUp, Rescan, Accept, Install, StartRename, MoveIdentity, StartUpload,
     Transfer, Persist, Announce

\* The folder stays, unless a rebuild is due.
LEMMA FolderForward ==
  ASSUME Typed, [Next]_vars, ~Pending'
  PROVE  UNCHANGED recordingDir
<1>1. ASSUME NEW l \in Listers, NEW f \in Folders, SetFolder(l, f) PROVE FALSE
  <2>1. lister' = [lister EXCEPT ![l] = [pc |-> "list"]]
    BY <1>1 DEF SetFolder
  <2>2. lister'[l].pc = "list"
    BY <2>1 DEF Typed
  <2>3. QED
    BY <2>2 DEF Pending
<1>2. QED
  BY <1>1 DEF Next, Listing, Renaming, Uploading, vars, NewRecording, ChooseDelete, Delete,
     ListRows, Scan, GiveUp, Rescan, Accept, Install, StartRename, MoveFile, MoveIdentity,
     StartUpload, Transfer, Persist, Announce

\* What the newest call has found is so, or a rename has gone through it since.
Current(m, e) ==
    /\ Folder[e.name] = recordingDir
    /\ file[e.name] = e.rec \/ Stale(lister[m])

\* The newest call looks at the watched folder, and what it has found is still there.
LEMMA CurrentStep ==
  ASSUME Typed, FiniteInv, LockInv, NameInv, ListInv, [Next]_vars,
         NEW m \in Listers, Newest(m)', ~Pending'
  PROVE  lister'[m].folder = recordingDir' /\ \A e \in Found(lister'[m]) : Current(m, e)'
<1>1. UNCHANGED recordingDir
  BY FolderForward
<1>2. CASE ListRows(m) /\ lister'[m].folder = recordingDir /\ Found(lister'[m]) = {}
  BY <1>1, <1>2
<1>3. CASE /\ Newest(m) /\ lister'[m].folder = lister[m].folder
           /\ \A l \in Listers : ~ListRows(l)
  <2>1. ~Pending
    BY <1>3, PendingStep
  <2>2. lister[m].folder = recordingDir /\ \A e \in Found(lister[m]) : Current(m, e)
    BY <1>3, <2>1 DEF ListInv, Current
  <2>3. ASSUME NEW e \in Found(lister'[m]), NEW n \in lister[m].todo,
               Scan(m), n \in Names, file[n] # NoRec, e = [name |-> n, rec |-> file[n]]
        PROVE  Current(m, e)'
    <3>1. Scanning(lister[m]) /\ UNCHANGED file
      BY <2>3 DEF Scan, Scanning
    <3>2. Folder[n] = recordingDir
      BY <2>2, <3>1 DEF ListInv
    <3>3. QED
      BY <1>1, <2>3, <3>1, <3>2 DEF Current
  <2>4. ASSUME NEW e \in Found(lister'[m]), e \in Found(lister[m]) PROVE Current(m, e)'
    <3>1. Folder[e.name] = recordingDir' /\ (file[e.name] = e.rec \/ Stale(lister[m]))
      BY <1>1, <2>2, <2>4 DEF Current
    <3>2. e \in Info
      BY <2>4, FoundType DEF Typed
    <3>3. e.name \in Names /\ e.rec # NoRec
      BY <3>2, RecordingsAssumption DEF Info
    <3>4. Live(lister'[m]) /\ Found(lister'[m]) # {}
      BY <1>3, <2>4 DEF Newest, Live
    <3>5. CASE Stale(lister[m])
      <4>1. Scanning(lister[m]) /\ lister[m].revision # revision
        BY <3>5 DEF Stale
      <4>2. ~Accept(m)
        BY <4>1 DEF Accept
      <4>3. Scanning(lister'[m]) /\ lister'[m].revision = lister[m].revision
        BY <1>3, <3>4, <4>1, <4>2, CallStep DEF Live
      <4>4. lister[m].revision \in Nat /\ lister[m].revision <= revision
        BY <4>1, ListerFacts DEF Typed, NameInv
      <4>5. revision \in Nat /\ revision <= revision' /\ revision' \in Nat
        BY RevisionFacts
      <4>6. QED
        BY <3>1, <4>1, <4>3, <4>4, <4>5 DEF Current, Stale
    <3>6. CASE file[e.name] = e.rec /\ ~(MoveFile /\ renamer'.pc = "moved")
      <4>1. file'[e.name] = e.rec
        BY <3>3, <3>6, FileForward
      <4>2. QED
        BY <3>1, <4>1 DEF Current
    <3>7. CASE MoveFile /\ renamer'.pc = "moved"
      <4>1. UNCHANGED lister /\ revision' = revision + 1 /\ revision \in Nat
        BY <3>7, RevisionFacts DEF MoveFile
      <4>2. lister[m].pc # "install"
        BY <3>7, MoveFileFacts DEF LockInv
      <4>3. Scanning(lister[m])
        BY <1>3, <4>2 DEF Newest
      <4>4. lister[m].revision \in Nat /\ lister[m].revision <= revision
        BY <4>3, ListerFacts DEF Typed, NameInv
      <4>5. QED
        BY <3>1, <4>1, <4>3, <4>4 DEF Current, Stale
    <3>8. QED
      BY <3>1, <3>5, <3>6, <3>7
  <2>5. QED
    BY <1>1, <1>3, <2>2, <2>3, <2>4, FoundStep
<1>4. QED
  BY <1>2, <1>3, NewestStep

\* A call that goes on is as new as it was, while none begins.
LEMMA StillNewest ==
  ASSUME Typed, [Next]_vars, NEW m \in Listers, Newest(m), ~GiveUp(m), ~Install(m),
         \A l \in Listers : ~ListRows(l)
  PROVE  Newest(m)' /\ (Scanning(lister[m]) => Scanning(lister'[m]) \/ Accept(m))
<1>1. Live(lister[m]) /\ UNCHANGED generation
  BY GenerationFacts DEF Newest, Live
<1>2. /\ Live(lister'[m]) /\ lister'[m].generation = lister[m].generation
      /\ (Scanning(lister[m]) => Scanning(lister'[m]) \/ Accept(m))
  BY <1>1, CallStep
<1>3. QED
  BY <1>1, <1>2 DEF Newest, Live

\* One that begins is the newest.
LEMMA NowNewest ==
  ASSUME Typed, [Next]_vars, NEW m \in Listers, ListRows(m)
  PROVE  Newest(m)' /\ Scanning(lister'[m])
<1>1. ~Live(lister[m])
  BY DEF ListRows, Live, Scanning
<1>2. PICK t \in ScanS : lister' = [lister EXCEPT ![m] = t] /\ t.generation = generation'
  BY ListRowsFacts
<1>3. lister'[m] = t /\ Scanning(t)
  BY <1>2, SetLister DEF ListerS, ScanS, Scanning
<1>4. QED
  BY <1>2, <1>3 DEF Newest

\* While an older call installs its rows, a newer one is scanning.
LEMMA OvertakenStep ==
  ASSUME Typed, FiniteInv, LockInv, ListInv, [Next]_vars,
         NEW l \in Listers, lister'[l].pc = "install", ~Newest(l)', ~Pending'
  PROVE  \E m \in Listers : Newest(m)' /\ Scanning(lister'[m])
<1>1. CASE \E m \in Listers : ListRows(m)
  BY <1>1, NowNewest
<1>2. CASE \A m \in Listers : ~ListRows(m)
  <2>1. ~Pending /\ UNCHANGED generation
    BY <1>2, PendingStep, GenerationFacts
  <2>2. Live(lister[l]) /\ lister'[l].generation = lister[l].generation
        /\ (lister[l].pc = "install" \/ Accept(l))
    BY <1>2, CallStep DEF Live
  <2>3. lister[l].generation # generation
    BY <2>1, <2>2 DEF Newest
  <2>4. ~Accept(l)
    BY <2>3 DEF Accept, Superseded
  <2>5. lister[l].pc = "install" /\ ~Newest(l)
    BY <2>2, <2>3, <2>4 DEF Newest
  <2>6. PICK m \in Listers : Newest(m) /\ Scanning(lister[m])
    BY <2>1, <2>5 DEF ListInv
  <2>7. ~GiveUp(m) /\ ~Install(m) /\ ~Accept(m)
    BY <2>5, <2>6 DEF GiveUp, Install, Accept, PublicationFree, Scanning
  <2>8. QED
    BY <1>2, <2>6, <2>7, StillNewest
<1>3. QED
  BY <1>1, <1>2

\* A row installed by the newest call is current.
LEMMA InstalledCurrent ==
  ASSUME Typed, FiniteInv, LockInv, ListInv, [Next]_vars, NEW l \in Listers, Install(l),
         Newest(l), ~Pending, NEW i \in Ids'
  PROVE  RowCurrent(i)'
<1>1. lister[l].pc = "install" /\ UNCHANGED <<recordingDir, file>>
  BY DEF Install
<1>2. infos'[i] \in Found(lister[l])
  BY <1>1, InstallFacts DEF Found, Ids
<1>3. ~Stale(lister[l])
  BY <1>1 DEF Stale, Scanning
<1>4. Folder[infos'[i].name] = recordingDir /\ file[infos'[i].name] = infos'[i].rec
  BY <1>2, <1>3 DEF ListInv
<1>5. QED
  BY <1>1, <1>4 DEF RowCurrent

\* A current row stays current until a rebuild is due.
LEMMA RowCurrentStep ==
  ASSUME Typed, FiniteInv, LockInv, NameInv, [Next]_vars, ~strayed', ~Pending',
         \A l \in Listers : ~Install(l), NEW i \in Ids, RowCurrent(i)
  PROVE  RowCurrent(i)'
<1>1. UNCHANGED recordingDir
  BY FolderForward
<1>2. i \in DOMAIN infos /\ infos[i] \in Info
  BY DEF Typed
<1>3. infos[i].name \in Names /\ infos[i].rec # NoRec
  BY <1>2, RecordingsAssumption DEF Info
<1>4. DOMAIN rows' = DOMAIN rows
  BY AnnounceFacts DEF Next, Listing, Renaming, Uploading, vars, NewRecording, ChooseDelete,
     Delete, SetFolder, ListRows, Scan, GiveUp, Rescan, Accept, StartRename, MoveFile,
     MoveIdentity, StartUpload, Transfer, Persist, Ids
<1>5. i \in DOMAIN infos'
  BY <1>4, OldRecStep
<1>6. CASE MoveIdentity
  <2>1. /\ renamer.pc = "moved" /\ renamer'.pc = "idle" /\ UNCHANGED file
        /\ infos'[i].rec = infos[i].rec
        /\ infos'[i].name = IF Repointed(i) THEN renamer.to ELSE infos[i].name
    BY <1>2, <1>6, MoveIdentityFacts DEF MoveIdentity
  <2>2. CASE file[infos[i].name] = infos[i].rec
    <3>1. infos[i].name # renamer.from
      BY <1>2, <2>1, <2>2 DEF NameInv, Moved
    <3>2. ~Repointed(i)
      BY <2>1, <3>1 DEF Repointed, LockInv
    <3>3. QED
      BY <1>1, <2>1, <2>2, <3>2 DEF RowCurrent
  <2>3. CASE /\ infos[i].name = renamer.from /\ infos[i].rec = infos[renamer.id].rec
             /\ file[renamer.to] = infos[i].rec
    <3>1. infos[i] = [name |-> renamer.from, rec |-> infos[renamer.id].rec]
      BY <1>2, <2>3 DEF Info
    <3>2. infos'[i].name = renamer.to
      BY <2>1, <3>1 DEF Repointed
    <3>3. Folder[renamer.to] = Folder[renamer.from]
      BY <2>1 DEF LockInv
    <3>4. QED
      BY <1>1, <2>1, <2>3, <3>2, <3>3 DEF RowCurrent
  <2>4. QED
    BY <2>2, <2>3 DEF RowCurrent
<1>7. CASE ~MoveIdentity
  <2>1. infos'[i] = infos[i]
    BY <1>5, <1>7, InfoStep
  <2>2. CASE MoveFile /\ renamer'.pc = "moved"
    <3>1. /\ renamer.pc = "checked" /\ renamer'.id = renamer.id
          /\ renamer'.from = renamer.from /\ renamer'.to = renamer.to
          /\ file[renamer.to] = NoRec
          /\ file' = [file EXCEPT ![renamer.from] = NoRec,
                                  ![renamer.to] = file[renamer.from]]
          /\ strayed' = (strayed \/ file[renamer.from] # infos[renamer.id].rec)
      BY <2>2, MoveFileFacts
    <3>2. /\ renamer.from \in Names /\ renamer.to \in Names /\ renamer.from # renamer.to
          /\ renamer.id \in DOMAIN infos
      BY <3>1, WorkerFacts DEF Typed, LockInv
    <3>3. \A k \in Names : file'[k] = IF k = renamer.to THEN file[renamer.from]
                                      ELSE IF k = renamer.from THEN NoRec ELSE file[k]
      BY <3>1, <3>2 DEF Typed, Files
    <3>4. UNCHANGED infos
      BY <2>2 DEF MoveFile
    <3>5. Folder[infos[i].name] = recordingDir /\ file[infos[i].name] = infos[i].rec
      BY <3>1 DEF RowCurrent, Moved
    <3>6. CASE infos[i].name = renamer.from
      <4>1. infos[i].rec = infos[renamer.id].rec /\ file'[renamer.to] = infos[i].rec
        BY <3>1, <3>2, <3>3, <3>5, <3>6
      <4>2. QED
        BY <1>1, <2>2, <3>1, <3>4, <3>5, <3>6, <4>1 DEF RowCurrent, Moved
    <3>7. CASE infos[i].name # renamer.from
      <4>1. file'[infos[i].name] = infos[i].rec
        BY <1>3, <3>1, <3>3, <3>5, <3>7
      <4>2. QED
        BY <1>1, <3>4, <3>5, <4>1 DEF RowCurrent
    <3>8. QED
      BY <3>6, <3>7
  <2>3. CASE ~(MoveFile /\ renamer'.pc = "moved")
    <3>1. CASE file[infos[i].name] = infos[i].rec
      <4>1. file'[infos[i].name] = infos[i].rec
        BY <1>3, <2>3, <3>1, FileForward
      <4>2. QED
        BY <1>1, <2>1, <4>1 DEF RowCurrent
    <3>2. CASE /\ Moved /\ infos[i].name = renamer.from
               /\ infos[i].rec = infos[renamer.id].rec /\ file[renamer.to] = infos[i].rec
      <4>1. UNCHANGED renamer
        BY <1>7, <3>2 DEF Moved, Next, Listing, Renaming, Uploading, vars, NewRecording,
           ChooseDelete, Delete, SetFolder, ListRows, Scan, GiveUp, Rescan, Accept, Install,
           StartRename, PublicationFree, MoveFile, StartUpload, Transfer, Persist, Announce
      <4>2. renamer.to \in Names /\ renamer.id \in Ids
        BY <3>2, WorkerFacts DEF Moved, Typed, LockInv
      <4>3. file'[renamer.to] = infos[i].rec
        BY <1>3, <2>3, <3>2, <4>2, FileForward
      <4>4. infos'[renamer.id].rec = infos[renamer.id].rec
        BY <1>4, <4>2, OldRecStep
      <4>5. QED
        BY <1>1, <2>1, <3>2, <4>1, <4>3, <4>4 DEF RowCurrent, Moved
    <3>3. QED
      BY <3>1, <3>2 DEF RowCurrent
  <2>4. QED
    BY <2>2, <2>3
<1>8. QED
  BY <1>6, <1>7 DEF RowCurrent

\* The list follows the disk through every step.
LEMMA ListStep ==
  ASSUME Typed, FiniteInv, LockInv, SeenInv, NameInv, ListInv, [Next]_vars
  PROVE  ListInv'
<1>1. \A l \in Listers : Scanning(lister'[l]) \/ lister'[l].pc = "install"
                         => lister'[l].generation <= generation'
  BY CallsInOrder DEF Live
<1>2. \A l \in Listers : Scanning(lister'[l]) =>
         \A n \in lister'[l].todo : Folder[n] = lister'[l].folder
  BY CallsInOrder
<1>3. \A l \in Listers : Newest(l)' =>
         \/ Pending'
         \/ lister'[l].folder = recordingDir' /\ \A e \in Found(lister'[l]) : Current(l, e)'
  BY CurrentStep
<1>4. \A l \in Listers : lister'[l].pc = "install" /\ ~Newest(l)' =>
         Pending' \/ \E m \in Listers : Newest(m)' /\ Scanning(lister'[m])
  BY OvertakenStep
<1>5. ASSUME ~strayed', ~Pending', \A l \in Listers : ~Newest(l)', NEW i \in Ids'
      PROVE  RowCurrent(i)'
  <2>1. \A l \in Listers : ~ListRows(l)
    BY <1>5, NowNewest
  <2>2. ~Pending /\ ~strayed
    BY <1>5, <2>1, PendingStep, StrayedStep
  <2>3. ASSUME NEW m \in Listers, Newest(m), GiveUp(m) PROVE FALSE
    <3>1. lister[m].folder # recordingDir
      BY <2>3 DEF GiveUp, Superseded, Newest
    <3>2. QED
      BY <2>2, <2>3, <3>1 DEF ListInv
  <2>4. \A m \in Listers : Newest(m) => Install(m)
    BY <1>5, <2>1, <2>3, StillNewest
  <2>5. ASSUME NEW l \in Listers, Install(l) PROVE RowCurrent(i)'
    <3>1. Newest(l)
      <4>1. SUFFICES ASSUME ~Newest(l) PROVE FALSE
        OBVIOUS
      <4>2. lister[l].pc = "install"
        BY <2>5 DEF Install
      <4>3. PICK m \in Listers : Newest(m) /\ Scanning(lister[m])
        BY <2>2, <4>1, <4>2 DEF ListInv
      <4>4. QED
        BY <2>4, <4>3 DEF Install, Scanning
    <3>2. QED
      BY <2>2, <2>5, <3>1, InstalledCurrent
  <2>6. CASE \A l \in Listers : ~Install(l)
    <3>1. \A j \in Ids : RowCurrent(j)
      BY <2>2, <2>4, <2>6 DEF ListInv
    <3>2. DOMAIN rows' = DOMAIN rows
      BY <2>6, AnnounceFacts DEF Next, Listing, Renaming, Uploading, vars, NewRecording,
         ChooseDelete, Delete, SetFolder, ListRows, Scan, GiveUp, Rescan, Accept, StartRename,
         MoveFile, MoveIdentity, StartUpload, Transfer, Persist, Ids
    <3>3. QED
      BY <1>5, <2>6, <3>1, <3>2, RowCurrentStep DEF Ids
  <2>7. QED
    BY <2>5, <2>6
<1>6. QED
  BY <1>1, <1>2, <1>3, <1>4, <1>5 DEF ListInv, Current

-----------------------------------------------------------------------------
(* The theorems *)

\* The first state is one of the invariant.
LEMMA InitIInv == Init => IInv
<1>1. SUFFICES ASSUME Init PROVE IInv
  OBVIOUS
<1>2. /\ DOMAIN infos = {} /\ Ids = {} /\ DOMAIN videos = {}
      /\ renamer.pc = "idle" /\ uploader.pc = "idle"
  BY <1>1 DEF Init, Ids, IdleRenamer, IdleUploader
<1>3. \A l \in Listers : /\ lister[l].pc = "idle" /\ ~Scanning(lister[l])
                         /\ Found(lister[l]) = {}
  BY <1>1, RestFacts DEF Init, IdleLister
<1>4. \A n \in Names : store[n] = NoEntry
  BY <1>1 DEF Init
<1>5. FiniteInv /\ LockInv
  BY <1>2, <1>3 DEF FiniteInv, LockInv
<1>6. StoreInv /\ RowInv
  BY <1>2, <1>3, <1>4 DEF StoreInv, RowInv
<1>7. NameInv /\ LinkInv
  BY <1>2, <1>3 DEF NameInv, LinkInv, Moved
<1>8. ListInv
  BY <1>2, <1>3 DEF ListInv, Newest
<1>9. QED
  BY <1>1, <1>5, <1>6, <1>7, <1>8, TypedInit, SeenInit DEF IInv

\* The list, the names and the links are in step with the files in every state, as far
\* as each part of the invariant says.
THEOREM Invariance == Spec => []IInv
<1>1. IInv /\ [Next]_vars => IInv'
  BY TypedStep, FiniteStep, LockStep, SeenStep, StoreStep, RowStep, NameStep, LinkStep,
     ListStep DEF IInv
<1>2. QED
  BY <1>1, InitIInv, PTL DEF Spec

\* Every variable keeps its type: a link is that of a video, and what a worker holds on
\* to is there (rows.py, links.py).
THEOREM TypeCorrect == Spec => []TypeOK
<1>1. IInv => TypeOK
  <2>1. SUFFICES ASSUME IInv PROVE TypeOK
    OBVIOUS
  <2>2. Typed /\ LockInv /\ StoreInv /\ RowInv
    BY <2>1 DEF IInv
  <2>3. videos \in Seq(Recordings) /\ DOMAIN videos = 1..Len(videos) /\ Len(videos) \in Nat
    BY <2>2, LenProperties DEF Typed
  <2>4. \A i \in Ids : rows[i] \in 0..Len(videos)
    BY <2>2, <2>3 DEF RowInv, Linked, MadeFrom, NoVideo
  <2>5. \A n \in Names : store[n] = NoEntry
                        \/ store[n] \in [rec : Recordings, video : DOMAIN videos]
    BY <2>2 DEF StoreInv, MadeFrom, Typed, Entries
  <2>6. \A l \in Listers :
           lister[l].pc \in {"idle", "confirm", "list", "scan", "accept", "install"}
    BY <2>2, ListerFacts DEF Typed
  <2>7. Captured \subseteq DOMAIN infos
    BY <2>2 DEF LockInv, Captured, ToDelete, busy
  <2>8. DOMAIN infos \subseteq Minted /\ \A i \in DOMAIN infos : infos[i] \in Info
    BY <2>2 DEF Typed
  <2>9. Ids \subseteq DOMAIN infos
    BY <2>2 DEF Typed
  <2>10. QED
    BY <2>2, <2>4, <2>5, <2>6, <2>7, <2>8, <2>9, WorkerFacts DEF TypeOK, Typed, Files
<1>2. QED
  BY <1>1, Invariance, PTL

\* A VideoInfo still in use names the file it was made from, wherever renames have
\* taken that file (rename_recording repoints every one that named it).
THEOREM CapturesFollowFilesAlways == Spec => []CapturesFollowFiles
<1>1. IInv => CapturesFollowFiles
  BY DEF IInv, NameInv, Moved, Fits, CapturesFollowFiles
<1>2. QED
  BY <1>1, Invariance, PTL

\* The newest video of a recording on disk is found under the name the recording has
\* now (links.rename and _link).
THEOREM LinksFollowFilesAlways == Spec => []LinksFollowFiles
<1>1. IInv => LinksFollowFiles
  <2>1. SUFFICES ASSUME IInv, renamer.pc # "moved", uploader.pc # "persist", ~strayed,
                        NEW v \in DOMAIN videos, NEW n \in Names, file[n] = videos[v],
                        \A w \in DOMAIN videos : w > v => videos[w] # videos[v]
                 PROVE  Lookup(n, videos[v]) = v
    BY DEF LinksFollowFiles
  <2>2. ~Newer(v) /\ ~Owed(v) /\ ~Moved
    BY <2>1 DEF Newer, Owed, Moved
  <2>3. store[n].rec = videos[v] /\ store[n].video = v
    BY <2>1, <2>2 DEF IInv, LinkInv, At
  <2>4. QED
    BY <2>3 DEF Lookup
<1>2. QED
  BY <1>1, Invariance, PTL

\* A row never shows a video made from another recording than its own, as long as the
\* file that was read was the captured one (the late link of an upload looks its row up
\* by id, and the store by version).
THEOREM RowsShowTheirOwnVideoAlways == Spec => []RowsShowTheirOwnVideo
<1>1. IInv => RowsShowTheirOwnVideo
  BY DEF IInv, RowInv, Linked, MadeFrom, RowsShowTheirOwnVideo
<1>2. QED
  BY <1>1, Invariance, PTL

\* Every row is a recording that is on disk, under that name and in the watched folder,
\* or a rebuild that will put it right has begun or is about to (list_rows).
THEOREM ListIsCurrentAlways == Spec => []ListIsCurrent
<1>1. IInv => ListIsCurrent
  <2>1. SUFFICES ASSUME IInv, renamer.pc # "moved", ~strayed PROVE ListIsCurrent
    BY DEF ListIsCurrent
  <2>2. ~Moved /\ ListInv
    BY <2>1 DEF Moved, IInv
  <2>3. CASE Pending
    BY <2>3 DEF Pending, ListIsCurrent
  <2>4. ASSUME NEW l \in Listers, Newest(l) PROVE ListIsCurrent
    BY <2>4 DEF Newest, Scanning, ListIsCurrent
  <2>5. CASE \A i \in Ids : RowCurrent(i)
    BY <2>2, <2>5 DEF RowCurrent, ListIsCurrent
  <2>6. QED
    BY <2>1, <2>2, <2>3, <2>4, <2>5 DEF ListInv
<1>2. QED
  BY <1>1, Invariance, PTL
=============================================================================
