------------------------ MODULE AppLifecycle_proofs ------------------------
(***************************************************************************)
(* Proofs about AppLifecycle for any set of work threads, any set of       *)
(* install_update calls and any number of downloads.                       *)
(***************************************************************************)
EXTENDS AppLifecycle, TLAPS

-----------------------------------------------------------------------------
(* The inductive invariant, in named parts. *)

\* Program counters of an installation between its reservation and its end.
HandingPcs == {"claim", "refused", "spawn", "start", "undo", "undoRelease",
               "undoState", "begin"}
RevalidatingPcs == {"advance", "verify", "execute", "fail", "failRelease",
                    "failState", "launched"}
LaunchingPcs == {"launching", "shutdown", "destroy"}
SetupPcs == {"launched", "launching", "shutdown", "destroy"}
\* Where an installation under way has not got the claim, or given it back.
FreePcs == {"claim", "refused", "undoState", "failState"}
ReservedPcs == HandingPcs \cup RevalidatingPcs \cup LaunchingPcs

\* The runtime state is the reservation: it says how far the one installation
\* under way has come.
Reservation ==
    /\ \A i \in Installs :
        /\ ipc[i] \in HandingPcs => ustate \in {"handing_off", "closed"}
        /\ ipc[i] \in RevalidatingPcs => ustate \in {"revalidating", "closed"}
        /\ ipc[i] \in LaunchingPcs => ustate \in {"launching", "closed"}
    /\ \A i, j \in Installs :
        ipc[i] \in ReservedPcs /\ ipc[j] \in ReservedPcs => i = j

\* A check or a download in flight keeps the runtime state to itself.
NetReservation ==
    /\ net \in {"checkStart", "check"} => ustate \in {"checking", "closed"}
    /\ net \in {"downloadStart", "download", "landed", "verify", "discard", "settle"}
        => ustate \in {"downloading", "closed"}

\* A set handoff flag is somebody's.
HandoffKept ==
    handoff # NoPhase => \/ \E i \in Installs : ipc[i] \in HoldingPcs
                         \/ ustate \in {"launching", "closed"}

\* The gate's handoff flag and the installation that owns it.
Ownerships ==
    /\ \A i \in Installs : ipc[i] \in HoldingPcs => handoff # NoPhase
    /\ \A i \in Installs : ipc[i] \in FreePcs => handoff = NoPhase
    /\ HandoffKept

\* The gate's upload flag and the one tenant that owns it.
Tenancy ==
    /\ \A w \in Workers : work[w] = "working" => upload
    /\ \A v, w \in Workers : work[v] = "working" /\ work[w] = "working" => v = w
    /\ upload => Working # {} /\ handoff = NoPhase

\* Once Setup runs the handoff stays claimed and nobody is left to give it up.
SetupKeepsHandoff ==
    /\ \A i \in Installs : ipc[i] \in SetupPcs => setup
    /\ setup => /\ handoff # NoPhase
                /\ ustate \in {"revalidating", "launching", "closed"}
                /\ \A i \in Installs : ipc[i] \in {"idle", "remove"} \cup SetupPcs

\* Quit's grant, against the handoff and against the upload.
QuitGrant ==
    /\ QuitExcludesHandoff
    /\ quit = "destroy" => quitting
    /\ \A i \in Installs : ipc[i] = "destroy" => quitting
    /\ quitting /\ upload => forced
    /\ forced => quitting

\* Installer files: numbers grow, a file that may be installed is on disk, and
\* the removals still to come are of older files.
FileKeeping ==
    /\ staged \in 0 .. downloads
    /\ files \subseteq 1 .. downloads
    /\ main # "run" => ustate = "closed"
    /\ ustate \in {"ready", "handing_off", "revalidating"} => staged \in files
    /\ net \in {"landed", "verify"} /\ ustate # "closed" => downloads \in files
    /\ \A i \in Installs :
        /\ ipc[i] # "idle" => ipath[i] \in 1 .. downloads
        /\ ipc[i] = "remove" /\ ustate # "closed" =>
            /\ ipath[i] # staged
            /\ net \in {"landed", "verify"} => ipath[i] # downloads

IInv ==
    /\ TypeOK
    /\ Reservation
    /\ NetReservation
    /\ Ownerships
    /\ Tenancy
    /\ SetupKeepsHandoff
    /\ QuitGrant
    /\ FileKeeping

-----------------------------------------------------------------------------
(* Type correctness, part by part: each part reads only itself, but for    *)
(* the file numbers that pass from one part to another.                    *)

\* The flags of the work gate keep their types: the updater passes phases it has.
LEMMA GateTyped ==
    ASSUME GateTypeOK, [Next]_vars
    PROVE  GateTypeOK'
<1> USE DEF GateTypeOK, gate
<1>1. CASE WorkNext
  BY <1>1 DEF WorkNext, WorkClaim, WorkRelease, ClaimUpload, ReleaseUpload
<1>2. CASE CheckNext \/ DownloadNext \/ MainNext \/ UNCHANGED vars
  BY <1>2 DEF CheckNext, StartCheck, AdoptCheck, CheckStarted, CheckNotStarted,
     CheckAnswered, CheckFailed, DownloadNext, StartDownload, DownloadStarted,
     DownloadNotStarted, Downloaded, NotDownloaded, DownloadLanded, DownloadVerified,
     DownloadRejected, DownloadDiscard, DownloadSettle, MainNext, WindowClosed,
     WindowCrashed, CloseUpdates, RemoveStaged, Exit, Exited, vars
<1>3. ASSUME NEW i \in Installs, InstallReserve(i) \/ InstallStep(i) PROVE GateTypeOK'
  BY <1>3, UpdaterPhases DEF InstallReserve, InstallStep, InstallClaim, InstallRefused,
     InstallSpawn, InstallStart, InstallUndo, InstallUndoRelease, InstallUndoState,
     WorkerBegin, WorkerAdvance, WorkerVerify, WorkerExecute, WorkerFail,
     WorkerFailRelease, WorkerFailState, WorkerRemove, WorkerLaunched,
     WorkerLaunching, WorkerShutdown, WorkerDestroy, ClaimHandoff, ReleaseHandoff,
     BeginUpdateShutdown
<1>4. CASE QuitNext
  BY <1>4 DEF QuitNext, QuitClicked, QuitAnswered, QuitForced, QuitDestroys, ClaimQuit
<1> QED
  BY <1>1, <1>2, <1>3, <1>4 DEF Next, InstallNext

\* The updater's runtime state stays in its table of phases, and a rolled back
\* check restores one a check may start from.
LEMMA UpdateTyped ==
    ASSUME UpdateTypeOK, ThreadTypeOK, [Next]_vars
    PROVE  UpdateTypeOK'
<1> USE DEF UpdateTypeOK, update, States, CheckAllowed
<1>1. CASE CheckNext
  <2>1. ASSUME NEW auto \in BOOLEAN, StartCheck(auto) PROVE UpdateTypeOK'
    BY <2>1 DEF StartCheck
  <2>2. CASE AdoptCheck \/ CheckStarted
    BY <2>2 DEF AdoptCheck, CheckStarted
  <2>3. CASE CheckNotStarted
    BY <2>3 DEF CheckNotStarted
  <2>4. ASSUME NEW found \in BOOLEAN, CheckAnswered(found) PROVE UpdateTypeOK'
    <3>1. CASE ustate = "closed"
      BY <2>4, <3>1 DEF CheckAnswered
    <3>2. CASE ustate # "closed"
      <4>1. release' \in BOOLEAN /\ automatic' \in BOOLEAN
        BY <2>4, <3>2 DEF CheckAnswered
      <4>2. ustate' \in States /\ staged' \in Nat /\ previous' = previous
        BY <2>4, <3>2 DEF CheckAnswered, NoFile
      <4> QED
        BY <4>1, <4>2
    <3> QED
      BY <3>1, <3>2
  <2>5. CASE CheckFailed
    BY <2>5 DEF CheckFailed
  <2> QED
    BY <1>1, <2>1, <2>2, <2>3, <2>4, <2>5 DEF CheckNext
<1>2. CASE DownloadNext
  <2>1. CASE StartDownload \/ DownloadSettle
    BY <2>1 DEF StartDownload, DownloadSettle, NoFile
  <2>2. CASE DownloadVerified
    BY <2>2 DEF DownloadVerified, ThreadTypeOK
  <2>3. CASE DownloadStarted \/ DownloadNotStarted \/ Downloaded \/ NotDownloaded
             \/ DownloadLanded \/ DownloadRejected \/ DownloadDiscard
    BY <2>3 DEF DownloadStarted, DownloadNotStarted, Downloaded, NotDownloaded,
       DownloadLanded, DownloadRejected, DownloadDiscard
  <2> QED
    BY <1>2, <2>1, <2>2, <2>3 DEF DownloadNext
<1>3. ASSUME NEW i \in Installs, InstallReserve(i) \/ InstallStep(i) PROVE UpdateTypeOK'
  <2>1. CASE InstallReserve(i) \/ InstallRefused(i) \/ InstallUndoState(i)
             \/ WorkerBegin(i) \/ WorkerFailState(i) \/ WorkerLaunched(i)
    BY <2>1 DEF InstallReserve, InstallRefused, InstallUndoState, WorkerBegin,
       WorkerFailState, WorkerLaunched, NoFile
  <2>2. CASE UNCHANGED update
    BY <2>2
  <2> QED
    BY <1>3, <2>1, <2>2 DEF InstallStep, InstallClaim, InstallSpawn, InstallStart,
       InstallUndo, InstallUndoRelease, WorkerAdvance, WorkerVerify, WorkerExecute,
       WorkerFail, WorkerFailRelease, WorkerRemove, WorkerLaunching, WorkerShutdown,
       WorkerDestroy
<1>4. CASE MainNext
  BY <1>4 DEF MainNext, WindowClosed, WindowCrashed, CloseUpdates, RemoveStaged, Exit,
     Exited, vars, NoFile
<1>5. CASE WorkNext \/ QuitNext \/ UNCHANGED vars
  BY <1>5 DEF WorkNext, WorkClaim, WorkRelease, QuitNext, QuitClicked, QuitAnswered,
     QuitForced, QuitDestroys, vars
<1> QED
  BY <1>1, <1>2, <1>3, <1>4, <1>5 DEF Next, InstallNext

\* Every thread stays at one of its program points, every file is a numbered one.
LEMMA ThreadTyped ==
    ASSUME ThreadTypeOK, UpdateTypeOK, [Next]_vars
    PROVE  ThreadTypeOK'
<1> USE DEF ThreadTypeOK, netvars, install
<1>1. CASE WorkNext
  BY <1>1 DEF WorkNext, WorkClaim, WorkRelease
<1>2. CASE CheckNext
  BY <1>2 DEF CheckNext, StartCheck, AdoptCheck, CheckStarted, CheckNotStarted,
     CheckAnswered, CheckFailed, NetPcs
<1>3. CASE DownloadNext
  <2>1. CASE Downloaded
    <3>1. downloads + 1 \in Nat \ {NoFile}
      BY DEF NoFile
    <3> QED
      BY <2>1, <3>1 DEF Downloaded, NetPcs
  <2>2. CASE StartDownload \/ DownloadStarted \/ DownloadNotStarted \/ NotDownloaded
             \/ DownloadLanded \/ DownloadVerified \/ DownloadRejected \/ DownloadSettle
    BY <2>2 DEF StartDownload, DownloadStarted, DownloadNotStarted, NotDownloaded,
       DownloadLanded, DownloadVerified, DownloadRejected, DownloadSettle, NetPcs
  <2>3. CASE DownloadDiscard
    BY <2>3 DEF DownloadDiscard, TryRemove, NetPcs
  <2> QED
    BY <1>3, <2>1, <2>2, <2>3 DEF DownloadNext
<1>4. ASSUME NEW i \in Installs, InstallReserve(i) \/ InstallStep(i) PROVE ThreadTypeOK'
  <2> USE DEF Goto, InstallPcs
  <2>1. CASE InstallReserve(i)
    BY <2>1 DEF InstallReserve, UpdateTypeOK
  <2>2. CASE WorkerExecute(i) \/ WorkerRemove(i)
    BY <2>2 DEF WorkerExecute, WorkerRemove, TryRemove
  <2>3. CASE InstallClaim(i) \/ InstallRefused(i) \/ InstallSpawn(i) \/ InstallStart(i)
             \/ InstallUndo(i) \/ InstallUndoRelease(i) \/ InstallUndoState(i)
    BY <2>3 DEF InstallClaim, InstallRefused, InstallSpawn, InstallStart, InstallUndo,
       InstallUndoRelease, InstallUndoState
  <2>4. CASE WorkerBegin(i) \/ WorkerAdvance(i) \/ WorkerVerify(i) \/ WorkerFail(i)
             \/ WorkerFailRelease(i) \/ WorkerFailState(i) \/ WorkerLaunched(i)
             \/ WorkerLaunching(i) \/ WorkerShutdown(i) \/ WorkerDestroy(i)
    BY <2>4 DEF WorkerBegin, WorkerAdvance, WorkerVerify, WorkerFail,
       WorkerFailRelease, WorkerFailState, WorkerLaunched, WorkerLaunching,
       WorkerShutdown, WorkerDestroy
  <2> QED
    BY <1>4, <2>1, <2>2, <2>3, <2>4 DEF InstallStep
<1>5. CASE QuitNext \/ MainNext \/ UNCHANGED vars
  BY <1>5 DEF QuitNext, QuitClicked, QuitAnswered, QuitForced, QuitDestroys, MainNext,
     WindowClosed, WindowCrashed, CloseUpdates, RemoveStaged, TryRemove, Exit, Exited,
     vars
<1> QED
  BY <1>1, <1>2, <1>3, <1>4, <1>5 DEF Next, InstallNext

\* Quit, the window and the main thread stay at one of their program points.
LEMMA ShellTyped ==
    ASSUME ShellTypeOK, [Next]_vars
    PROVE  ShellTypeOK'
<1> USE DEF ShellTypeOK, shell
<1>1. CASE QuitNext
  BY <1>1 DEF QuitNext, QuitClicked, QuitAnswered, QuitForced, QuitDestroys
<1>2. CASE MainNext \/ UNCHANGED vars
  BY <1>2 DEF MainNext, WindowClosed, WindowCrashed, CloseUpdates, RemoveStaged, Exit,
     Exited, vars
<1>3. CASE WorkNext \/ CheckNext \/ DownloadNext
  BY <1>3 DEF WorkNext, WorkClaim, WorkRelease, CheckNext, StartCheck, AdoptCheck,
     CheckStarted, CheckNotStarted, CheckAnswered, CheckFailed, DownloadNext,
     StartDownload, DownloadStarted, DownloadNotStarted, Downloaded, NotDownloaded,
     DownloadLanded, DownloadVerified, DownloadRejected, DownloadDiscard, DownloadSettle
<1>4. ASSUME NEW i \in Installs, InstallReserve(i) \/ InstallStep(i) PROVE ShellTypeOK'
  <2>1. CASE WorkerDestroy(i)
    BY <2>1 DEF WorkerDestroy
  <2>2. CASE UNCHANGED shell
    BY <2>2
  <2> QED
    BY <1>4, <2>1, <2>2 DEF InstallReserve, InstallStep, InstallClaim, InstallRefused,
       InstallSpawn, InstallStart, InstallUndo, InstallUndoRelease, InstallUndoState,
       WorkerBegin, WorkerAdvance, WorkerVerify, WorkerExecute, WorkerFail,
       WorkerFailRelease, WorkerFailState, WorkerRemove, WorkerLaunched,
       WorkerLaunching, WorkerShutdown
<1> QED
  BY <1>1, <1>2, <1>3, <1>4 DEF Next, InstallNext

\* The process starts with everything in its type.
LEMMA InitTyped ==
    ASSUME Init
    PROVE  TypeOK
<1>1. GateTypeOK
  BY DEF Init, GateInit, GateTypeOK
<1>2. UpdateTypeOK
  BY DEF Init, UpdateTypeOK, States, CheckAllowed, NoFile
<1>3. ThreadTypeOK
  BY DEF Init, ThreadTypeOK, NetPcs, InstallPcs, NoFile
<1>4. ShellTypeOK
  BY DEF Init, ShellTypeOK
<1> QED
  BY <1>1, <1>2, <1>3, <1>4 DEF TypeOK

\* Every variable of the application's lifecycle keeps its type.
THEOREM TypeCorrect == Spec => []TypeOK
<1>1. Init => TypeOK
  BY InitTyped
<1>2. TypeOK /\ [Next]_vars => TypeOK'
  BY GateTyped, UpdateTyped, ThreadTyped, ShellTyped DEF TypeOK
<1> QED
  BY <1>1, <1>2, PTL DEF Spec

-----------------------------------------------------------------------------
(* The parts of the invariant, one lemma each. *)

\* install_update reserves the phase before it asks the gate, so of any number of
\* Install clicks one goes on, and the phase says how far it has come.
LEMMA ReservationStep ==
    ASSUME TypeOK, Reservation, NetReservation, [Next]_vars
    PROVE  Reservation'
<1> USE DEF TypeOK, ThreadTypeOK, UpdateTypeOK, Reservation, ReservedPcs, HandingPcs,
    RevalidatingPcs, LaunchingPcs, install, update
<1>1. CASE WorkNext \/ QuitNext \/ UNCHANGED vars
  BY <1>1 DEF WorkNext, WorkClaim, WorkRelease, QuitNext, QuitClicked, QuitAnswered,
     QuitForced, QuitDestroys, vars
<1>2. CASE CheckNext
  BY <1>2 DEF CheckNext, StartCheck, AdoptCheck, CheckStarted, CheckNotStarted,
     CheckAnswered, CheckFailed, NetReservation, CheckAllowed
<1>3. CASE DownloadNext
  BY <1>3 DEF DownloadNext, StartDownload, DownloadStarted, DownloadNotStarted,
     Downloaded, NotDownloaded, DownloadLanded, DownloadVerified, DownloadRejected,
     DownloadDiscard, DownloadSettle, NetReservation, DownloadAllowed
<1>4. ASSUME NEW i \in Installs, InstallReserve(i) \/ InstallStep(i) PROVE Reservation'
  <2> USE DEF Goto
  <2>1. CASE InstallReserve(i)
    BY <2>1 DEF InstallReserve
  <2>2. CASE InstallClaim(i) \/ InstallSpawn(i) \/ InstallStart(i) \/ InstallUndo(i)
             \/ InstallUndoRelease(i)
    BY <2>2 DEF InstallClaim, InstallSpawn, InstallStart, InstallUndo,
       InstallUndoRelease
  <2>3. CASE InstallRefused(i) \/ InstallUndoState(i)
    BY <2>3 DEF InstallRefused, InstallUndoState
  <2>4. CASE WorkerBegin(i)
    BY <2>4 DEF WorkerBegin
  <2>5. CASE WorkerAdvance(i) \/ WorkerVerify(i) \/ WorkerExecute(i) \/ WorkerFail(i)
             \/ WorkerFailRelease(i) \/ WorkerRemove(i)
    BY <2>5 DEF WorkerAdvance, WorkerVerify, WorkerExecute, WorkerFail,
       WorkerFailRelease, WorkerRemove
  <2>6. CASE WorkerFailState(i)
    BY <2>6 DEF WorkerFailState
  <2>7. CASE WorkerLaunched(i)
    BY <2>7 DEF WorkerLaunched
  <2>8. CASE WorkerLaunching(i) \/ WorkerShutdown(i) \/ WorkerDestroy(i)
    BY <2>8 DEF WorkerLaunching, WorkerShutdown, WorkerDestroy
  <2> QED
    BY <1>4, <2>1, <2>2, <2>3, <2>4, <2>5, <2>6, <2>7, <2>8 DEF InstallStep
<1>5. CASE MainNext
  BY <1>5 DEF MainNext, WindowClosed, WindowCrashed, CloseUpdates, RemoveStaged, Exit,
     Exited, vars
<1> QED
  BY <1>1, <1>2, <1>3, <1>4, <1>5 DEF Next, InstallNext

\* A check or a download keeps its phase: an installation or another download
\* cannot begin before it has settled.
LEMMA NetReservationStep ==
    ASSUME TypeOK, NetReservation, Reservation, [Next]_vars
    PROVE  NetReservation'
<1> USE DEF TypeOK, ThreadTypeOK, UpdateTypeOK, NetReservation, NetPcs, netvars, update
<1>1. CASE WorkNext \/ QuitNext \/ UNCHANGED vars
  BY <1>1 DEF WorkNext, WorkClaim, WorkRelease, QuitNext, QuitClicked, QuitAnswered,
     QuitForced, QuitDestroys, vars
<1>2. CASE CheckNext
  BY <1>2 DEF CheckNext, StartCheck, AdoptCheck, CheckStarted, CheckNotStarted,
     CheckAnswered, CheckFailed
<1>3. CASE DownloadNext
  BY <1>3 DEF DownloadNext, StartDownload, DownloadStarted, DownloadNotStarted,
     Downloaded, NotDownloaded, DownloadLanded, DownloadVerified, DownloadRejected,
     DownloadDiscard, DownloadSettle
<1>4. ASSUME NEW i \in Installs, InstallReserve(i) \/ InstallStep(i)
      PROVE  NetReservation'
  <2>1. net' = net
    BY <1>4 DEF InstallReserve, InstallStep, InstallClaim, InstallRefused, InstallSpawn,
       InstallStart, InstallUndo, InstallUndoRelease, InstallUndoState, WorkerBegin,
       WorkerAdvance, WorkerVerify, WorkerExecute, WorkerFail, WorkerFailRelease,
       WorkerFailState, WorkerRemove, WorkerLaunched, WorkerLaunching, WorkerShutdown,
       WorkerDestroy
  <2>2. ustate' = ustate \/ ustate \notin {"checking", "downloading", "closed"}
    BY <1>4 DEF InstallReserve, InstallStep, InstallClaim, InstallRefused, InstallSpawn,
       InstallStart, InstallUndo, InstallUndoRelease, InstallUndoState, WorkerBegin,
       WorkerAdvance, WorkerVerify, WorkerExecute, WorkerFail, WorkerFailRelease,
       WorkerFailState, WorkerRemove, WorkerLaunched, WorkerLaunching, WorkerShutdown,
       WorkerDestroy, Reservation, HandingPcs, RevalidatingPcs
  <2> QED
    BY <2>1, <2>2
<1>5. CASE MainNext
  BY <1>5 DEF MainNext, WindowClosed, WindowCrashed, CloseUpdates, RemoveStaged, Exit,
     Exited, vars
<1> QED
  BY <1>1, <1>2, <1>3, <1>4, <1>5 DEF Next, InstallNext

\* Every claim of the gate's upload flag refuses a second tenant and a handoff.
LEMMA TenancyStep ==
    ASSUME TypeOK, Tenancy, [Next]_vars
    PROVE  Tenancy'
<1> USE DEF TypeOK, ThreadTypeOK, GateTypeOK, Tenancy, Working, gate, NoPhase
<1>1. ASSUME NEW w \in Workers, WorkClaim(w) PROVE Tenancy'
  BY <1>1 DEF WorkClaim, ClaimUpload, CanClaimUpload
<1>2. ASSUME NEW w \in Workers, WorkRelease(w) PROVE Tenancy'
  <2>1. \A v \in Workers : work'[v] # "working"
    BY <1>2 DEF WorkRelease
  <2>2. upload' = FALSE
    BY <1>2 DEF WorkRelease, ReleaseUpload
  <2> QED
    BY <2>1, <2>2
<1>3. CASE CheckNext \/ DownloadNext \/ MainNext \/ UNCHANGED vars
  BY <1>3 DEF CheckNext, StartCheck, AdoptCheck, CheckStarted, CheckNotStarted,
     CheckAnswered, CheckFailed, DownloadNext, StartDownload, DownloadStarted,
     DownloadNotStarted, Downloaded, NotDownloaded, DownloadLanded, DownloadVerified,
     DownloadRejected, DownloadDiscard, DownloadSettle, MainNext, WindowClosed,
     WindowCrashed, CloseUpdates, RemoveStaged, Exit, Exited, vars
<1>4. ASSUME NEW i \in Installs, InstallReserve(i) \/ InstallStep(i) PROVE Tenancy'
  BY <1>4 DEF InstallReserve, InstallStep, InstallClaim, InstallRefused, InstallSpawn,
     InstallStart, InstallUndo, InstallUndoRelease, InstallUndoState, WorkerBegin,
     WorkerAdvance, WorkerVerify, WorkerExecute, WorkerFail, WorkerFailRelease,
     WorkerFailState, WorkerRemove, WorkerLaunched, WorkerLaunching, WorkerShutdown,
     WorkerDestroy, ClaimHandoff, CanClaimHandoff, ReleaseHandoff, BeginUpdateShutdown
<1>5. CASE QuitNext
  <2>1. UNCHANGED <<work, upload, handoff>>
    BY <1>5 DEF QuitNext, QuitClicked, QuitAnswered, QuitForced, QuitDestroys, ClaimQuit
  <2> QED
    BY <2>1
<1> QED
  BY <1>1, <1>2, <1>3, <1>4, <1>5 DEF Next, WorkNext, InstallNext

\* Each installation releases the handoff it claimed, and no other one's: the
\* release comes before the state goes back to ready.
LEMMA OwnershipsStep ==
    ASSUME TypeOK, Reservation, NetReservation, Ownerships, [Next]_vars
    PROVE  Ownerships'
<1> USE DEF TypeOK, ThreadTypeOK, UpdateTypeOK, GateTypeOK, Ownerships, HandoffKept,
    HoldingPcs, FreePcs, NoPhase, gate, install
<1>1. CASE WorkNext \/ QuitNext \/ UNCHANGED vars
  <2>1. UNCHANGED <<handoff, ipc, ustate>>
    BY <1>1 DEF WorkNext, WorkClaim, WorkRelease, ClaimUpload, ReleaseUpload, QuitNext,
       QuitClicked, QuitAnswered, QuitForced, QuitDestroys, ClaimQuit, vars, update
  <2> QED
    BY <2>1
<1>2. CASE CheckNext \/ DownloadNext \/ MainNext
  <2>1. UNCHANGED <<gate, ipc>>
    BY <1>2 DEF CheckNext, StartCheck, AdoptCheck, CheckStarted, CheckNotStarted,
       CheckAnswered, CheckFailed, DownloadNext, StartDownload, DownloadStarted,
       DownloadNotStarted, Downloaded, NotDownloaded, DownloadLanded, DownloadVerified,
       DownloadRejected, DownloadDiscard, DownloadSettle, MainNext, WindowClosed,
       WindowCrashed, CloseUpdates, RemoveStaged, Exit, Exited, vars
  <2>2. ustate \in {"launching", "closed"} => ustate' \in {"launching", "closed"}
    BY <1>2 DEF CheckNext, StartCheck, AdoptCheck, CheckStarted, CheckNotStarted,
       CheckAnswered, CheckFailed, DownloadNext, StartDownload, DownloadStarted,
       DownloadNotStarted, Downloaded, NotDownloaded, DownloadLanded, DownloadVerified,
       DownloadRejected, DownloadDiscard, DownloadSettle, MainNext, WindowClosed,
       WindowCrashed, CloseUpdates, RemoveStaged, Exit, Exited, vars, update,
       NetReservation, CheckAllowed, DownloadAllowed
  <2> QED
    BY <2>1, <2>2
<1>3. ASSUME NEW i \in Installs, InstallReserve(i) \/ InstallStep(i) PROVE Ownerships'
  <2> USE DEF Goto, update
  \* Everybody else's claim is over: only one installation is under way.
  <2>1. ASSUME ipc[i] \in ReservedPcs
        PROVE  \A j \in Installs : j # i => ipc[j] \notin HoldingPcs
    BY <2>1 DEF Reservation, ReservedPcs, HandingPcs, RevalidatingPcs, LaunchingPcs
  <2>2. CASE InstallReserve(i)
    <3>1. handoff = NoPhase
      BY <2>2 DEF InstallReserve, Reservation, HandingPcs, RevalidatingPcs, LaunchingPcs
    <3> QED
      BY <2>2, <3>1 DEF InstallReserve
  <2>3. CASE InstallClaim(i) \/ WorkerAdvance(i) \/ WorkerLaunching(i)
    <3>1. \A j \in Installs : j # i => ipc[j] \notin FreePcs
      BY <2>3 DEF InstallClaim, WorkerAdvance, WorkerLaunching, Reservation,
         ReservedPcs, HandingPcs, RevalidatingPcs, LaunchingPcs
    <3> QED
      BY <2>3, <3>1 DEF InstallClaim, WorkerAdvance, WorkerLaunching, ClaimHandoff
  <2>4. CASE InstallUndoRelease(i) \/ WorkerFailRelease(i)
    <3>1. ipc[i] \in ReservedPcs
      BY <2>4 DEF InstallUndoRelease, WorkerFailRelease, ReservedPcs, HandingPcs,
         RevalidatingPcs
    <3>2. handoff' = NoPhase
      BY <2>4 DEF InstallUndoRelease, WorkerFailRelease, ReleaseHandoff
    <3>3. ipc'[i] \notin HoldingPcs /\ \A j \in Installs : j # i => ipc'[j] = ipc[j]
      BY <2>4 DEF InstallUndoRelease, WorkerFailRelease
    <3> QED
      BY <2>1, <3>1, <3>2, <3>3
  <2>5. CASE InstallRefused(i) \/ InstallUndoState(i) \/ WorkerFailState(i)
    BY <2>5 DEF InstallRefused, InstallUndoState, WorkerFailState, Reservation,
       HandingPcs, RevalidatingPcs
  <2>6. CASE InstallSpawn(i) \/ InstallStart(i) \/ InstallUndo(i) \/ WorkerVerify(i)
             \/ WorkerExecute(i) \/ WorkerFail(i) \/ WorkerRemove(i)
    BY <2>6 DEF InstallSpawn, InstallStart, InstallUndo, WorkerVerify, WorkerExecute,
       WorkerFail, WorkerRemove
  <2>7. CASE WorkerBegin(i) \/ WorkerLaunched(i)
    BY <2>7 DEF WorkerBegin, WorkerLaunched, Reservation, HandingPcs
  <2>8. CASE WorkerShutdown(i) \/ WorkerDestroy(i)
    BY <2>8 DEF WorkerShutdown, WorkerDestroy, BeginUpdateShutdown, Reservation,
       LaunchingPcs
  <2> QED
    BY <1>3, <2>2, <2>3, <2>4, <2>5, <2>6, <2>7, <2>8 DEF InstallStep
<1> QED
  BY <1>1, <1>2, <1>3 DEF Next, InstallNext

\* No installation that could release the handoff is under way once Setup runs.
LEMMA SetupKeepsHandoffStep ==
    ASSUME TypeOK, Reservation, NetReservation, Ownerships, SetupKeepsHandoff,
           [Next]_vars
    PROVE  SetupKeepsHandoff'
<1> USE DEF TypeOK, ThreadTypeOK, UpdateTypeOK, GateTypeOK, SetupKeepsHandoff,
    SetupPcs, NoPhase, gate, install
<1>1. CASE WorkNext \/ QuitNext \/ UNCHANGED vars
  <2>1. UNCHANGED <<handoff, ipc, ustate, setup>>
    BY <1>1 DEF WorkNext, WorkClaim, WorkRelease, ClaimUpload, ReleaseUpload, QuitNext,
       QuitClicked, QuitAnswered, QuitForced, QuitDestroys, ClaimQuit, vars, update
  <2> QED
    BY <2>1
<1>2. CASE CheckNext \/ DownloadNext \/ MainNext
  <2>1. UNCHANGED <<gate, ipc, setup>>
    BY <1>2 DEF CheckNext, StartCheck, AdoptCheck, CheckStarted, CheckNotStarted,
       CheckAnswered, CheckFailed, DownloadNext, StartDownload, DownloadStarted,
       DownloadNotStarted, Downloaded, NotDownloaded, DownloadLanded, DownloadVerified,
       DownloadRejected, DownloadDiscard, DownloadSettle, MainNext, WindowClosed,
       WindowCrashed, CloseUpdates, RemoveStaged, Exit, Exited, vars
  <2>2. ustate \in {"revalidating", "launching", "closed"} =>
            ustate' \in {"revalidating", "launching", "closed"}
    BY <1>2 DEF CheckNext, StartCheck, AdoptCheck, CheckStarted, CheckNotStarted,
       CheckAnswered, CheckFailed, DownloadNext, StartDownload, DownloadStarted,
       DownloadNotStarted, Downloaded, NotDownloaded, DownloadLanded, DownloadVerified,
       DownloadRejected, DownloadDiscard, DownloadSettle, MainNext, WindowClosed,
       WindowCrashed, CloseUpdates, RemoveStaged, Exit, Exited, vars, update,
       NetReservation, CheckAllowed, DownloadAllowed
  <2> QED
    BY <2>1, <2>2
<1>3. ASSUME NEW i \in Installs, InstallReserve(i) \/ InstallStep(i)
      PROVE  SetupKeepsHandoff'
  <2> USE DEF Goto, update
  <2>1. CASE WorkerExecute(i)
    <3>1. handoff # NoPhase /\ ustate \in {"revalidating", "closed"}
      BY <2>1 DEF WorkerExecute, Ownerships, HoldingPcs, Reservation, RevalidatingPcs
    <3>2. \A j \in Installs : j # i => ipc[j] \in {"idle", "remove"}
      BY <2>1 DEF WorkerExecute, Reservation, ReservedPcs, HandingPcs, RevalidatingPcs,
         LaunchingPcs, InstallPcs
    <3> QED
      BY <2>1, <3>1, <3>2 DEF WorkerExecute
  <2>2. CASE WorkerLaunched(i) \/ WorkerLaunching(i) \/ WorkerShutdown(i)
             \/ WorkerDestroy(i) \/ WorkerRemove(i)
    BY <2>2 DEF WorkerLaunched, WorkerLaunching, WorkerShutdown, WorkerDestroy,
       WorkerRemove, ClaimHandoff, BeginUpdateShutdown
  <2>3. CASE InstallReserve(i)
    BY <2>3 DEF InstallReserve
  <2>4. CASE InstallClaim(i) \/ InstallRefused(i) \/ InstallSpawn(i) \/ InstallStart(i)
             \/ InstallUndo(i) \/ InstallUndoRelease(i) \/ InstallUndoState(i)
    BY <2>4 DEF InstallClaim, InstallRefused, InstallSpawn, InstallStart, InstallUndo,
       InstallUndoRelease, InstallUndoState
  <2>5. CASE WorkerBegin(i) \/ WorkerAdvance(i) \/ WorkerVerify(i) \/ WorkerFail(i)
             \/ WorkerFailRelease(i) \/ WorkerFailState(i)
    BY <2>5 DEF WorkerBegin, WorkerAdvance, WorkerVerify, WorkerFail,
       WorkerFailRelease, WorkerFailState
  <2> QED
    BY <1>3, <2>1, <2>2, <2>3, <2>4, <2>5 DEF InstallStep
<1> QED
  BY <1>1, <1>2, <1>3 DEF Next, InstallNext

\* Quit is granted under no handoff, over an upload only by force, and for good.
LEMMA QuitGrantStep ==
    ASSUME TypeOK, Tenancy, Ownerships, SetupKeepsHandoff, QuitGrant, [Next]_vars
    PROVE  QuitGrant'
<1> USE DEF TypeOK, ThreadTypeOK, ShellTypeOK, GateTypeOK, QuitGrant,
    QuitExcludesHandoff, NoPhase, gate, install, shell
<1>1. CASE WorkNext
  BY <1>1 DEF WorkNext, WorkClaim, WorkRelease, ClaimUpload, CanClaimUpload,
     ReleaseUpload
<1>2. CASE CheckNext \/ DownloadNext \/ MainNext \/ UNCHANGED vars
  BY <1>2 DEF CheckNext, StartCheck, AdoptCheck, CheckStarted, CheckNotStarted,
     CheckAnswered, CheckFailed, DownloadNext, StartDownload, DownloadStarted,
     DownloadNotStarted, Downloaded, NotDownloaded, DownloadLanded, DownloadVerified,
     DownloadRejected, DownloadDiscard, DownloadSettle, MainNext, WindowClosed,
     WindowCrashed, CloseUpdates, RemoveStaged, Exit, Exited, vars
<1>3. ASSUME NEW i \in Installs, InstallReserve(i) \/ InstallStep(i) PROVE QuitGrant'
  <2> USE DEF Goto
  <2>1. CASE WorkerShutdown(i)
    <3>1. handoff # NoPhase /\ setup /\ ~upload
      BY <2>1 DEF WorkerShutdown, Ownerships, HoldingPcs, SetupKeepsHandoff, SetupPcs,
         Tenancy
    <3> QED
      BY <2>1, <3>1 DEF WorkerShutdown, BeginUpdateShutdown
  <2>2. CASE WorkerDestroy(i)
    BY <2>2 DEF WorkerDestroy
  <2>3. CASE InstallClaim(i) \/ WorkerAdvance(i) \/ WorkerLaunching(i)
    BY <2>3 DEF InstallClaim, WorkerAdvance, WorkerLaunching, ClaimHandoff,
       CanClaimHandoff
  <2>4. CASE InstallUndoRelease(i) \/ WorkerFailRelease(i)
    BY <2>4 DEF InstallUndoRelease, WorkerFailRelease, ReleaseHandoff
  <2>5. CASE WorkerExecute(i)
    BY <2>5 DEF WorkerExecute
  <2>6. CASE InstallReserve(i) \/ InstallRefused(i) \/ InstallSpawn(i)
             \/ InstallStart(i) \/ InstallUndo(i) \/ InstallUndoState(i)
    BY <2>6 DEF InstallReserve, InstallRefused, InstallSpawn, InstallStart,
       InstallUndo, InstallUndoState
  <2>7. CASE WorkerBegin(i) \/ WorkerVerify(i) \/ WorkerFail(i) \/ WorkerFailState(i)
             \/ WorkerRemove(i) \/ WorkerLaunched(i)
    BY <2>7 DEF WorkerBegin, WorkerVerify, WorkerFail, WorkerFailState, WorkerRemove,
       WorkerLaunched
  <2> QED
    BY <1>3, <2>1, <2>2, <2>3, <2>4, <2>5, <2>6, <2>7 DEF InstallStep
<1>4. CASE QuitNext
  <2>1. CASE QuitClicked
    BY <2>1 DEF QuitClicked, ClaimQuit, CanClaimQuit
  <2>2. CASE QuitAnswered
    BY <2>2 DEF QuitAnswered
  <2>3. CASE QuitForced
    BY <2>3 DEF QuitForced, ClaimQuit, CanClaimQuit
  <2>4. CASE QuitDestroys
    BY <2>4 DEF QuitDestroys
  <2> QED
    BY <1>4, <2>1, <2>2, <2>3, <2>4 DEF QuitNext
<1> QED
  BY <1>1, <1>2, <1>3, <1>4 DEF Next, InstallNext

\* A file that may still be installed is not among those the removals are after.
LEMMA FileKeepingStep ==
    ASSUME TypeOK, Reservation, NetReservation, FileKeeping, [Next]_vars
    PROVE  FileKeeping'
<1> USE DEF TypeOK, ThreadTypeOK, UpdateTypeOK, ShellTypeOK, FileKeeping, NoFile,
    install, update, netvars
<1>1. CASE WorkNext \/ QuitNext \/ UNCHANGED vars
  <2>1. UNCHANGED <<update, netvars, files, install, main>>
    BY <1>1 DEF WorkNext, WorkClaim, WorkRelease, QuitNext, QuitClicked, QuitAnswered,
       QuitForced, QuitDestroys, vars, shell
  <2> QED
    BY <2>1
<1>2. CASE CheckNext
  <2>1. UNCHANGED <<downloads, files, install, main>>
    BY <1>2 DEF CheckNext, StartCheck, AdoptCheck, CheckStarted, CheckNotStarted,
       CheckAnswered, CheckFailed, shell
  <2>2. /\ staged' \in {staged, 0}
        /\ net' \notin {"landed", "verify"} \/ (net' = net /\ ustate' = ustate)
        /\ ustate = "closed" => ustate' = "closed"
        /\ ustate' \in {"ready", "handing_off", "revalidating"} =>
              ustate' = ustate /\ staged' = staged
        /\ ustate' # "closed" => ustate # "closed"
    BY <1>2 DEF CheckNext, StartCheck, AdoptCheck, CheckStarted, CheckNotStarted,
       CheckAnswered, CheckFailed, NetReservation, CheckAllowed
  <2> QED
    BY <2>1, <2>2
<1>3. CASE DownloadNext
  <2> USE DEF NetReservation, DownloadAllowed, shell
  <2>1. CASE Downloaded
    BY <2>1 DEF Downloaded
  <2>2. CASE DownloadVerified
    BY <2>2 DEF DownloadVerified
  <2>3. CASE DownloadDiscard
    BY <2>3 DEF DownloadDiscard, TryRemove
  <2>4. CASE StartDownload \/ DownloadSettle
    <3>1. /\ staged' \in {0, staged}
          /\ ustate' \in {"downloading", "download_failed", ustate}
          /\ net' \notin {"landed", "verify"}
          /\ ustate = "closed" <=> ustate' = "closed"
          /\ ustate' \notin {"ready", "handing_off", "revalidating"}
      BY <2>4 DEF StartDownload, DownloadSettle
    <3>2. UNCHANGED <<downloads, files, install, main>>
      BY <2>4 DEF StartDownload, DownloadSettle
    <3> QED
      BY <3>1, <3>2
  <2>5. CASE DownloadStarted \/ DownloadNotStarted \/ NotDownloaded \/ DownloadLanded
             \/ DownloadRejected
    BY <2>5 DEF DownloadStarted, DownloadNotStarted, NotDownloaded, DownloadLanded,
       DownloadRejected
  <2> QED
    BY <1>3, <2>1, <2>2, <2>3, <2>4, <2>5 DEF DownloadNext
<1>4. ASSUME NEW i \in Installs, InstallReserve(i) \/ InstallStep(i) PROVE FileKeeping'
  <2> USE DEF Goto, shell
  <2>1. CASE InstallReserve(i)
    BY <2>1 DEF InstallReserve
  <2>2. CASE InstallRefused(i) \/ InstallUndoState(i)
    BY <2>2 DEF InstallRefused, InstallUndoState, Reservation, HandingPcs
  <2>3. CASE WorkerBegin(i) \/ WorkerLaunched(i)
    BY <2>3 DEF WorkerBegin, WorkerLaunched
  <2>4. CASE WorkerFailState(i)
    <3>1. ustate \in {"revalidating", "closed"}
      BY <2>4 DEF WorkerFailState, Reservation, RevalidatingPcs
    <3>2. ustate # "closed" => net \notin {"landed", "verify"}
      BY <3>1 DEF NetReservation
    <3> QED
      BY <2>4, <3>1, <3>2 DEF WorkerFailState
  <2>5. CASE WorkerRemove(i)
    BY <2>5 DEF WorkerRemove, TryRemove
  <2>6. CASE InstallClaim(i) \/ InstallSpawn(i) \/ InstallStart(i) \/ InstallUndo(i)
             \/ InstallUndoRelease(i)
    BY <2>6 DEF InstallClaim, InstallSpawn, InstallStart, InstallUndo,
       InstallUndoRelease
  <2>7. CASE WorkerAdvance(i) \/ WorkerVerify(i) \/ WorkerExecute(i) \/ WorkerFail(i)
             \/ WorkerFailRelease(i) \/ WorkerLaunching(i) \/ WorkerShutdown(i)
             \/ WorkerDestroy(i)
    BY <2>7 DEF WorkerAdvance, WorkerVerify, WorkerExecute, WorkerFail,
       WorkerFailRelease, WorkerLaunching, WorkerShutdown, WorkerDestroy
  <2> QED
    BY <1>4, <2>1, <2>2, <2>3, <2>4, <2>5, <2>6, <2>7 DEF InstallStep
<1>5. CASE MainNext
  <2>1. CASE WindowClosed \/ WindowCrashed
    <3>1. ustate' = "closed" /\ staged' \in 0 .. downloads
      BY <2>1 DEF WindowClosed, WindowCrashed, CloseUpdates
    <3>2. UNCHANGED <<netvars, files, install>>
      BY <2>1 DEF WindowClosed, WindowCrashed, CloseUpdates
    <3> QED
      BY <3>1, <3>2
  <2>2. CASE RemoveStaged
    <3>1. ustate' = "closed" /\ staged' \in 0 .. downloads /\ files' \subseteq files
      BY <2>2 DEF RemoveStaged, TryRemove
    <3>2. UNCHANGED <<netvars, install>>
      BY <2>2 DEF RemoveStaged
    <3> QED
      BY <3>1, <3>2
  <2>3. CASE Exit \/ Exited
    BY <2>3 DEF Exit, Exited, vars
  <2> QED
    BY <1>5, <2>1, <2>2, <2>3 DEF MainNext
<1> QED
  BY <1>1, <1>2, <1>3, <1>4, <1>5 DEF Next, InstallNext

-----------------------------------------------------------------------------
(* The invariant and the theorems. *)

\* The invariant holds when the process starts.
LEMMA IInvInit ==
    ASSUME Init
    PROVE  IInv
<1>1. TypeOK
  BY InitTyped
<1>2. Reservation /\ NetReservation
  BY DEF Init, Reservation, NetReservation, HandingPcs, RevalidatingPcs, LaunchingPcs,
     ReservedPcs
<1>3. Ownerships /\ Tenancy
  BY DEF Init, GateInit, Ownerships, HandoffKept, HoldingPcs, FreePcs, Tenancy
<1>4. SetupKeepsHandoff /\ QuitGrant
  BY DEF Init, GateInit, SetupKeepsHandoff, SetupPcs, QuitGrant, QuitExcludesHandoff
<1>5. FileKeeping
  BY DEF Init, FileKeeping, NoFile
<1> QED
  BY <1>1, <1>2, <1>3, <1>4, <1>5 DEF IInv

\* Every step of every thread keeps the invariant.
LEMMA IInvStep ==
    ASSUME IInv, [Next]_vars
    PROVE  IInv'
<1>1. TypeOK'
  BY GateTyped, UpdateTyped, ThreadTyped, ShellTyped DEF IInv, TypeOK
<1>2. Reservation' /\ NetReservation' /\ Tenancy'
  BY ReservationStep, NetReservationStep, TenancyStep DEF IInv
<1>3. Ownerships' /\ SetupKeepsHandoff' /\ QuitGrant'
  BY OwnershipsStep, SetupKeepsHandoffStep, QuitGrantStep DEF IInv
<1>4. FileKeeping'
  BY FileKeepingStep DEF IInv
<1> QED
  BY <1>1, <1>2, <1>3, <1>4 DEF IInv

\* The invariant holds in every state of every behaviour.
THEOREM Invariance == Spec => []IInv
<1>1. Init => IInv
  BY IInvInit
<1>2. IInv /\ [Next]_vars => IInv'
  BY IInvStep
<1> QED
  BY <1>1, <1>2, PTL DEF Spec

\* No work tenant runs while an installation holds the process, nor ever again
\* once Setup has been started: WorkGate's claims, taken in the order
\* install_update and its worker take them, exclude it for any number of jobs
\* and of Install clicks.
THEOREM SetupExclusion == Spec => []SetupNeverUnderWork
<1>1. IInv => SetupNeverUnderWork
  BY DEF IInv, Tenancy, SetupKeepsHandoff, SetupNeverUnderWork, Working
<1> QED
  BY <1>1, Invariance, PTL

\* The handoff flag has one owner: the reservation of the updater's state admits one
\* installation, which holds the flag from its claim to its release, and a failed or
\* refused one never leaves it behind.
THEOREM HandoffIsOwned == Spec => []HandoffOwned
<1>1. IInv => HandoffOwned
  <2> SUFFICES ASSUME IInv PROVE HandoffOwned
    OBVIOUS
  <2>1. \A i, j \in Holders : i = j
    BY DEF IInv, Reservation, Holders, HoldingPcs, ReservedPcs, HandingPcs,
       RevalidatingPcs, LaunchingPcs
  <2>2. Holders # {} => handoff # NoPhase
    BY DEF IInv, Ownerships, Holders
  <2>3. handoff # NoPhase => Holders # {} \/ ustate \in {"launching", "closed"}
    BY DEF IInv, Ownerships, HandoffKept, Holders
  <2> QED
    BY <2>1, <2>2, <2>3 DEF HandoffOwned
<1> QED
  BY <1>1, Invariance, PTL

\* Whenever Install can be pressed the staged file is on disk, the gate is free
\* of handoffs, and no earlier installation will remove that file.
THEOREM ReadyForInstall == Spec => []ReadyIsInstallable
<1>1. IInv => ReadyIsInstallable
  BY DEF IInv, Ownerships, HandoffKept, HoldingPcs, Reservation, HandingPcs,
     RevalidatingPcs, LaunchingPcs, FileKeeping, ReadyIsInstallable
<1> QED
  BY <1>1, Invariance, PTL

\* The window is destroyed over a running job only after the user agreed.
THEOREM ConsentBeforeDiscard == Spec => []DiscardOnlyByConsent
<1>1. IInv => DiscardOnlyByConsent
  BY DEF IInv, Tenancy, QuitGrant, QuitExcludesHandoff, DiscardOnlyByConsent, Working
<1> QED
  BY <1>1, Invariance, PTL

\* Quit and an installation that has not started Setup exclude each other, and
\* no window goes without one of the two grants.
THEOREM QuitExclusion == Spec => []QuitExcludesHandoff
<1>1. IInv => QuitExcludesHandoff
  BY DEF IInv, QuitGrant
<1> QED
  BY <1>1, Invariance, PTL

-----------------------------------------------------------------------------
(* The threads implement the ownership discipline.  Each step of the code  *)
(* is the abstract step named beside it, or leaves the abstract view alone.*)

\* A fresh process belongs to nobody.
LEMMA OwnershipInit ==
    ASSUME Init
    PROVE  Ownership!Init
BY DEF Init, GateInit, Ownership!Init, Working

\* Each step of a thread is one step of the ownership discipline or none.
LEMMA OwnershipStep ==
    ASSUME IInv, [Next]_vars
    PROVE  [Ownership!Next]_(Ownership!vars)
<1> DEFINE hands == IF setup THEN "launched"
                    ELSE IF handoff # NoPhase THEN "held" ELSE "none"
           Same == Working' = Working /\ hands' = hands
                   /\ quitting' = quitting /\ forced' = forced
<1>1. Same => UNCHANGED Ownership!vars
  BY DEF Ownership!vars
<1>2. ASSUME NEW w \in Workers, WorkClaim(w)
      PROVE  Ownership!Begin(w)
  <2>1. Working = {} /\ Working' = {w}
    BY <1>2 DEF IInv, TypeOK, ThreadTypeOK, Tenancy, WorkClaim, ClaimUpload,
       CanClaimUpload, Working
  <2>2. ~setup /\ handoff = NoPhase /\ ~quitting
    BY <1>2 DEF IInv, SetupKeepsHandoff, WorkClaim, ClaimUpload, CanClaimUpload
  <2> QED
    BY <1>2, <2>1, <2>2 DEF WorkClaim, ClaimUpload, install, shell, Ownership!Begin
<1>3. ASSUME NEW w \in Workers, WorkRelease(w)
      PROVE  Ownership!End(w)
  <2>1. Working = {w} /\ Working' = {}
    BY <1>3 DEF IInv, TypeOK, ThreadTypeOK, Tenancy, WorkRelease, Working
  <2> QED
    BY <1>3, <2>1 DEF WorkRelease, ReleaseUpload, install, shell, Ownership!End
<1>4. CASE CheckNext \/ DownloadNext \/ MainNext \/ UNCHANGED vars
  <2>1. UNCHANGED <<work, gate, setup, forced>>
    BY <1>4 DEF CheckNext, StartCheck, AdoptCheck, CheckStarted, CheckNotStarted,
       CheckAnswered, CheckFailed, DownloadNext, StartDownload, DownloadStarted,
       DownloadNotStarted, Downloaded, NotDownloaded, DownloadLanded, DownloadVerified,
       DownloadRejected, DownloadDiscard, DownloadSettle, MainNext, WindowClosed,
       WindowCrashed, CloseUpdates, RemoveStaged, Exit, Exited, vars, install, shell
  <2> QED
    BY <1>1, <2>1 DEF Working, gate
<1>5. ASSUME NEW i \in Installs, InstallReserve(i) \/ InstallStep(i)
      PROVE  [Ownership!Next]_(Ownership!vars)
  <2> USE DEF IInv, install, shell, gate
  <2>1. CASE InstallClaim(i) /\ CanClaimHandoff
    <3>1. Working = {} /\ Working' = Working /\ handoff = NoPhase /\ ~setup /\ ~quitting
      BY <2>1 DEF InstallClaim, CanClaimHandoff, Tenancy, Working, Ownerships, FreePcs,
         SetupKeepsHandoff
    <3> QED
      BY <2>1, <3>1 DEF InstallClaim, ClaimHandoff, CanClaimHandoff, Ownership!Next,
         Ownership!Hold, NoPhase
  <2>2. CASE InstallClaim(i) /\ ~CanClaimHandoff
    BY <1>1, <2>2 DEF InstallClaim, ClaimHandoff, Working
  <2>3. CASE WorkerAdvance(i) \/ WorkerLaunching(i)
    <3>1. handoff # NoPhase /\ handoff' # NoPhase
      BY <2>3 DEF WorkerAdvance, WorkerLaunching, ClaimHandoff, Ownerships, HoldingPcs,
         NoPhase
    <3> QED
      BY <1>1, <2>3, <3>1 DEF WorkerAdvance, WorkerLaunching, ClaimHandoff, Working
  <2>4. CASE InstallUndoRelease(i) \/ WorkerFailRelease(i)
    <3>1. handoff # NoPhase /\ ~setup /\ ~quitting
      BY <2>4 DEF InstallUndoRelease, WorkerFailRelease, Ownerships, HoldingPcs,
         SetupKeepsHandoff, SetupPcs, QuitGrant, QuitExcludesHandoff
    <3> QED
      BY <2>4, <3>1 DEF InstallUndoRelease, WorkerFailRelease, ReleaseHandoff, Working,
         Ownership!Next, Ownership!GiveBack
  <2>5. CASE WorkerExecute(i)
    <3>1. handoff # NoPhase /\ ~setup /\ ~quitting /\ Working = {}
      BY <2>5 DEF WorkerExecute, Ownerships, HoldingPcs, SetupKeepsHandoff, SetupPcs,
         QuitGrant, QuitExcludesHandoff, Tenancy, Working
    <3> QED
      BY <1>1, <2>5, <3>1 DEF WorkerExecute, Working, Ownership!Next, Ownership!Launch
  <2>6. CASE WorkerShutdown(i)
    <3>1. handoff # NoPhase /\ setup /\ Working = {} /\ ~upload
      BY <2>6 DEF WorkerShutdown, Ownerships, HoldingPcs, SetupKeepsHandoff, SetupPcs,
         Tenancy, Working
    <3>2. CASE quitting
      BY <1>1, <2>6, <3>1, <3>2 DEF WorkerShutdown, BeginUpdateShutdown, Working
    <3>3. CASE ~quitting
      <4>1. forced' = (Working # {}) /\ quitting' = TRUE
        BY <2>6, <3>1, <3>3 DEF WorkerShutdown, BeginUpdateShutdown, QuitGrant, TypeOK,
           ShellTypeOK
      <4>2. UNCHANGED <<work, setup, handoff>>
        BY <2>6 DEF WorkerShutdown, BeginUpdateShutdown
      <4> QED
        BY <3>1, <3>3, <4>1, <4>2 DEF Working, Ownership!Next, Ownership!Leave
    <3> QED
      BY <3>2, <3>3
  <2>7. CASE UNCHANGED <<gate, work, setup, forced>>
    BY <1>1, <2>7 DEF Working
  <2> QED
    BY <1>5, <2>1, <2>2, <2>3, <2>4, <2>5, <2>6, <2>7 DEF InstallReserve, InstallStep,
       InstallRefused, InstallSpawn, InstallStart, InstallUndo, InstallUndoState,
       WorkerBegin, WorkerVerify, WorkerFail, WorkerFailState, WorkerRemove,
       WorkerLaunched, WorkerDestroy
<1>6. CASE QuitNext
  <2> USE DEF IInv, install, shell, gate
  <2>1. CASE QuitClicked
    <3>1. CASE quitting \/ ~CanClaimQuit(FALSE)
      BY <1>1, <2>1, <3>1 DEF QuitClicked, ClaimQuit, Working
    <3>2. CASE ~quitting /\ CanClaimQuit(FALSE)
      <4>1. Working = {} /\ ~setup /\ handoff = NoPhase /\ ~forced
        BY <3>2 DEF CanClaimQuit, Tenancy, Working, SetupKeepsHandoff, QuitGrant
      <4>2. forced' = (Working # {}) /\ quitting' = TRUE
        BY <2>1, <3>2, <4>1 DEF QuitClicked, ClaimQuit, TypeOK, ShellTypeOK
      <4>3. UNCHANGED <<work, setup, handoff>>
        BY <2>1, <3>2 DEF QuitClicked, ClaimQuit
      <4> QED
        BY <3>2, <4>1, <4>2, <4>3 DEF Working, Ownership!Next, Ownership!Leave
    <3> QED
      BY <3>1, <3>2
  <2>2. CASE QuitAnswered \/ QuitDestroys
    BY <1>1, <2>2 DEF QuitAnswered, QuitDestroys, Working
  <2>3. CASE QuitForced
    <3>1. CASE quitting \/ ~CanClaimQuit(TRUE)
      BY <1>1, <2>3, <3>1 DEF QuitForced, ClaimQuit, Working, QuitGrant, TypeOK,
         GateTypeOK, ShellTypeOK
    <3>2. CASE ~quitting /\ CanClaimQuit(TRUE)
      <4>1. ~setup /\ handoff = NoPhase /\ ~forced /\ (upload <=> Working # {})
        BY <3>2 DEF CanClaimQuit, Tenancy, Working, SetupKeepsHandoff, QuitGrant
      <4>2. forced' = (Working # {}) /\ quitting' = TRUE
        BY <2>3, <3>2, <4>1 DEF QuitForced, ClaimQuit, TypeOK, GateTypeOK, ShellTypeOK
      <4>3. UNCHANGED <<work, setup, handoff>>
        BY <2>3, <3>2 DEF QuitForced, ClaimQuit
      <4> QED
        BY <3>2, <4>1, <4>2, <4>3 DEF Working, Ownership!Next, Ownership!Leave
    <3> QED
      BY <3>1, <3>2
  <2> QED
    BY <1>6, <2>1, <2>2, <2>3 DEF QuitNext
<1> QED
  BY <1>2, <1>3, <1>4, <1>5, <1>6 DEF Next, WorkNext, InstallNext, Ownership!Next

\* The threads, their locks and their half-done transitions implement the
\* ownership discipline: whatever they do is a step of ProcessOwnership or none.
THEOREM Refinement == Spec => OwnershipHolds
<1>1. Init => Ownership!Init
  BY OwnershipInit
<1>2. IInv /\ [Next]_vars => [Ownership!Next]_(Ownership!vars)
  BY OwnershipStep
<1> QED
  BY <1>1, <1>2, Invariance, PTL DEF Spec, OwnershipHolds, Ownership!Spec
=============================================================================
