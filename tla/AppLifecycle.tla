---------------------------- MODULE AppLifecycle ----------------------------
(***************************************************************************)
(* Who may own the process: the work tenants (upload, retry, stitch and    *)
(* clip jobs), the updater that hands the process over to Setup, and Quit. *)
(*                                                                         *)
(* Four kinds of threads run here:                                         *)
(*   - one work thread per member of Workers (uploader controller);        *)
(*   - one bridge call of install_update per member of Installs, and the   *)
(*     worker thread it spawns;                                            *)
(*   - the check/download side of the updater, of which one is in flight   *)
(*     at a time: a bridge call, then its worker (net);                    *)
(*   - the tray thread (on_quit) and the main thread (window loop, then    *)
(*     shutdown_updates, then process exit, which kills the daemons).      *)
(* Every action is one critical section or one external call of the code.  *)
(***************************************************************************)
EXTENDS Integers, WorkGate

CONSTANTS
    Workers,             \* threads of work tenants
    Installs,            \* bridge calls of install_update
    MaxDownloads         \* bound: how many downloads a behaviour may start

ASSUME SlotsAssumption == MaxDownloads \in Nat

ASSUME UpdaterPhases == {"handing_off", "revalidating", "launching"} \subseteq Phases

VARIABLES
    work,                \* [Workers -> {"idle", "working"}]
    ustate,              \* _UpdateRuntime.state
    release,             \* _UpdateRuntime.release is not None
    staged,              \* _UpdateRuntime.staged: a file number, 0 for None
    automatic,           \* _UpdateRuntime.automatic_failure
    previous,            \* the _UpdateRuntime copy _start_update_check keeps
    net,                 \* program counter of the check/download side
    downloads,           \* number of files downloads have created
    files,               \* installer files on disk
    ipc,                 \* [Installs -> program counter of an installation]
    ipath,               \* [Installs -> the file its worker was given]
    setup,               \* an installer process has been started
    quit,                \* program counter of the tray thread
    forced,              \* Quit was granted over an upload, by the user's answer
    window,              \* "open", or "destroyed"
    main                 \* "run", "removing", "cleaned" or "exited"

update == <<ustate, release, staged, automatic, previous>>
netvars == <<net, downloads>>
install == <<ipc, ipath, setup>>
shell == <<quit, forced, window, main>>
vars == <<gate, work, update, netvars, files, install, shell>>

CheckAllowed == {"idle", "current", "available", "unavailable",
                 "check_failed", "download_failed"}
DownloadAllowed == {"available", "check_failed", "download_failed"}
States == CheckAllowed \cup
    {"checking", "downloading", "ready", "handing_off", "revalidating",
     "launching", "closed"}
NetPcs == {"idle", "checkStart", "check", "downloadStart", "download",
           "landed", "verify", "discard", "settle"}
InstallPcs == {"idle", "claim", "refused", "spawn", "start", "undo",
               "undoRelease", "undoState", "begin", "advance", "verify",
               "execute", "fail", "failRelease", "failState", "remove",
               "launched", "launching", "shutdown", "destroy"}

NoFile == 0

UpdateTypeOK ==
    /\ ustate \in States
    /\ release \in BOOLEAN
    /\ staged \in Nat
    /\ automatic \in BOOLEAN
    /\ previous \in [ustate : CheckAllowed, release : BOOLEAN, automatic : BOOLEAN]

ThreadTypeOK ==
    /\ work \in [Workers -> {"idle", "working"}]
    /\ net \in NetPcs
    /\ downloads \in Nat
    /\ files \subseteq Nat \ {NoFile}
    /\ ipc \in [Installs -> InstallPcs]
    /\ ipath \in [Installs -> Nat]
    /\ setup \in BOOLEAN

ShellTypeOK ==
    /\ quit \in {"idle", "ask", "force", "destroy"}
    /\ forced \in BOOLEAN
    /\ window \in {"open", "destroyed"}
    /\ main \in {"run", "removing", "cleaned", "exited"}

TypeOK ==
    /\ GateTypeOK
    /\ UpdateTypeOK
    /\ ThreadTypeOK
    /\ ShellTypeOK

Init ==
    /\ GateInit
    /\ work = [w \in Workers |-> "idle"]
    /\ ustate = "idle"
    /\ release = FALSE
    /\ staged = NoFile
    /\ automatic = FALSE
    /\ previous = [ustate |-> "idle", release |-> FALSE, automatic |-> FALSE]
    /\ net = "idle"
    /\ downloads = 0
    /\ files = {}
    /\ ipc = [i \in Installs |-> "idle"]
    /\ ipath = [i \in Installs |-> NoFile]
    /\ setup = FALSE
    /\ quit = "idle"
    /\ forced = FALSE
    /\ window = "open"
    /\ main = "run"

\* Process exit kills every other thread where it stands: all are daemons.
Alive == main # "exited"

-----------------------------------------------------------------------------
(* Work tenants.  start_upload, retry, stitch_locally and cut_clip claim   *)
(* the gate on the bridge thread; the worker releases it in its finally    *)
(* clause, and so does a thread that could not be started.                 *)

WorkClaim(w) ==
    /\ Alive /\ work[w] = "idle"
    /\ ClaimUpload
    /\ work' = [work EXCEPT ![w] = "working"]
    /\ UNCHANGED <<update, netvars, files, install, shell>>

WorkRelease(w) ==
    /\ Alive /\ work[w] = "working"
    /\ ReleaseUpload
    /\ work' = [work EXCEPT ![w] = "idle"]
    /\ UNCHANGED <<update, netvars, files, install, shell>>

-----------------------------------------------------------------------------
(* The update check: _start_update_check, then _update_check_worker. *)

StartCheck(auto) ==
    /\ Alive /\ net = "idle" /\ ustate \in CheckAllowed
    /\ previous' = [ustate |-> ustate, release |-> release, automatic |-> automatic]
    /\ ustate' = "checking"
    /\ automatic' = auto
    /\ net' = "checkStart"
    /\ UNCHANGED <<gate, work, release, staged, downloads, files, install, shell>>

\* A manual check during an automatic one only takes over how it will fail.
AdoptCheck ==
    /\ Alive /\ ustate = "checking"
    /\ automatic' = FALSE
    /\ UNCHANGED <<gate, work, ustate, release, staged, previous, netvars, files,
                   install, shell>>

CheckStarted ==
    /\ Alive /\ net = "checkStart"
    /\ net' = IF ustate = "closed" THEN "idle" ELSE "check"
    /\ UNCHANGED <<gate, work, update, downloads, files, install, shell>>

\* The thread could not be made or started: _rollback_update_check.
CheckNotStarted ==
    /\ Alive /\ net = "checkStart"
    /\ net' = "idle"
    /\ IF ustate = "closed"
       THEN UNCHANGED <<ustate, release, automatic>>
       ELSE /\ ustate' = previous.ustate
            /\ release' = previous.release
            /\ automatic' = previous.automatic
    /\ UNCHANGED <<gate, work, staged, previous, downloads, files, install, shell>>

CheckAnswered(found) ==
    /\ Alive /\ net = "check"
    /\ net' = "idle"
    /\ IF ustate = "closed"
       THEN UNCHANGED <<ustate, release, staged, automatic>>
       ELSE /\ ustate' = IF found THEN "available" ELSE "current"
            /\ release' = found
            /\ staged' = NoFile
            /\ automatic' = FALSE
    /\ UNCHANGED <<gate, work, previous, downloads, files, install, shell>>

\* Mutant: a failed check leaves a phase the state table does not have.
CheckFailedUnnamed ==
    /\ Alive /\ net = "check"
    /\ net' = "idle"
    /\ ustate' = "failed" /\ automatic' = FALSE
    /\ UNCHANGED <<gate, work, release, staged, previous, downloads, files,
                   install, shell>>

CheckFailed ==
    /\ Alive /\ net = "check"
    /\ net' = "idle"
    /\ IF ustate = "closed"
       THEN UNCHANGED <<ustate, automatic>>
       ELSE /\ ustate' = IF ~automatic THEN "check_failed"
                         ELSE IF release THEN "available" ELSE "unavailable"
            /\ automatic' = FALSE
    /\ UNCHANGED <<gate, work, release, staged, previous, downloads, files,
                   install, shell>>

-----------------------------------------------------------------------------
(* The download: download_update, then _update_download_worker.  Each      *)
(* download writes a file of its own (mkstemp).                            *)

\* unlink is best effort: a scanner or Setup may hold the file.
TryRemove(file) == files' \in {files, files \ {file}}

StartDownload ==
    /\ Alive /\ net = "idle" /\ ustate \in DownloadAllowed /\ release
    /\ downloads < MaxDownloads
    /\ ustate' = "downloading"
    /\ staged' = NoFile
    /\ net' = "downloadStart"
    /\ UNCHANGED <<gate, work, release, automatic, previous, downloads, files,
                   install, shell>>

DownloadStarted ==
    /\ Alive /\ net = "downloadStart"
    /\ net' = IF ustate = "closed" THEN "idle" ELSE "download"
    /\ UNCHANGED <<gate, work, update, downloads, files, install, shell>>

\* _rollback_update_start("download").
DownloadNotStarted ==
    /\ Alive /\ net = "downloadStart"
    /\ net' = "settle"
    /\ UNCHANGED <<gate, work, update, downloads, files, install, shell>>

Downloaded ==
    /\ Alive /\ net = "download"
    /\ downloads' = downloads + 1
    /\ files' = files \cup {downloads + 1}
    /\ net' = "landed"
    /\ UNCHANGED <<gate, work, update, install, shell>>

\* download_release raised: it removed its own partial file.
NotDownloaded ==
    /\ Alive /\ net = "download"
    /\ net' = "settle"
    /\ UNCHANGED <<gate, work, update, downloads, files, install, shell>>

DownloadLanded ==
    /\ Alive /\ net = "landed"
    /\ net' = IF ustate = "closed" THEN "discard" ELSE "verify"
    /\ UNCHANGED <<gate, work, update, downloads, files, install, shell>>

DownloadVerified ==
    /\ Alive /\ net = "verify"
    /\ IF ustate = "closed"
       THEN net' = "discard" /\ UNCHANGED <<ustate, staged>>
       ELSE net' = "idle" /\ ustate' = "ready" /\ staged' = downloads
    /\ UNCHANGED <<gate, work, release, automatic, previous, downloads, files,
                   install, shell>>

DownloadRejected ==
    /\ Alive /\ net = "verify"
    /\ net' = "discard"
    /\ UNCHANGED <<gate, work, update, downloads, files, install, shell>>

DownloadDiscard ==
    /\ Alive /\ net = "discard"
    /\ TryRemove(downloads)
    /\ net' = "settle"
    /\ UNCHANGED <<gate, work, update, downloads, install, shell>>

DownloadSettle ==
    /\ Alive /\ net = "settle"
    /\ net' = "idle"
    /\ IF ustate = "closed"
       THEN UNCHANGED <<ustate, staged>>
       ELSE ustate' = "download_failed" /\ staged' = NoFile
    /\ UNCHANGED <<gate, work, release, automatic, previous, downloads, files,
                   install, shell>>

-----------------------------------------------------------------------------
(* The installation.  Part one: install_update, on a bridge thread.        *)

Goto(i, pc) == ipc' = [ipc EXCEPT ![i] = pc]

\* Reserves the runtime phase before it asks the gate: one installer only.
InstallReserve(i) ==
    /\ Alive /\ ipc[i] = "idle"
    /\ ustate = "ready" /\ release /\ staged # NoFile
    /\ ustate' = "handing_off"
    /\ ipath' = [ipath EXCEPT ![i] = staged]
    /\ Goto(i, "claim")
    /\ UNCHANGED <<gate, work, release, staged, automatic, previous, netvars, files,
                   setup, shell>>

InstallClaim(i) ==
    /\ Alive /\ ipc[i] = "claim"
    /\ \/ ClaimHandoff("handing_off") /\ Goto(i, "spawn")
       \/ ~CanClaimHandoff /\ UNCHANGED gate /\ Goto(i, "refused")
    /\ UNCHANGED <<work, update, netvars, files, ipath, setup, shell>>

InstallRefused(i) ==
    /\ Alive /\ ipc[i] = "refused"
    /\ ustate' = IF ustate = "handing_off" THEN "ready" ELSE ustate
    /\ Goto(i, "idle")
    /\ UNCHANGED <<gate, work, release, staged, automatic, previous, netvars, files,
                   ipath, setup, shell>>

InstallSpawn(i) ==
    /\ Alive /\ ipc[i] = "spawn"
    /\ \/ Goto(i, IF ustate = "closed" THEN "idle" ELSE "start")
       \/ Goto(i, "undo")
    /\ UNCHANGED <<gate, work, update, netvars, files, ipath, setup, shell>>

InstallStart(i) ==
    /\ Alive /\ ipc[i] = "start"
    /\ Goto(i, "begin") \/ Goto(i, "undo")
    /\ UNCHANGED <<gate, work, update, netvars, files, ipath, setup, shell>>

\* Mutant: the rollback of a failed start forgets to release the gate.
InstallUndoKeepsGate(i) ==
    /\ Alive /\ ipc[i] = "undo"
    /\ Goto(i, IF ustate = "closed" THEN "idle" ELSE "undoState")
    /\ UNCHANGED <<gate, work, update, netvars, files, ipath, setup, shell>>

\* _rollback_update_start("install"): the claim goes before the state does.
InstallUndo(i) ==
    /\ Alive /\ ipc[i] = "undo"
    /\ Goto(i, IF ustate = "closed" THEN "idle" ELSE "undoRelease")
    /\ UNCHANGED <<gate, work, update, netvars, files, ipath, setup, shell>>

InstallUndoRelease(i) ==
    /\ Alive /\ ipc[i] = "undoRelease"
    /\ ReleaseHandoff
    /\ Goto(i, "undoState")
    /\ UNCHANGED <<work, update, netvars, files, ipath, setup, shell>>

InstallUndoState(i) ==
    /\ Alive /\ ipc[i] = "undoState"
    /\ ustate' = IF ustate = "closed" THEN "closed" ELSE "ready"
    /\ Goto(i, "idle")
    /\ UNCHANGED <<gate, work, release, staged, automatic, previous, netvars, files,
                   ipath, setup, shell>>

-----------------------------------------------------------------------------
(* Part two: _update_install_worker. *)

WorkerBegin(i) ==
    /\ Alive /\ ipc[i] = "begin"
    /\ IF ustate = "handing_off"
       THEN ustate' = "revalidating" /\ Goto(i, "advance")
       ELSE UNCHANGED ustate /\ Goto(i, "idle")
    /\ UNCHANGED <<gate, work, release, staged, automatic, previous, netvars, files,
                   ipath, setup, shell>>

WorkerAdvance(i) ==
    /\ Alive /\ ipc[i] = "advance"
    /\ \/ ClaimHandoff("revalidating") /\ Goto(i, "verify")
       \/ ~CanClaimHandoff /\ UNCHANGED gate /\ Goto(i, "fail")
    /\ UNCHANGED <<work, update, netvars, files, ipath, setup, shell>>

\* launch_verified up to the shell call: attachment, lock, digest, marker.
WorkerVerify(i) ==
    /\ Alive /\ ipc[i] = "verify"
    /\ Goto(i, "execute") \/ Goto(i, "fail")
    /\ UNCHANGED <<gate, work, update, netvars, files, ipath, setup, shell>>

WorkerExecute(i) ==
    /\ Alive /\ ipc[i] = "execute"
    /\ \/ setup' = TRUE /\ Goto(i, "launched")
       \/ UNCHANGED setup /\ Goto(i, "fail")
    /\ UNCHANGED <<gate, work, update, netvars, files, ipath, shell>>

\* Mutant: the failure puts the state back before it releases the gate.
WorkerFailStateFirst(i) ==
    /\ Alive /\ ipc[i] = "fail"
    /\ Goto(i, IF ustate = "closed" THEN "idle" ELSE "failRelease")
    /\ ustate' = IF ustate = "closed" THEN "closed" ELSE "ready"
    /\ UNCHANGED <<gate, work, release, staged, automatic, previous, netvars, files,
                   ipath, setup, shell>>

\* Mutant: the failure returns without releasing the gate.
WorkerFailReturns(i) ==
    /\ Alive /\ ipc[i] = "fail"
    /\ Goto(i, "idle")
    /\ UNCHANGED <<gate, work, update, netvars, files, ipath, setup, shell>>

\* _finish_install_failure, in the three lock sections the code has.
WorkerFail(i) ==
    /\ Alive /\ ipc[i] = "fail"
    /\ Goto(i, IF ustate = "closed" THEN "idle" ELSE "failRelease")
    /\ UNCHANGED <<gate, work, update, netvars, files, ipath, setup, shell>>

WorkerFailRelease(i) ==
    /\ Alive /\ ipc[i] = "failRelease"
    /\ ReleaseHandoff
    /\ Goto(i, "failState")
    /\ UNCHANGED <<work, update, netvars, files, ipath, setup, shell>>

\* The failure's stage decides: launch and cleanup failures stay ready, any
\* other needs a new download.
WorkerFailState(i) ==
    /\ Alive /\ ipc[i] = "failState"
    /\ \/ /\ ustate = "closed"
          /\ Goto(i, "idle") /\ UNCHANGED <<ustate, staged>>
       \/ /\ ustate # "closed"
          /\ ustate' = "ready" /\ UNCHANGED staged /\ Goto(i, "idle")
       \/ /\ ustate # "closed"
          /\ ustate' = "download_failed" /\ staged' = NoFile /\ Goto(i, "remove")
    /\ UNCHANGED <<gate, work, release, automatic, previous, netvars, files, ipath,
                   setup, shell>>

WorkerRemove(i) ==
    /\ Alive /\ ipc[i] = "remove"
    /\ TryRemove(ipath[i])
    /\ Goto(i, "idle")
    /\ UNCHANGED <<gate, work, update, netvars, ipath, setup, shell>>

WorkerLaunched(i) ==
    /\ Alive /\ ipc[i] = "launched"
    /\ IF ustate = "closed"
       THEN UNCHANGED ustate /\ Goto(i, "idle")
       ELSE ustate' = "launching" /\ Goto(i, "launching")
    /\ UNCHANGED <<gate, work, release, staged, automatic, previous, netvars, files,
                   ipath, setup, shell>>

\* A lost claim is only logged here: Setup exists by now.
WorkerLaunching(i) ==
    /\ Alive /\ ipc[i] = "launching"
    /\ \/ ClaimHandoff("launching")
       \/ ~CanClaimHandoff /\ UNCHANGED gate
    /\ Goto(i, "shutdown")
    /\ UNCHANGED <<work, update, netvars, files, ipath, setup, shell>>

\* Mutant: Setup runs and the process goes on taking work.
WorkerShutdownStaysOpen(i) ==
    /\ Alive /\ ipc[i] = "shutdown"
    /\ Goto(i, "idle")
    /\ UNCHANGED <<gate, work, update, netvars, files, ipath, setup, shell>>

WorkerShutdown(i) ==
    /\ Alive /\ ipc[i] = "shutdown"
    /\ BeginUpdateShutdown
    /\ Goto(i, "destroy")
    /\ UNCHANGED <<work, update, netvars, files, ipath, setup, shell>>

\* request_shutdown is destroy_windows; a native failure is logged.
WorkerDestroy(i) ==
    /\ Alive /\ ipc[i] = "destroy"
    /\ window' \in {window, "destroyed"}
    /\ Goto(i, "idle")
    /\ UNCHANGED <<gate, work, update, netvars, files, ipath, setup, quit, forced,
                   main>>

-----------------------------------------------------------------------------
(* Quit, on the tray thread: Api._claim_quit, then destroy_windows. *)

QuitClicked ==
    /\ Alive /\ quit = "idle"
    /\ \/ ClaimQuit(FALSE) /\ quit' = "destroy"
       \/ /\ ~CanClaimQuit(FALSE) /\ handoff = NoPhase
          /\ quit' = "ask" /\ UNCHANGED gate
    /\ UNCHANGED <<work, update, netvars, files, install, forced, window, main>>

\* Silence and "no" both mean: do not quit.
QuitAnswered ==
    /\ Alive /\ quit = "ask"
    /\ quit' \in {"force", "idle"}
    /\ UNCHANGED <<gate, work, update, netvars, files, install, forced, window, main>>

QuitForced ==
    /\ Alive /\ quit = "force"
    /\ \/ /\ ClaimQuit(TRUE)
          /\ quit' = "destroy"
          /\ forced' = (forced \/ upload)
       \/ /\ ~CanClaimQuit(TRUE)
          /\ quit' = "idle" /\ UNCHANGED <<gate, forced>>
    /\ UNCHANGED <<work, update, netvars, files, install, window, main>>

QuitDestroys ==
    /\ Alive /\ quit = "destroy"
    /\ window' \in {window, "destroyed"}
    /\ quit' = "idle"
    /\ UNCHANGED <<gate, work, update, netvars, files, install, forced, main>>

-----------------------------------------------------------------------------
(* The main thread: window_mod.run returns when the window is gone, or     *)
(* raises (crashed); its finally clause closes the updater; then it exits. *)

CloseUpdates ==
    /\ main = "run"
    /\ ustate' = "closed"
    /\ staged' = IF ustate = "launching" THEN NoFile ELSE staged
    /\ main' = "removing"
    /\ UNCHANGED <<gate, work, release, automatic, previous, netvars, files, install,
                   quit, forced, window>>

WindowClosed == window = "destroyed" /\ CloseUpdates
WindowCrashed == window = "open" /\ CloseUpdates

\* The captured file goes, unless Setup was handed it.  staged plays the local
\* variable that captured it: nothing reads the field once the state is closed.
RemoveStaged ==
    /\ main = "removing"
    /\ IF staged = NoFile THEN UNCHANGED files ELSE TryRemove(staged)
    /\ staged' = NoFile
    /\ main' = "cleaned"
    /\ UNCHANGED <<gate, work, ustate, release, automatic, previous, netvars, install,
                   quit, forced, window>>

Exit ==
    /\ main = "cleaned"
    /\ main' = "exited"
    /\ UNCHANGED <<gate, work, update, netvars, files, install, quit, forced, window>>

\* The process is gone; nothing moves any more.
Exited == main = "exited" /\ UNCHANGED vars

-----------------------------------------------------------------------------
WorkNext == \E w \in Workers : WorkClaim(w) \/ WorkRelease(w)

CheckNext ==
    \/ \E auto \in BOOLEAN : StartCheck(auto)
    \/ AdoptCheck
    \/ CheckStarted
    \/ CheckNotStarted
    \/ \E found \in BOOLEAN : CheckAnswered(found)
    \/ CheckFailed

DownloadNext ==
    \/ StartDownload
    \/ DownloadStarted
    \/ DownloadNotStarted
    \/ Downloaded
    \/ NotDownloaded
    \/ DownloadLanded
    \/ DownloadVerified
    \/ DownloadRejected
    \/ DownloadDiscard
    \/ DownloadSettle

\* The steps an installation takes once it has reserved the phase.
InstallStep(i) ==
    \/ InstallClaim(i)
    \/ InstallRefused(i)
    \/ InstallSpawn(i)
    \/ InstallStart(i)
    \/ InstallUndo(i)
    \/ InstallUndoRelease(i)
    \/ InstallUndoState(i)
    \/ WorkerBegin(i)
    \/ WorkerAdvance(i)
    \/ WorkerVerify(i)
    \/ WorkerExecute(i)
    \/ WorkerFail(i)
    \/ WorkerFailRelease(i)
    \/ WorkerFailState(i)
    \/ WorkerRemove(i)
    \/ WorkerLaunched(i)
    \/ WorkerLaunching(i)
    \/ WorkerShutdown(i)
    \/ WorkerDestroy(i)

InstallNext == \E i \in Installs : InstallReserve(i) \/ InstallStep(i)

QuitNext == QuitClicked \/ QuitAnswered \/ QuitForced \/ QuitDestroys

MainNext == WindowClosed \/ WindowCrashed \/ RemoveStaged \/ Exit \/ Exited

Next == WorkNext \/ CheckNext \/ DownloadNext \/ InstallNext \/ QuitNext \/ MainNext

Spec == Init /\ [][Next]_vars

\* A thread that runs goes on running: each installation's thread, and the
\* main thread once its window is gone.  Clicks, jobs and crashes are free.
Fairness ==
    /\ \A i \in Installs : WF_vars(InstallStep(i))
    /\ WF_vars(WindowClosed \/ RemoveStaged \/ Exit)

LiveSpec == Spec /\ Fairness

-----------------------------------------------------------------------------
(* Properties. *)

Working == {w \in Workers : work[w] = "working"}

\* From the moment the updater holds the handoff, and for good once Setup has
\* been started, no work tenant runs: an installer never replaces the program
\* under an upload, a stitch or a clip.
SetupNeverUnderWork ==
    handoff # NoPhase \/ setup => Working = {}

\* The gate's handoff flag has one owner and is never left behind: no two calls of
\* install_update hold it, the flag is set while one does, and while it is set one
\* does, unless Setup owns the process or the updater is closed.
HoldingPcs == {"spawn", "start", "undo", "undoRelease", "begin", "advance", "verify",
               "execute", "fail", "failRelease", "launched", "launching", "shutdown",
               "destroy"}
Holders == {i \in Installs : ipc[i] \in HoldingPcs}
HandoffOwned ==
    /\ \A i, j \in Holders : i = j
    /\ Holders # {} => handoff # NoPhase
    /\ handoff # NoPhase => Holders # {} \/ ustate \in {"launching", "closed"}

\* When the user may press Install, the installer file is there and nobody
\* else's installation is still letting go of the gate.
ReadyIsInstallable ==
    ustate = "ready" =>
        /\ staged \in files
        /\ handoff = NoPhase
        /\ \A i \in Installs : ipc[i] = "remove" => ipath[i] # staged

\* The window closes over a running job only when the user agreed to it.
DiscardOnlyByConsent ==
    window = "destroyed" /\ Working # {} => forced

\* Quit and the handoff exclude each other until Setup has been started, and
\* the window goes only once one of them has been granted.
QuitExcludesHandoff ==
    /\ quitting /\ handoff # NoPhase => setup
    /\ window = "destroyed" => quitting

\* A claimed handoff comes to an end: it is given back, or Setup starts, or
\* the process closes.
HandoffResolves ==
    handoff # NoPhase ~> (handoff = NoPhase \/ setup \/ ustate = "closed")

\* After Setup has been started the process stops accepting work.
SetupClosesGate == setup ~> (quitting \/ ustate = "closed")

-----------------------------------------------------------------------------
\* The abstract view of a state: who owns the process.
Ownership == INSTANCE ProcessOwnership WITH
    Tenants <- Workers,
    active  <- Working,
    hands   <- IF setup THEN "launched" ELSE IF handoff # NoPhase THEN "held" ELSE "none",
    leaving <- quitting,
    consent <- forced

\* Every behaviour of the threads is one the ownership discipline allows.
OwnershipHolds == Ownership!Spec
=============================================================================
