# FlyGD Wingman: TLA+ models and proofs

FlyGD Wingman is a desktop companion for EVE Online: it watches the folder OBS
records into, uploads recordings to YouTube, streams fights to Discord, shows
live previews of game clients, shares fleet telemetry, and keeps accounts,
fittings and settings. It is one Windows process with many threads: a WebView
page whose every call arrives on its own bridge thread, worker threads per
job, a polling scheduler, a tray thread, and child processes.

This directory models the parts of it in which threads, failures and time meet
the user's data. Each definition is translated from the code; `PROJECT.json`
("map") names the lines. Requires TLC, TLAPS 1.4.5 and the community modules:

    tlc -workers 2 -config MCAppLifecycle.cfg MCAppLifecycle
    tlapm AppLifecycle_proofs.tla

## 1. Inventory

### Modelled

| Part | State it keeps | Operations | Talks to | What makes it correct |
|---|---|---|---|---|
| Work gate (`upload/gate.py`) | upload flag, handoff phase, quitting | claim and release for uploads, handoff, Quit | called by the next three | each tenant excludes the others |
| Updater (`ui/api.py`, `updates.py`) | update state, release, staged file, worker | check, download, install, shutdown | gate, installer, window | Setup never starts under work; the claim and the state it reserved come back on every failure |
| Quit and shutdown (`ui/api.py`, `__main__.py`) | Quit claim, window, teardown | ask, claim, destroy, tear down | gate, updater | nothing running is discarded unasked |
| Upload jobs (`upload/controller.py`, `uploader.py`) | job, stop flag, retry state, link store and its file | start, confirm, chunk loop, stop, retry, link | gate, YouTube, disk | published means confirmed and recorded; a stop or a retry concerns its own job |
| Recording list (`upload/controller.py`, `ui/rows.py`, `links.py`) | row snapshot, captured VideoInfo objects, generation, rename revision, link store | scan, install, rename, delete, change folder, announce a link | file system, upload worker | identities follow their file; a stale scan is never shown |
| Combat auto-stream (`alerts/streamcoupling.py`) | episode, latches, `_wingman_live`, queue | alert, quiet expiry, probe, press, close | Discord (a toggle and a probe), mirror, settings | one press per fight, in the right direction |
| Crops (`preview/cropstore.py`, `cropcontroller.py`, the crop side of `host.py`) | committed definitions, generations, pending moves, queue; the live windows and the edit of each | edit, cancel, move, fence, drain, close, import | settings document, telemetry's roster, pump | an edit hears the truth about the disk; an accepted move is kept |
| Source admission (`telemetry/admission.py`, `coordinator.py`, `gamelogs.py`, `clients.py`) | lanes, receipts, resets, poison, tickets; a dispatcher's queue and the log worker's delivery queue | scan, rescan, poll, restate, reset, publish, reconcile | game clients, logs, Fleet Metrics, sharing and previews | a current ticket shows the session and activation of now, and its log or a none about to be corrected; a revoked one stays revoked |
| Sharing On and Off (`fleetsharing/worker.py`, `state.py`) | queued choice, journal, session and revision, inhibition, proof | choose, save, observe, send, settle, withdraw, recover | relay, browser, settings | nothing leaves past an Off that protects; an acknowledged Off is final; an Off is settled in the end |

Hard behaviours here: claims are check-then-act across two locks; questions to
the user park a thread for any length of time and the answer meets another
world; Discord's keybind is a toggle that anyone may press; a video once public
cannot be taken back and its link cannot be rebuilt; a rename moves a file that
scans, captured objects and late uploads still know under its old name; a crop
is written to disk outside the lock that guards it, while its window moves and
its client logs out; producers, dispatcher and reconcile pass are four threads
that only a token ties together, and every wait of the pass may time out; a
signed request may take effect though its answer is lost.

### Not modelled

| Part | State | Hard behaviour | Properties it should have | Why not (yet) |
|---|---|---|---|---|
| Recording watcher (`watcher.py`, `poll_tick`) | seen file, stability counts, deferred refresh | unlocked maps, restarts, a refresh put off during an upload | each finished recording is announced, and once but for the race its docstring accepts | next in the plan |
| Child process guard, mirror supervisor (`procguard.py`, `mirrorsupervisor.py`) | child, job, pid record, deaths | crash with a live child, reused process numbers | no foreign process is ended, no orphan is forgotten, restarts are bounded | planned |
| Fleet sharing, the rest (`fleetsharing/`) | pairing, sources, automatic consent, catalogue, clocks | commands that expire, receipts, cutover from an older format | a source started is a source confirmed | the On/Off control is modelled; the same journal and fences serve these |
| Layout leases, companion previews (`preview/layoutadmission.py`, `companioncontroller.py`) | leases, companion documents | leases against edits | no write without its lease | the crop store, the hardest of these stores, is modelled |
| Wanderer staging (`wanderer/`) | staged primes, HTTP owner, expiry owner | a jump racing an answer | at most one prime per jump (`docs/adr`) | planned if a run is left |
| EVE accounts, skills, fittings (`eveauth/`, `eveskills/`, `evefittings/`) | tokens, characters, lifecycle lease | refresh against sign-out | single writer per character | planned if a run is left |
| EVE settings copies, backups (`evesettings/`) | archives, target files | partial failure | every outcome is reported per target, a restore can be undone | planned if a run is left |
| Settings document (`settings.py`) | one document | one lock, one atomic replace | | little a model adds to its tests |
| Combat logs, fight recorder, Discord posts | parsed logs | parsing, one HTTP post each | | data, not control |
| Alerts, bookmark engine, hotkeys | patterns, key layout | Win32 and AutoHotkey effects | | their stateful consumer, the auto-stream, is modelled |
| Preview host and windows (`preview/host.py`, `window.py`) | native windows | Win32 message order | | pure effects on the window system |
| Clips, stitching | temporary files | ffmpeg calls | | they hold the gate, which is modelled |
| Page (`web/`), packaging | presentation, build | | | presentation appears as inputs |

## 2. Plan

Done, in this order: the gate with the application lifecycle, upload jobs, the
recording list, the auto-stream; then the crop store with the host that drives
it and an import, the source authority with the threads of telemetry, and the
sharing control. Every model has its inductive invariant proved, and with it every
safety invariant and action property that a passing run checks.

To do:

1. `Watcher`, with the poll tick and the deferred refresh.
2. `ProcGuard` with `MirrorSupervisor`: the record on disk across crashes.

## 3. Modules

| Module | Role |
|---|---|
| `WorkGate` | the gate's three flags and its methods, as operators on them; extended by both modules that use the gate |
| `ProcessOwnership` | the abstract specification: who may own the process, with no threads or phases |
| `AppLifecycle` | updater, Quit, shutdown and the work tenants over the gate; implements `ProcessOwnership` |
| `AppLifecycle_proofs` | its theorems |
| `UploadJobs`, `UploadJobs_proofs` | the inside of one tenant: the upload job, over the gate |
| `RecordingRows`, `RecordingRows_proofs` | list, rename, delete and links |
| `StreamCoupling`, `StreamCoupling_proofs` | the auto-stream and its theorems |
| `CropStore` | the crop store: committed memory, queue, worker, and the three sections of a write; operators over its variables |
| `CropWindows` | extends it with those who drive it: the host's ingress, starts and stops, and the crop controller on the pump; the specification |
| `CropWindows_proofs` | its theorems, those about the store included |
| `CropImport` | extends that with a settings import on a bridge thread |
| `SourceAuthority` | the authority of telemetry as one record; each method a pure operator on it |
| `SourceAdmission`, `SourceAdmission_proofs` | the four threads that share the authority; the theorems, with what each method of the authority keeps |
| `SourceTruth_proofs` | extends the proofs: what a current ticket is worth, and that nothing is forgotten |
| `SharingControl`, `SharingControl_proofs` | the sharing choice: bridge, owner thread, journal, relay |
| `MCAppLifecycle`, `MCUploadJobs`, `MCRecordingRows`, `MCCropWindows`, `MCCropImport`, `MCSourceAdmission` | constants for TLC |

`StreamCoupling` and `SharingControl` need no MC module: their constants are
numbers.

### WorkGate and AppLifecycle

`gate` holds the three fields of `WorkGate`; every method is one critical
section under its lock, so one operator. `CanClaimX` is the guard, `ClaimX` the
guard with its assignment; a refused claim is `~CanClaimX` in the caller.

In `AppLifecycle` an action is one critical section or one external call. An
installation is `install_update` and the worker it spawns: it reserves the
phase under the update lock (`InstallReserve`), claims the gate (`InstallClaim`),
starts its thread (`InstallSpawn`, `InstallStart`), and the worker verifies and
starts Setup (`WorkerVerify`, `WorkerExecute`). Each failure leads to the code's own
rollback, in the code's order: gate first, state second (`InstallUndoRelease`
and `InstallUndoState`, `WorkerFailRelease` and `WorkerFailState`). The code
checks for "closed" in between and the model does too. Check and download run
one at a time, as the states allow, so they share one program counter `net`.
A file is its number: `files` are on disk, `staged` is the one the runtime
names. The tray thread is `quit`, the main thread `main`. `shutdown_updates` is
`CloseUpdates` (under the lock) followed by `RemoveStaged`.

### UploadJobs

A member of `Calls` is one bridge call and its thread. `th` keeps the program
counter with the thread's own job, index and request, so what was read before
the claim (`RetryClicked`) is used after it (`ClaimGranted`). The worker begins with
the credentials (`Credentials`); if there are none that can be refreshed it opens a
browser and waits for the user without a timeout, with the gate held and without a
look at the stop flag (`Consent`). The chunk loop is
`Poll`, `ChunkSent`, `LastChunkSent`, `ChunkRetried`. `published` is YouTube's side
and survives `Crash`; `disk` is the links file, `store` the memory of it; `writable`
is fixed at the start, because `links.save` logs a refused write and goes on.
A video is counted as published only when its identifier came back.

### RecordingRows

A recording is one version of a file, that is, one pair of size and mtime: all
the code compares. A row identifier stands for one `VideoInfo` object, shared by
the snapshot and by a job that captured it; a rename changes the object.
The publication lock and the link-store lock are the guards `PublicationFree`
and `StoreFree`. `list_rows` is `ListRows` (generation, folder and revision
read), `Scan` (without locks), then `Accept`, `GiveUp` or `Rescan` under the
publication lock, then `Install`. `_link` is `Persist` and, after the lock has
been let go, `Announce`. `Transfer` makes its video from the recording that lies at
the captured path. `strayed` records that an operation met another recording
there than the one of its row, which the code does not check; the four properties
below all start from its absence, and that the guard matters is listed with
the hazards.

### StreamCoupling

The worker takes an alert or wakes at quiet expiry. Settings are read where
the code reads them, into `plan`; the probe's answer is a snapshot, `verdict`,
and the stream can change between the snapshot and the press (`touched`). All
latches share one quiet period, so one flag says whether any holds. Time is
`Quiet`. The probe may always fail to answer: no token, no budget, gateway down
are one outcome. `presses`, `touched` and `meddled` are history variables, used by
properties only.

### CropStore, CropWindows, CropImport

The store never holds its metadata lock over the disk, so a write of the worker
is three actions: `Admit` (under both locks), `Save` (the end of the settings
transaction) and `Commit` (under the metadata lock again); a flush of moves is
`FlushAdmit`, `FlushSave`, `FlushCommit`. Fences, cancellations, moves and imports
may arrive between them. `Start` is `_start_locked`: the worker starts with the
first thing to do, and if it cannot, everything queued is answered. A debounced
move is due at any time after it was armed. `saved` and `owed` are history: the
operations whose save reached the disk, and the last accepted move of a crop.

`CropWindows` adds the host. `Request` is the ingress (`request_crop`), which takes
the token; `OfflineCommand` is the bridge thread when no pump runs. On the pump
`PumpCommand`, `Advance` and `Complete` are the controller's `request`, `_advance` and
`complete`, `Confirm` and `PickerCancel` the two ends of a picker, `Reconcile` the
windows following the committed generations. Identifiers are given in the order
of arrival, so the controller's waiting list of a crop is a set whose least member
(`Eldest`) is its head. A stop is `StopPump` (the fence),
`BeginStop`, a submission at a time, the barrier, `FinishStop`.

An import is saved under the settings lock (`ImportSave`), read back from it
(`ImportRead`) and adopted later (`ImportAdopt`, `CropStore.reload`).

### SourceAuthority, SourceAdmission

The state of `_SourceAuthority` is one record behind one leaf lock, so each of its
methods is one operator on the record. Where the code makes a fresh `object()`
the model counts; its header says which counters restart and why that loses
nothing. `SourceAdmission` has the threads: a scan is begun, committed and
delivered; an operation of the log worker holds `_op_lock` (`pc = "work"`), leaves
its batches in a queue, and whoever claimed delivery (`drainer`) carries them to
the dispatcher's queue one by one. The dispatcher takes a roster, a batch or a
control item; a reset, its priming, the republication of sources and the request
for them are steps of their own, as another thread may act in between. A view
is published by `PublishCapture` and, if nothing was revoked meanwhile,
`PublishSeal`. The reconcile pass is one action per step that waits or calls
another service, and every wait may time out.

### SharingControl

`Choose` is the bridge call up to the worker's lock, `Queue` what `_queue` does under
it, `Prefer` the save of the preference. An owner's turn is a program counter: a
save that a queued choice may overtake (`ingest`, `alloc`, `accept`) is a state of
its own between the check before it and the assignment after it, which is where
`_persist` looks at the fence. `Send` is `before_send`, under the lock a choice is
queued under. `Acknowledge` is what follows in memory, and looks at no fence. The
history `off` says that an Off protects: raised when it is queued, lowered when On
is chosen, when the owner refuses that Off with the preference still on, or when
the process dies before it is saved; raised again by the save of the preference
(`Prefer`), or, if a snapshot is by then past the last look at the preference
(`InHand`), as soon as that one has left. The
relay is external: a revision is accepted once per session and in order, and a
choice is a compare and swap on the generation the user saw. Memory holds what
the last save wrote, so `state` stands for both and survives `Crash`.

## 4. Runs

| Run | Bounds | States | Shows |
|---|---|---|---|
| `app_lifecycle` | 2 work threads, 2 install calls, 2 downloads | 535,931 | eight properties and the refinement of `ProcessOwnership` |
| `upload_jobs` | 2 calls, 2 jobs of 2 recordings (plain or stitched), 3 runs, 2 chunks, 2 attempts, 1 crash | 1,089,348 | six properties, among them that a transfer ends or waits for consent |
| `upload_retry` | 1 call, 2 jobs, 3 runs, no crash | | a disagreement, see below |
| `recording_rows` | 2 paths in one folder and 1 in another, 2 recordings, 2 list threads, 3 lists, 1 rename, 2 videos | 5,720,340 | five invariants |
| `stream_coupling` | 2 queued alerts | 22,842 | five properties |
| `stream_hands` | 1 queued alert | | a disagreement |
| `crop_windows` | 1 character, 2 edits, 1 move, 2 rosters, 1 epoch, 1 failure | 1,455,603 | four invariants, and that every edit is answered |
| `crop_import` | 1 character, 1 edit, 1 move, 1 import | | a disagreement |
| `source_admission` | 4 events (passes, scans, operations of the log worker, failures, the close) in any mix, 2 folders | 894,927 | five invariants and one action property |
| `sharing_control` | 2 choices, 2 works of a live owner, 1 fault | 508,592 | four properties, among them that an Off is settled |
| `source_unbound` | 5 events, 1 folder, Fleet on, no previews | | a disagreement |
| `sharing_refused` | the bounds of `sharing_control` | | a disagreement |

Why these bounds are enough to be interesting. Two installations are the fewest
for which a second click meets the tail of a first, two downloads the fewest for
which a fresh file meets the removal of an old one, two work threads the fewest
that contend. Two recordings per job are the fewest for which a job can fail half
way; three runs allow a job, its retry and another job; two attempts tell a
retried chunk from a last one, and two chunks let the count be reset in between.
Two list threads are the fewest that end out of order; three lists let a third be
asked for while two are under way; a second folder is there for the change of
folder. Two edits of one crop are the fewest in which one waits for the other,
supersedes it or meets its completion, and the one move falls in every section of
their writes; a failure may be of the save, the flush, the worker's start or a
barrier. Four events are enough for a session to appear, its log to be found and
lost, and a pass to stop the producers, or for Fleet to go on, off and on again
around a scan. Two choices are an On and the Off that overtakes it (or the other
way round), two works of a live owner a proof and a publication, and the fault is
each of the five in turn. `SourceAdmission` with five events and one folder (7.6
million states) was run once, without an error. In `stream_coupling` a second
alert waits while the first is decided; presses, hand toggles and restarts are not
bounded at all.

Deadlock is checked in `app_lifecycle`, which idles only once the process has
exited, and in `stream_coupling`. The bounds on jobs, lists and renames stop the
other models, so their configurations turn the check off.

### Properties

`SetupNeverUnderWork`, `QuitExcludesHandoff`, `DiscardOnlyByConsent`: the three
tenants of the process exclude each other, and Quit takes a job down only with the
user's answer. `HandoffOwned`: no two installations hold the handoff flag, it is
set while one does, and it is set without one only once Setup owns the process or
the updater is closed. `ReadyIsInstallable`: a failed installation lets go of both
the gate and the state, in an order that never shows a ready update that cannot be
installed. `OwnershipHolds`: the whole is an implementation of `ProcessOwnership`.
`HandoffResolves`, `SetupClosesGate`: liveness.

`PublishedWasConfirmed`, `LinksSurviveCrash`, `StopEndsItsOwnJob`,
`KeptSessionHasItsFile`, `TransferEnds`: of each job, of each stop, and of what is
left after a crash (at most the one link that was being written). A transfer ends
and gives the gate back, or it stands at the wait for the user's consent.

`CapturesFollowFiles`, `LinksFollowFiles`, `RowsShowTheirOwnVideo`,
`ListIsCurrent`: of the list, under renames and deletes by any thread, as long as no
operation has met another recording at the path of its row.

`EpisodeIsWingmans`, `OnePressPerFight`, `PressesHitTheirTarget`, `EpisodeEnds`: of
the auto-stream.

`OneTrueOutcome`, `MemoryIsDisk`, `MovesSurvive`, `EveryEditAnswered`: of crops. The
answer to an edit is the truth about the disk, memory differs from the disk only
between a save and its commit, an accepted move is committed or still owed under
the generation that lets it through, and edits, drains and the close are answered.

`AdmittedIsTrue`, `RevokedForGood`: what a subscriber may believe of a ticket.
While it is current it shows the session of now, the activation asked for last,
and the log of now; or no log, and then there is no session, the dispatcher has
the log already, or a batch under way to it names it. `NothingForgotten`: once all
threads rest nothing is left undelivered or unacknowledged. `BeginNeverRaises`,
`SubscribersAreServed`: of the reconcile pass, however many of its waits time out.

`OffHolds`, `OffIsFinal`, `OffIsSettled`: of the sharing choice. They are about the
latest choice the user made, and follow it through the queue, the journal, the
relay and restarts. An Off protects from its queueing, unless the owner has to refuse
it or the process dies before it is saved, and from the saving of the preference in
any case, but for one snapshot that was already past the last look at it.

For every property there is a mutant of a mapped definition
(`PROJECT.json`, "mutants"), a plausible slip in the code, under which TLC finds
the property violated. Those definitions sit next to the real ones with a
comment naming the slip.

### Fairness

- `AppLifecycle`: weak fairness of every installation's thread once it has
  reserved, and of the main thread once its window has gone. Python threads run
  until they return, and none of these steps waits for another thread without
  bound. One of them waits for Windows: `WorkerExecute` is `ShellExecuteExW`
  (`updates.py:1028-1052`), which may show a prompt of the system; that the prompt
  is answered is an assumption of `HandoffResolves`. Clicks, downloads, jobs, Quit
  and crashes are free never to happen.
- `UploadJobs`: weak fairness of dispatch and of the transfer's steps. The chunk
  loop sleeps a bounded backoff and calls a client with a socket timeout. Nothing
  is assumed of the user: the confirmation may stay open for ever, and so may the
  consent in the browser (`uploader.py:378-385`, `run_local_server` without a timeout,
  the gate held, the stop flag not looked at); `Confirm` and `Consent` have no
  fairness and `TransferEnds` does not promise that they happen.
- `StreamCoupling`: weak fairness of the worker, and strong fairness of an
  answer to the stop probe: a probe asked again and again is answered some day.
  That is an assumption about the gateway and the budget, not something the code
  ensures; without it the code puts the stop off for ever, by design
  (`streamcoupling.py:826`). A gateway that stays dead is thereby assumed away, not
  shown to be harmless.
- `CropWindows`: weak fairness of the store's worker and of the pump's handlers,
  both loops that only wait for work. Nothing is assumed of users, snapshots or
  the picker. `EveryEditAnswered` says "again and again without debt"; an answer
  is never withdrawn, so each edit is answered.
- `SharingControl`: weak fairness of the owner, a loop with bounded waits, and of
  the delivery of the one request it waits for; an answer that never comes is the
  fault `LoseAnswer`, which the client's timeout makes of it. A recovery of the
  session, once begun, succeeds in the model; the relay's refusals of one and the
  pause after them (`worker.py:3791-3817`) can leave an Off pending for as long as they
  last, and `OffIsSettled` does not cover that.
- `SourceAdmission` has no fairness and no liveness: its bound counts the very
  operations that would repair a poisoned frontier, and a log operation kept
  warm across a reset poisons it until the next one by design
  (`tests/test_telemetry_source_admission.py:553`).

### Disagreements found

- `upload_retry`: the Retry button belongs to the process, the retry state to the
  last job that failed. A failed job enables the button, another job that fails
  part way without offering a retry takes over the state, and Retry then redoes
  that job from its first recording. `RetryState` says "resume rather than
  restart".
- `stream_hands`: the branch that spares a stream the user opened by hand in the
  middle of an episode can never be taken (`EpisodeIsWingmans`, checked and
  proved), so the stop press ends that stream.
- `crop_import`: an import restarts generations at 0, and a crop that was loaded
  and never edited has generation 0: its window stays and its moves are accepted,
  where `reload` says they are refused.
- `source_unbound`: the dispatcher asks the log worker for the log of a new session,
  and "the ordering the whole join depends on" is that the answer is queued to
  itself before it publishes (`coordinator.py:1489`). If the log worker is delivering,
  the answer is left to it (`gamelogs.py:646`), and the session is published without
  its log under a current ticket, until the batch arrives (`AdmittedIsTrue`).
- `sharing_refused`: an Off chosen on a page that did not see the On in the journal is
  refused by the owner, and the On, once acknowledged, clears the inhibition that Off
  had set. Until the bridge call has saved the preference, for which it may wait for
  a lock and the disk, a snapshot may leave. `settings.py:1250` says that the bridge
  inhibits first.

Two more were seen and have no run. `links.rename` promises to overwrite an entry
at the destination and returns before that when the source has none: the entry of
a deleted recording stays keyed to a live name (`links.py:159`); `lookup` compares
size and mtime, so no row shows it unless both agree. And an Off chosen while the
answer to an On is being taken in no longer inhibits once that answer has been:
the owner clears `_inhibit` after its last look at the fence
(`worker.py:3674-3677`), so that the status says `local_inhibited` False where
`docs/smoke-checklist.md:3710` says it cannot; publication is refused all the
same, by the queued command and then by the journal (`OffHolds`).

## 5. Proofs

Every theorem holds for every value of the constants that the named assumptions
allow, and TLC evaluates the assumptions in the runs. They ask little: bounds are
numbers (`SlotsAssumption`, `AlertsAssumption`, `BoundsAssumption`, `CropBounds`,
`AdmissionBounds`, `SharingBounds`, `ListBounds`), the phases of the updater are
phases of the gate (`UpdaterPhases`) and "none" is not (`PhasesAssumption`), a job
has recordings and a stitched one at least two (`ShapesAssumption`), paths are
finite in number and each lies in a folder (`NamesAssumption`), and "no recording"
is not a recording (`RecordingsAssumption`). Numbers of threads, calls, list
threads, crops and recordings are arbitrary.

In each module `IInv` is inductive, `Invariance` says that it always holds, and
every other theorem follows from it. There is one lemma per action, or per group of
actions that disturbs the same part of `IInv`.

**AppLifecycle** (`AppLifecycle_proofs`). `IInv` is the conjunction of:

- `Reservation`, `NetReservation`: the runtime state says how far the one
  installation, or the one check or download, has come. This is what makes a
  state a lock: no second installation passes `InstallReserve`.
- `Ownerships`: which program counters hold the gate's handoff, which do not, and that
  a set flag has a holder or a state that explains it. With `Reservation` it gives the
  one holder of `HandoffOwned`.
- `Tenancy`: the upload flag and its one tenant.
- `SetupKeepsHandoff`: once Setup runs nobody is left who could give the claim
  back.
- `QuitGrant`: Quit against handoff and against the upload.
- `FileKeeping`: file numbers only grow, an installable file is on disk, and the
  removals still to come concern older files. `ReadyIsInstallable` alone is not
  inductive: a removal under way could name the staged file.

From `Invariance` follow `SetupExclusion`, `HandoffIsOwned`, `ReadyForInstall`,
`ConsentBeforeDiscard`, `QuitExclusion`, and `Refinement`: each step maps to a step
of `ProcessOwnership` or leaves its variables alone.

**StreamCoupling** (`StreamCoupling_proofs`). `IInv` adds to the type and
`EpisodeIsWingmans`: `DecisionInv` (what the program counter says about episode and
latch), `SnapshotInv` (an untouched snapshot still tells the truth),
`PressInv` (the count of presses against the episode). From it follow
`EpisodeOwnership`, `OneStreamPerFight` and `TargetedPresses`, an action property.

**UploadJobs** (`UploadJobs_proofs`). All rests on `GateInv`: one worker at most is
past its claim. So a stop flag it can see was raised since that claim (`StopInv`),
and what it publishes, and the session a failure keeps, belong to a job that was
confirmed (`SoundInv`: confirmation is lost by no path, a Retry asks nothing but
starts from a job that was). `LinkInv` says that while a video is being linked each
of its recordings is on file or still to do; `LossInv` counts: apart from the
video being linked, as many videos are off the file as there were crashes, at
most. `LinksSurviveCrash` alone is not inductive, as it says nothing of the middle
of a link. `StopEndsItsOwnJobAlways` is an action property.

**RecordingRows** (`RecordingRows_proofs`). Four things that should agree are each
compared with the files, and each part of `IInv` says how far one may be out of
step inside another thread's operation. `NameInv`: names of captured objects;
between the move of a file and the repointing the objects of that one recording
are behind, and nobody can have seen the destination. A scan that began before a
rename may be wrong, and its older revision says so. `LinkInv`: the store; behind for
the recording being renamed, and for the newest video of an upload until it is
persisted. `RowInv` and `StoreInv`: a link is of a video made from the same recording,
wherever it is kept. `ListInv`: if a row is out of date then a rebuild is about to
begin, or the newest one holds nothing that is not so any more; this needs that an
older rebuild, which may still install, is followed by a newer one. As in the
runs, the parts about identity start from `~strayed`.

**CropWindows** (`CropWindows_proofs`). Only the store's worker touches document,
definitions and the set of saved edits. `Outside` is all that a step of the host,
the pump or a bridge thread can do to the store (answer edits that were not
admitted, hand in a newer move, fence); the invariant is kept by such steps
once, and by the worker's steps one at a time. `WorkInv` says what the worker
knows between two of its critical sections, when it holds no lock: the admitted
edit is undecided, what it saved is on disk. `DiskInv`, `MoveInv` and `CarryInv` are
the strengthenings of `MemoryIsDisk` and `MovesSurvive`: the definition being written
carries the move that was pending at its admission, and a newer one is still pending
at its commit. From it follow `OneTrueOutcomeAlways`, `MemoryIsDiskAlways`,
`MovesSurviveAlways`.

**SharingControl** (`SharingControl_proofs`). The argument is about revisions. The
owner saves a revision before it uses it, so a request has the newest one or can
change the relay no more (`RevisionInv`), and what an answer tells is the state
the relay was left in (`AnswerInv`). `FinalInv`: after an acknowledged Off no On
is queued, journalled or alive on the network. `OffInv`: while the preference is
on, an Off that protects is in the queue, in the journal or confirmed with the
relay seen off, and a snapshot past the last look at the preference is older than
it, with the queue to show for it. `TurnInv` says what the owner carries from step
to step. From it follow `OffIsFinalAlways` and `OffHoldsAlways`, an action
property.

**SourceAdmission** (`SourceAdmission_proofs`). Its first part states
for every method of the authority its contract, `Advances`: the token never
goes back, and while a captured token stays so does everything that made it
current. It is transitive, so a thread may call several methods in one step.
`TicketInv`: no ticket and no frontier has a token of the future, and one that has the
current token holds it; `RevokedForGoodAlways` follows. `LifeInv`: each thread's
receipt is of its lane's lifetime and a lane that a pass is about to begin does not
run (`BeginNeverRaisesAlways`). `FlowInv`: where a pass stands tells what it has
already unsubscribed and that the dispatcher serves what is left
(`SubscribersAreServedAlways`). `DrainInv`: one owner of delivery.

**SourceAdmission, the truth of a ticket** (`SourceTruth_proofs`). `AdmittedIsTrue`
speaks of a ticket when it is current; what makes it true was decided when the news
left its producer, several queues and threads earlier. So its strengthening
`TruthInv` speaks of the news on its way:

- `LaneTruth`: every thread holds the receipt its lane asked for, no lane
  acknowledged a receipt it did not give out, the dispatcher knows the pending reset.
- `DiscoveryTruth`, `StreamTruth`: a worker works within its lifetime, or is
  one whose lifetime is over and whose reports nobody will accept.
- `RosterTruth`: a roster under way was issued by now and none is younger than
  discovery's; the one that answers the last receipt, and every one that comes after
  it, names the session of now. If the roster lane is in sync, then the dispatcher
  holds that session and what is still under way says the same.
- `SourceTruth`: the same of batches of the log, in the order they are delivered:
  carried, queued behind a drain, or in the dispatcher's queue (`Flies`). It needs the
  order of the three together: a batch in the worker's queue that arrives late would
  undo a newer one.
- `ModeTruth`: the last mode under way is the one asked for last.
- `SealTruth`: a frontier captured and not yet sealed is worth what a ticket is, as
  long as its token is the current one.

A step of a thread is `Calm` for the lanes it leaves alone and `Aloof` when it brings
no news; there is a lemma for each that does bring some. The token joins the two
halves: whatever would falsify a held value takes the token first, by the contract
of the authority. `TruthInvariance` follows.

That leaves the log a ticket may show as none. `HeardInv` speaks of the dispatcher:
while the log lane is in sync and consumed, it knows the log of its session, is
about to ask for it, or an answer that names it is under way (`Heard`); and what is
shown as current, or about to be sealed, has nothing left to ask. It needs the
invariants of both halves of the module, so `HeardInvariance` comes last, and
`AdmittedIsTrueAlways` follows from it.

**SourceAdmission, nothing is forgotten** (`SourceTruth_proofs`, second half).
`NothingForgotten` is only seen when all threads rest, and says that something
has happened by then, which no part of `TruthInv` does. Its strengthening `RestInv`
is the converse: what was not acknowledged is still on its way.

- `Owing` is the heart. `Live` is when the views may be shown: Fleet is on, the
  authority neither closed nor poisoned nor being reset. Then, unless a mode or a
  refresh is about to reset everything (`Turning`), the roster lane has acknowledged
  its last receipt or discovery's latest roster, which answers it, is still to be
  delivered or taken (`RosterOwed`); and for each receipt of the log that was not
  acknowledged a batch that answers it is under way (`StreamOwed`), as that lane
  acknowledges its receipts one after the other.
- `Newest`, `InOrder`: what is owed is not overtaken. No roster but discovery's latest
  has its number, and the dispatcher did not take a later one; the receipts of one
  lifetime of the log travel in their order.
- `Delivered`: whoever leaves delivery leaves nothing behind.
- `Listened`: a producer that may report has its subscriber, and one that lost it
  was stopped. Otherwise a scan would commit a roster that nobody is told.
- `Wishes`: the modes in the queue lead from what the dispatcher has to what
  the user asked for, each one really turns Fleet, and a refresh finds it on. So a
  Fleet that is on although nobody wants it is about to be turned off, and a
  producer may be stopped with receipts open.
- `Expected`: a completion belongs to the last command. `Failure`: if it says that
  the reset failed, then the views stay withheld and no command is queued that would
  change that; so a pass that goes on to stop discovery on account of it (with
  Fleet still wanted) loses nothing that is owed.
- `Priming`: between a reset and its reseed the views are withheld.

The three conjuncts about modes and completions are what the property depends on and
what no reading of one thread shows: without them a pass stops a producer whose
receipt is outstanding while the views are live. `RestInvariance` has one lemma per
action, over `TruthInv` and `IInv`, and `NothingForgottenAlways` follows: at rest
nothing is under way, so nothing is owed. The premise `pending = 0` matters: stopping
discovery reserves the control lane and drops the delivery (`coordinator.py:575`), and
a reset that this falls into cannot reseed; the views are then withheld until the
next one.

**Only model-checked** (every other property of a passing run is stated by a theorem):

- Liveness (`HandoffResolves`, `SetupClosesGate`, `TransferEnds`, `EpisodeEnds`,
  `EveryEditAnswered`, `OffIsSettled`): reasoning about fairness and ENABLED is out of
  reach of the installed provers.
- The five disagreements: each is a counterexample of TLC. `CropImport` has one of
  them and no theorem; the theorems about crops are of `CropWindows`, without an
  import.

## 6. Abstractions to know about

- Text, wording, progress and pushes to the page are left out, except the Retry
  button, which is state.
- A download has three outcomes: a good file, a file re-verification rejects, or
  none. Whether Setup, once started, succeeds is outside the process.
- Combat-log posting, archive, local stitch and clip jobs are not inside the
  models; the last two appear as work tenants of the gate.
- The rows of an upload are captured and its gate is claimed in one step of
  `RecordingRows` (`controller.py:1190-1252` and 1254); `UploadJobs` keeps them apart.
- The duration probe and its cache, and the watcher's callbacks on rename and
  delete, are left out of `RecordingRows`.
- File operations are atomic and may fail; a power cut is a `Crash`.
- Crops: one picker at a time, as in the code; the cap on windows, several
  displays and `submit_primary` (a call from the other previews that shares the
  worker) are left out. A toggle is an enable or a disable, resolved at the
  request. The store's and the host's barrier of a stop are one. `drain` always
  queues its barrier: the branch that answers an idle store at once is for a store
  built without `flush_primary`, and the program always gives it one
  (`__main__.py:491`). The two critical sections of `close` are one step. Imports are in
  `CropImport` only.
- Source admission: one character. The calls of the authority that end one
  delivery are one step, as are a reservation and the change it announces (the
  code holds one lock over both), the reset of metrics with its signal and the
  restatement of control, and the sight of an empty queue with the capture. The
  code scans and polls under one hold of `_op_lock`; the model lets go in between,
  which allows more. Steps of a pass with nothing to do are skipped. Previews and
  their alerts are one switch. `TelemetryCoordinator.stop`, threads that fail to
  start, custom alerts, alert resets and publishing without a ticket are left out.
- Sharing: the user makes one choice after the other; the status shown is read in
  the step that checks it. The two requests that open a new session are one step.
  The section stays open on the page, so the owner never goes inert. Scheduling is
  free: any work that is due may be chosen. A recovery that is begun succeeds.
  Left out: a preference that cannot be saved (`settings.py:1263-1270`), sources,
  automatic consent, pairing, capabilities, expiry, snapshots read, a withdrawal
  for lost eligibility, a choice deferred for space, archive and cutover, an
  orderly stop.
