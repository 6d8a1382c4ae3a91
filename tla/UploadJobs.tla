----------------------------- MODULE UploadJobs -----------------------------
(***************************************************************************)
(* One confirmed upload job from the Upload click to the durable links of  *)
(* its videos: start_upload, the confirm, the chunked transfer, Stop,      *)
(* Retry and the link store, over the shared work gate.                    *)
(*                                                                         *)
(* A member of Calls is a bridge call of start_upload or retry and the     *)
(* worker thread it spawns; calls overlap freely.  A video is known by its *)
(* place in published, a job by its place in jobs.                         *)
(***************************************************************************)
EXTENDS Integers, Sequences, FiniteSets, WorkGate

CONSTANTS
    Calls,               \* bridge calls and their workers
    Recordings,          \* the user's recordings
    JobShapes,           \* the jobs a page may send: [items, stitch]
    MaxJobs,             \* bound: jobs started
    MaxRuns,             \* bound: claims granted (first runs and retries)
    MaxCrashes,          \* bound: process deaths
    Chunks,              \* bound: chunks of one recording
    MaxAttempts          \* uploader.upload's max_attempts

ASSUME ShapesAssumption ==
    \A s \in JobShapes : /\ s.items \in Seq(Recordings) /\ s.items # <<>>
                         /\ s.stitch \in BOOLEAN
                         /\ s.stitch => Len(s.items) >= 2

ASSUME BoundsAssumption ==
    /\ {MaxJobs, MaxRuns, MaxCrashes} \subseteq Nat
    /\ {Chunks, MaxAttempts} \subseteq Nat \ {0}

VARIABLES
    jobs,                \* every UploadJob made: [items, stitch, confirmed]
    th,                  \* [Calls -> the call's program counter and locals]
    cancel,              \* the _cancel event
    retryState,          \* _retry_state, NoRetry for None
    retryOn,             \* the page's Retry button is enabled
    published,           \* videos on the channel: [job, items, stitch]
    store,               \* _link_store: recording -> newest video, 0 for none
    disk,                \* the links file
    writable,            \* whether this installation can write that file
    runs,                \* claims granted so far
    clickRun,            \* value of runs at the last Stop click
    crashes              \* process deaths so far

history == <<runs, clickRun, crashes>>
links == <<store, disk, writable>>
vars == <<gate, jobs, th, cancel, retryState, retryOn, published, links, history>>

NoJob == 0
NoVideo == 0
NoRequest == 0
NoRetry == [job |-> NoJob, index |-> 0, request |-> NoRequest]

\* The locals of a bridge call and of its worker.  request is the resumable
\* session: the chunks it still has to send, NoRequest when there is none.
Idle == [pc |-> "idle", job |-> NoJob, index |-> 0, request |-> NoRequest,
         resume |-> FALSE, attempts |-> 0, todo |-> <<>>]

ClaimedPcs == {"dispatch", "redispatch", "confirm", "auth", "consent", "prepare", "poll",
               "chunk", "link", "done", "release"}
Pcs == {"idle", "claimStart", "claimRetry"} \cup ClaimedPcs

Claimed(c) == th[c].pc \in ClaimedPcs
Job(c) == jobs[th[c].job]
\* The worker is about to leave _run_claimed_upload; its locals are dead.
Leave(c) == th' = [th EXCEPT ![c] = [Idle EXCEPT !.pc = "release", !.job = th[c].job]]

TypeOK ==
    /\ GateTypeOK
    /\ jobs \in Seq([items : Seq(Recordings), stitch : BOOLEAN, confirmed : BOOLEAN])
    /\ \A c \in Calls :
        /\ th[c].pc \in Pcs
        /\ th[c].job \in 0 .. Len(jobs)
        /\ th[c].pc # "idle" => th[c].job # NoJob
        /\ th[c].pc \in {"poll", "chunk", "link"} => th[c].index \in DOMAIN Job(c).items
        /\ th[c].request \in 0 .. Chunks
        /\ th[c].attempts \in 0 .. MaxAttempts - 1
    /\ cancel \in BOOLEAN
    /\ retryState.job \in 0 .. Len(jobs)
    /\ retryState.request \in 0 .. Chunks
    /\ retryOn \in BOOLEAN
    /\ store \in [Recordings -> 0 .. Len(published)]
    /\ disk \in [Recordings -> 0 .. Len(published)]
    /\ writable \in BOOLEAN
    /\ clickRun <= runs

Init ==
    /\ GateInit
    /\ jobs = <<>>
    /\ th = [c \in Calls |-> Idle]
    /\ cancel = FALSE
    /\ retryState = NoRetry
    /\ retryOn = FALSE
    /\ published = <<>>
    /\ store = [r \in Recordings |-> NoVideo]
    /\ disk = [r \in Recordings |-> NoVideo]
    /\ writable \in BOOLEAN
    /\ runs = 0
    /\ clickRun = 0
    /\ crashes = 0

-----------------------------------------------------------------------------
(* The bridge: start_upload, retry and cancel_upload. *)

\* start_upload up to the claim: the rows resolved, the job built.
StartUpload(c, shape) ==
    /\ th[c].pc = "idle" /\ Len(jobs) < MaxJobs
    /\ jobs' = Append(jobs, [items |-> shape.items, stitch |-> shape.stitch,
                             confirmed |-> FALSE])
    /\ th' = [th EXCEPT ![c].pc = "claimStart", ![c].job = Len(jobs) + 1, ![c].index = 1]
    /\ UNCHANGED <<gate, cancel, retryState, retryOn, published, links, history>>

\* retry reads the state before it asks the gate.
RetryClicked(c) ==
    /\ th[c].pc = "idle" /\ retryOn /\ retryState # NoRetry
    /\ th' = [th EXCEPT ![c].pc = "claimRetry", ![c].job = retryState.job,
                        ![c].index = retryState.index, ![c].request = retryState.request,
                        ![c].resume = retryState.request # NoRequest]
    /\ UNCHANGED <<gate, jobs, cancel, retryState, retryOn, published, links, history>>

ClaimGranted(c) ==
    /\ th[c].pc \in {"claimStart", "claimRetry"} /\ runs < MaxRuns
    /\ ClaimUpload
    /\ runs' = runs + 1
    /\ retryOn' = (retryOn /\ th[c].pc = "claimStart")
    /\ th' = [th EXCEPT ![c].pc = IF @ = "claimStart" THEN "dispatch" ELSE "redispatch"]
    /\ UNCHANGED <<jobs, cancel, retryState, published, links, clickRun, crashes>>

ClaimRefused(c) ==
    /\ th[c].pc \in {"claimStart", "claimRetry"} /\ ~CanClaimUpload
    /\ retryOn' = (retryOn /\ th[c].pc = "claimStart")
    /\ th' = [th EXCEPT ![c] = Idle]
    /\ UNCHANGED <<gate, jobs, cancel, retryState, published, links, history>>

\* Mutant: a stop flag left over from an earlier click is not cleared.
DispatchKeepsStop(c) ==
    /\ \/ th[c].pc = "dispatch" /\ th' = [th EXCEPT ![c].pc = "confirm"]
       \/ /\ th[c].pc = "redispatch"
          /\ th' = [th EXCEPT ![c].pc = IF th[c].resume THEN "poll" ELSE "auth",
                               ![c].index = IF th[c].resume THEN @ ELSE 1]
       \/ th[c].pc \in {"dispatch", "redispatch"} /\ Leave(c)
    /\ UNCHANGED <<gate, jobs, cancel, retryState, retryOn, published, links, history>>

\* Mutant: the worker starts without the confirm.
DispatchUnconfirmed(c) ==
    /\ cancel' = FALSE
    /\ th[c].pc \in {"dispatch", "redispatch"}
    /\ th' = [th EXCEPT ![c].pc = "auth", ![c].index = 1]
    /\ UNCHANGED <<gate, jobs, retryState, retryOn, published, links, history>>

\* The stop flag is cleared per dispatch, after the claim.  A fresh job asks
\* first; a Retry resumes its session or, without one, redoes the whole job
\* with no second confirm.
Dispatch(c) ==
    /\ cancel' = FALSE
    /\ \/ th[c].pc = "dispatch" /\ th' = [th EXCEPT ![c].pc = "confirm"]
       \/ /\ th[c].pc = "redispatch"
          /\ th' = [th EXCEPT ![c].pc = IF th[c].resume THEN "poll" ELSE "auth",
                               ![c].index = IF th[c].resume THEN @ ELSE 1]
       \* no thread could be started
       \/ th[c].pc \in {"dispatch", "redispatch"} /\ Leave(c)
    /\ UNCHANGED <<gate, jobs, retryState, retryOn, published, links, history>>

\* The click may arrive at any time, whatever the button showed.
CancelUpload ==
    /\ cancel' = TRUE
    /\ clickRun' = runs
    /\ UNCHANGED <<gate, jobs, th, retryState, retryOn, published, links, runs, crashes>>

-----------------------------------------------------------------------------
(* The worker thread: _confirm_then_upload, _upload_worker, _retry_worker. *)

Confirm(c) ==
    /\ th[c].pc = "confirm"
    /\ \/ /\ th' = [th EXCEPT ![c].pc = "auth"]
          /\ jobs' = [jobs EXCEPT ![th[c].job].confirmed = TRUE]
       \/ Leave(c) /\ UNCHANGED jobs
    /\ UNCHANGED <<gate, cancel, retryState, retryOn, published, links, history>>

\* The top of _upload_worker: the stored credentials serve, or are refreshed, or
\* there are none and a browser is opened for the user's consent.  A failure here
\* drops the Retry state.
Credentials(c) ==
    /\ th[c].pc = "auth"
    /\ \/ \E next \in {"prepare", "consent"} : th' = [th EXCEPT ![c].pc = next]
          /\ UNCHANGED retryState
       \/ Leave(c) /\ retryState' = NoRetry
    /\ UNCHANGED <<gate, jobs, cancel, retryOn, published, links, history>>

\* run_oauth_flow waits for the browser with no timeout and does not look at the
\* stop flag: the user gives the consent, refuses it, or never answers.
Consent(c) ==
    /\ th[c].pc = "consent"
    /\ \/ th' = [th EXCEPT ![c].pc = "prepare"] /\ UNCHANGED retryState
       \/ Leave(c) /\ retryState' = NoRetry
    /\ UNCHANGED <<gate, jobs, cancel, retryOn, published, links, history>>

\* What goes before a session: the client and the join of a stitched job, then for
\* each recording its file and its request.  A new session starts with every chunk
\* to send; a failure here drops the Retry state.
Prepare(c) ==
    /\ th[c].pc = "prepare"
    /\ \/ /\ th' = [th EXCEPT ![c].pc = "poll", ![c].request = Chunks, ![c].attempts = 0,
                              ![c].resume = FALSE]
          /\ UNCHANGED retryState
       \/ Leave(c) /\ retryState' = NoRetry
    /\ UNCHANGED <<gate, jobs, cancel, retryOn, published, links, history>>

\* The top of uploader.upload's loop.  A stop forgets the Retry state.
Poll(c) ==
    /\ th[c].pc = "poll"
    /\ IF cancel
       THEN Leave(c) /\ retryState' = NoRetry
       ELSE th' = [th EXCEPT ![c].pc = "chunk"] /\ UNCHANGED retryState
    /\ UNCHANGED <<gate, jobs, cancel, retryOn, published, links, history>>

ChunkSent(c) ==
    /\ th[c].pc = "chunk" /\ th[c].request > 1
    /\ th' = [th EXCEPT ![c].pc = "poll", ![c].request = @ - 1, ![c].attempts = 0]
    /\ UNCHANGED <<gate, jobs, cancel, retryState, retryOn, published, links, history>>

\* The recordings a video holds: all of a stitched job, else the one in turn.
Sources(c) == IF Job(c).stitch THEN Job(c).items ELSE <<Job(c).items[th[c].index]>>

LastChunkSent(c) ==
    /\ th[c].pc = "chunk" /\ th[c].request = 1
    /\ published' = Append(published, [job |-> th[c].job, items |-> Sources(c),
                                      stitch |-> Job(c).stitch])
    /\ th' = [th EXCEPT ![c].pc = "link", ![c].todo = Sources(c)]
    /\ UNCHANGED <<gate, jobs, cancel, retryState, retryOn, links, history>>

\* Mutant: attempts are counted but never compared with the limit.
ChunkRetriedForEver(c) ==
    /\ th[c].pc = "chunk"
    /\ th' = [th EXCEPT ![c].pc = "poll", ![c].attempts = @ + 1]
    /\ UNCHANGED <<gate, jobs, cancel, retryState, retryOn, published, links, history>>

\* Mutant: attempts are not counted at all.
ChunkRetriedUncounted(c) ==
    /\ th[c].pc = "chunk"
    /\ th' = [th EXCEPT ![c].pc = "poll"]
    /\ UNCHANGED <<gate, jobs, cancel, retryState, retryOn, published, links, history>>

\* A transient error below the attempt limit: back off and go on.
ChunkRetried(c) ==
    /\ th[c].pc = "chunk" /\ th[c].attempts + 1 < MaxAttempts
    /\ th' = [th EXCEPT ![c].pc = "poll", ![c].attempts = @ + 1]
    /\ UNCHANGED <<gate, jobs, cancel, retryState, retryOn, published, links, history>>

\* Mutant: the session of a stitched job is kept although its file is gone.
ResumableAlways(c) == TRUE

\* UploadFailed.  Its session is kept only when it can be resumed; only a
\* RETRY outcome enables the button, and no outcome disables it.
Resumable(c) == ~Job(c).stitch

UploadFailed(c, retryable) ==
    /\ th[c].pc = "chunk"
    /\ retryable => th[c].attempts + 1 = MaxAttempts
    /\ retryState' = [job |-> th[c].job, index |-> th[c].index,
                      request |-> IF retryable /\ (th[c].resume \/ Resumable(c))
                                  THEN th[c].request ELSE NoRequest]
    /\ retryOn' = (retryOn \/ retryable)
    /\ Leave(c)
    /\ UNCHANGED <<gate, jobs, cancel, published, links, history>>

\* Where the worker goes for the job's next recording: on in _upload_worker's loop,
\* or, when it was a resumed session that ended, into _upload_worker from its top.
AfterLink(c) == IF th[c].resume THEN "auth" ELSE "prepare"

\* Mutant: the links are saved once, with the last recording of the job.
LinkSavesAtTheEnd(c) ==
    /\ th[c].pc = "link"
    /\ LET r == Head(th[c].todo)
           last == Tail(th[c].todo) = <<>>
           more == ~Job(c).stitch /\ th[c].index < Len(Job(c).items)
       IN  /\ store' = [store EXCEPT ![r] = Len(published)]
           /\ disk' = IF writable /\ last /\ ~more THEN store' ELSE disk
           /\ th' = [th EXCEPT
                       ![c].todo = Tail(@),
                       ![c].pc = IF ~last THEN "link" ELSE IF more THEN AfterLink(c) ELSE "done",
                       ![c].index = IF last /\ more THEN @ + 1 ELSE @]
    /\ UNCHANGED <<gate, jobs, cancel, retryState, retryOn, published, writable, history>>

\* _link: one recording of the video, remembered and saved under the store lock.
\* After the last one the job goes on with its next recording, or is done.
Link(c) ==
    /\ th[c].pc = "link"
    /\ LET r == Head(th[c].todo)
           last == Tail(th[c].todo) = <<>>
           more == ~Job(c).stitch /\ th[c].index < Len(Job(c).items)
       IN  /\ store' = [store EXCEPT ![r] = Len(published)]
           /\ disk' = IF writable THEN store' ELSE disk
           /\ th' = [th EXCEPT
                       ![c].todo = Tail(@),
                       ![c].pc = IF ~last THEN "link" ELSE IF more THEN AfterLink(c) ELSE "done",
                       ![c].index = IF last /\ more THEN @ + 1 ELSE @]
    /\ UNCHANGED <<gate, jobs, cancel, retryState, retryOn, published, writable, history>>

\* _upload_done, then the combat logs, whose failure is only reported.
UploadDone(c) ==
    /\ th[c].pc = "done"
    /\ retryState' = NoRetry
    /\ retryOn' = FALSE
    /\ Leave(c)
    /\ UNCHANGED <<gate, jobs, cancel, published, links, history>>

\* The finally clause of _run_claimed_upload.
Release(c) ==
    /\ th[c].pc = "release"
    /\ ReleaseUpload
    /\ th' = [th EXCEPT ![c] = Idle]
    /\ UNCHANGED <<jobs, cancel, retryState, retryOn, published, links, history>>

-----------------------------------------------------------------------------
(* Everything else: the updater at the gate, and the death of the process. *)

HandoffTaken ==
    /\ handoff = NoPhase
    /\ \E phase \in Phases : ClaimHandoff(phase)
    /\ UNCHANGED <<jobs, th, cancel, retryState, retryOn, published, links, history>>

HandoffGivenBack ==
    /\ handoff # NoPhase
    /\ ReleaseHandoff
    /\ UNCHANGED <<jobs, th, cancel, retryState, retryOn, published, links, history>>

\* Only the channel and the links file outlive the process.
Crash ==
    /\ crashes < MaxCrashes
    /\ crashes' = crashes + 1
    /\ upload' = FALSE /\ handoff' = NoPhase /\ quitting' = FALSE
    /\ th' = [c \in Calls |-> Idle]
    /\ cancel' = FALSE
    /\ retryState' = NoRetry
    /\ retryOn' = FALSE
    /\ store' = disk
    /\ UNCHANGED <<jobs, published, disk, writable, runs, clickRun>>

-----------------------------------------------------------------------------
\* What the worker does on its own once the user has confirmed.
Transfer(c) ==
    \/ Credentials(c) \/ Prepare(c) \/ Poll(c)
    \/ ChunkSent(c) \/ LastChunkSent(c) \/ ChunkRetried(c)
    \/ \E retryable \in BOOLEAN : UploadFailed(c, retryable)
    \/ Link(c) \/ UploadDone(c) \/ Release(c)

Next ==
    \/ \E c \in Calls :
        \/ \E shape \in JobShapes : StartUpload(c, shape)
        \/ RetryClicked(c) \/ ClaimGranted(c) \/ ClaimRefused(c) \/ Dispatch(c)
        \/ Confirm(c) \/ Consent(c) \/ Transfer(c)
    \/ CancelUpload
    \/ HandoffTaken \/ HandoffGivenBack
    \/ Crash

Spec == Init /\ [][Next]_vars

\* The worker thread runs.  The user need not click, nor answer the confirm, nor
\* give the browser's consent.
Fairness == \A c \in Calls : WF_vars(Dispatch(c)) /\ WF_vars(Transfer(c))

LiveSpec == Spec /\ Fairness

-----------------------------------------------------------------------------
(* Properties. *)

\* A video is on file for each of its recordings, unless a newer one is.
OnFile(v) ==
    \A k \in DOMAIN published[v].items : disk[published[v].items[k]] >= v

\* Whatever is on the channel is in the links file: each crash may cost the
\* one video that was being linked, and no more.
LinksSurviveCrash ==
    writable =>
        Cardinality({v \in DOMAIN published : ~OnFile(v)})
            <= crashes + Cardinality({c \in Calls : th[c].pc = "link"})

\* A stop answered by an earlier job, or clicked while nothing ran, never ends
\* the job that was started after it.
StopEndsItsOwnJob ==
    [][\A c \in Calls : th[c].pc = "poll" /\ th'[c].pc = "release" => clickRun = runs]_vars

\* Nothing reaches the channel that the user has not confirmed.
PublishedWasConfirmed ==
    \A v \in DOMAIN published : jobs[published[v].job].confirmed

\* A kept session is one that can be resumed: the merged file of a stitched job
\* is gone by then.
KeptSessionHasItsFile ==
    retryState.request # NoRequest => ~jobs[retryState.job].stitch

\* A job in transfer always ends and gives the gate back, or it stops at the one
\* place where nothing the program does moves it on: the wait for the user's consent
\* in the browser, with the gate held.
TransferEnds ==
    \A c \in Calls :
        (th[c].pc \in ClaimedPcs \ {"dispatch", "confirm"})
            ~> (~Claimed(c) \/ th[c].pc = "consent")

\* Retry resumes rather than restarts: no recording of one plain job is
\* published twice (RetryState's docstring, upload/controller.py:201).
ResumesRatherThanRestarts ==
    \A v, w \in DOMAIN published :
        v # w /\ published[v].job = published[w].job /\ ~published[v].stitch
            => published[v].items # published[w].items
=============================================================================
