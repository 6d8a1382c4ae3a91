---------------------- MODULE UploadJobs_proofs ----------------------
(***************************************************************************)
(* The upload job's safety, for any number of calls, jobs, retries, chunks *)
(* and crashes.                                                            *)
(*                                                                         *)
(* At most one worker holds the gate (GateInv).  On that rest what it may  *)
(* assume about the stop flag (StopInv), about the user's confirm          *)
(* (SoundInv) and about the video it is linking (LinkInv), and the count   *)
(* of the videos that crashes have cost (LossInv).                         *)
(***************************************************************************)
EXTENDS UploadJobs, SequenceTheorems, FiniteSetTheorems, TLAPS

(* The types of the variables, each under a name of its own *)

Jobs == [items : Seq(Recordings), stitch : BOOLEAN, confirmed : BOOLEAN]
Thread == [pc : Pcs, job : Nat, index : Nat, request : 0..Chunks, resume : BOOLEAN,
           attempts : 0..MaxAttempts-1, todo : Seq(Recordings)]
Session == [job : Nat, index : Nat, request : 0..Chunks]
Video == [job : Nat, items : Seq(Recordings), stitch : BOOLEAN]
Table == [Recordings -> Nat]

Typed ==
    /\ GateTypeOK
    /\ jobs \in Seq(Jobs) /\ th \in [Calls -> Thread]
    /\ cancel \in BOOLEAN /\ retryState \in Session /\ retryOn \in BOOLEAN
    /\ published \in Seq(Video)
    /\ store \in Table /\ disk \in Table /\ writable \in BOOLEAN
    /\ runs \in Nat /\ clickRun \in Nat /\ crashes \in Nat

\* Every call that is under way has a job, every worker past the prepare has its
\* place in it, and so does a session that is kept or resumed.
Places == {"claimStart", "dispatch", "confirm", "auth", "consent", "prepare", "poll", "chunk",
           "link"}
Placed(c) ==
    /\ th[c].pc = "idle" => ~th[c].resume /\ th[c].job = NoJob
    /\ th[c].pc # "idle" => th[c].job \in DOMAIN jobs
    /\ th[c].pc \in Places \/ th[c].resume =>
          th[c].index \in DOMAIN jobs[th[c].job].items
KeptPlaced ==
    /\ retryState # NoRetry => retryState.job \in DOMAIN jobs
    /\ retryState.request # NoRequest =>
          retryState.index \in DOMAIN jobs[retryState.job].items
JobInv ==
    /\ \A j \in DOMAIN jobs : jobs[j].items # <<>>
    /\ \A c \in Calls : Placed(c)
    /\ KeptPlaced

\* The gate has one work tenant at most, and knows when there is one.
GateInv ==
    /\ \A c \in Calls : Claimed(c) => upload
    /\ \A c, d \in Calls : Claimed(c) /\ Claimed(d) => c = d

\* A job that is past its confirm, or that can be retried, was confirmed; no session
\* of a stitched job is resumed, and none is kept.
PastConfirm == {"claimRetry", "redispatch", "auth", "consent", "prepare", "poll", "chunk", "link",
                "done"}
Sound(c) ==
    /\ th[c].pc \in PastConfirm => jobs[th[c].job].confirmed
    /\ th[c].resume => ~jobs[th[c].job].stitch
KeptSound ==
    /\ retryState # NoRetry => jobs[retryState.job].confirmed
    /\ KeptSessionHasItsFile
PublishedSound ==
    /\ \A v \in DOMAIN published : published[v].job \in DOMAIN jobs
    /\ PublishedWasConfirmed
SoundInv == (\A c \in Calls : Sound(c)) /\ KeptSound /\ PublishedSound

\* A stop flag that a worker may see was raised since its claim.
Stopped(c) ==
    Claimed(c) /\ th[c].pc \notin {"dispatch", "redispatch"} /\ cancel => clickRun = runs
StopInv == clickRun <= runs /\ \A c \in Calls : Stopped(c)

\* While a video is being linked, each of its recordings is on file or still to do.
Filing(c) ==
    th[c].pc = "link" =>
        /\ published # <<>> /\ th[c].todo # <<>>
        /\ writable =>
              \A k \in DOMAIN published[Len(published)].items :
                  LET r == published[Len(published)].items[k] IN
                  disk[r] = Len(published) \/ \E i \in DOMAIN th[c].todo : th[c].todo[i] = r
LinkInv ==
    /\ store \in [Recordings -> 0 .. Len(published)]
    /\ disk \in [Recordings -> 0 .. Len(published)]
    /\ writable => store = disk
    /\ \A c \in Calls : Filing(c)

\* Besides the video that is being linked now, each crash has cost one at most.
Missing == {v \in DOMAIN published : ~OnFile(v)}
Linking == IF \E c \in Calls : th[c].pc = "link" THEN {Len(published)} ELSE {}
LossInv == writable => Cardinality(Missing \ Linking) <= crashes

IInv ==
    /\ Typed /\ JobInv /\ GateInv /\ SoundInv /\ StopInv
    /\ LinkInv /\ LossInv

-----------------------------------------------------------------------------
(* Types *)

\* The two steps that stand between a confirmed job and its transfer.
SignIn(c) == Credentials(c) \/ Consent(c)

\* The next-state relation, one case per action: what every proof below goes by.
LEMMA Cases ==
    ASSUME [Next]_vars, NEW P,
           UNCHANGED vars => P,
           \A c \in Calls :
              /\ \A shape \in JobShapes : StartUpload(c, shape) => P
              /\ RetryClicked(c) \/ ClaimGranted(c) \/ ClaimRefused(c) => P
              /\ Dispatch(c) \/ Confirm(c) => P
              /\ SignIn(c) \/ Prepare(c) \/ Poll(c) => P
              /\ ChunkSent(c) \/ LastChunkSent(c) \/ ChunkRetried(c) => P
              /\ \A retryable \in BOOLEAN : UploadFailed(c, retryable) => P
              /\ Link(c) \/ UploadDone(c) \/ Release(c) => P,
           CancelUpload \/ HandoffTaken \/ HandoffGivenBack \/ Crash => P
    PROVE  P
  BY Zenon DEF Next, Transfer, SignIn

\* What appending to a list of videos leaves.
LEMMA Appended ==
    ASSUME NEW s \in Seq(Video), NEW v \in Video
    PROVE  /\ Len(s) \in Nat /\ DOMAIN s = 1..Len(s)
           /\ Len(Append(s, v)) = Len(s) + 1 /\ Append(s, v)[Len(s) + 1] = v
           /\ DOMAIN Append(s, v) = DOMAIN s \cup {Len(s) + 1}
           /\ \A w \in DOMAIN s : Append(s, v)[w] = s[w]
<1>1. Len(s) \in Nat /\ DOMAIN s = 1..Len(s)
  OBVIOUS
<1>2. Append(s, v) \in Seq(Video) /\ Len(Append(s, v)) = Len(s) + 1
      /\ Append(s, v)[Len(s) + 1] = v /\ \A w \in 1..Len(s) : Append(s, v)[w] = s[w]
  BY <1>1
<1>3. DOMAIN Append(s, v) = 1..(Len(s) + 1)
  BY <1>2
<1>4. 1..(Len(s) + 1) = 1..Len(s) \cup {Len(s) + 1}
  BY <1>1
<1>5. QED
  BY <1>1, <1>2, <1>3, <1>4, Zenon

\* The constant parts of a call are of the types its locals have.
LEMMA Constants ==
    /\ Idle \in Thread /\ NoRetry \in Session /\ Idle.pc = "idle" /\ ~Idle.resume
    /\ Idle.job = NoJob
    /\ 0 \in 0..MaxAttempts-1 /\ Chunks \in 0..Chunks /\ 0 \in 0..Chunks
<1>1. /\ 0 \in 0..MaxAttempts-1 /\ Chunks \in 0..Chunks /\ 0 \in 0..Chunks
      /\ "idle" \in Pcs /\ <<>> \in Seq(Recordings)
  BY BoundsAssumption DEF Pcs
<1>2. QED
  BY <1>1 DEF Idle, Thread, NoRetry, Session, NoJob, NoRequest

\* A step of one call leaves the others where they are.
Others(c) == th' \in [Calls -> Thread] /\ \A d \in Calls : d # c => th'[d] = th[d]

\* A step of a call that stores a record of the right type is one of those.
LEMMA Store ==
    ASSUME th \in [Calls -> Thread], NEW c \in Calls, NEW t \in Thread,
           th' = [th EXCEPT ![c] = t]
    PROVE  Others(c) /\ th'[c] = t
  BY DEF Others

\* The pc and the job are all that leaving _run_claimed_upload keeps.
LEMMA LeaveEffect ==
    ASSUME th \in [Calls -> Thread], NEW c \in Calls, Leave(c)
    PROVE  /\ Others(c)
           /\ th'[c].pc = "release" /\ th'[c].job = th[c].job /\ ~th'[c].resume
<1> DEFINE t == [Idle EXCEPT !.pc = "release", !.job = th[c].job]
<1>1. th[c].job \in Nat /\ "release" \in Pcs
  BY DEF Thread, Pcs, ClaimedPcs
<1>2. t \in Thread /\ t.pc = "release" /\ t.job = th[c].job /\ ~t.resume
  BY <1>1, Constants DEF Thread, Idle
<1>3. QED
  BY <1>2, Store, Zenon DEF Leave

\* A call that moves on to another pc, with the rest of its locals as they were.
LEMMA MoveEffect ==
    ASSUME th \in [Calls -> Thread], NEW c \in Calls, NEW p \in Pcs,
           th' = [th EXCEPT ![c].pc = p]
    PROVE  /\ Others(c) /\ th'[c].pc = p /\ th'[c].job = th[c].job
           /\ th'[c].index = th[c].index /\ th'[c].resume = th[c].resume
           /\ th'[c].todo = th[c].todo
<1> DEFINE t == [th[c] EXCEPT !.pc = p]
<1>1. t \in Thread
  BY DEF Thread
<1>2. th' = [th EXCEPT ![c] = t]
  OBVIOUS
<1>3. Others(c) /\ th'[c] = t
  BY <1>1, <1>2, Store, Zenon
<1>4. QED
  BY <1>3 DEF Thread

\* A new job waits at the gate.
LEMMA StartUploadEffect ==
    ASSUME Typed, NEW c \in Calls, NEW shape \in JobShapes, StartUpload(c, shape)
    PROVE  /\ Others(c) /\ th'[c].pc = "claimStart" /\ th'[c].job = Len(jobs) + 1
           /\ th'[c].index = 1 /\ th'[c].resume = th[c].resume
<1> DEFINE t == [th[c] EXCEPT !.pc = "claimStart", !.job = Len(jobs) + 1, !.index = 1]
<1>1. Len(jobs) + 1 \in Nat /\ th \in [Calls -> Thread] /\ "claimStart" \in Pcs
  BY DEF Typed, Pcs
<1>2. th' = [th EXCEPT ![c] = t] /\ t \in Thread
  BY <1>1 DEF StartUpload, Thread
<1>3. Others(c) /\ th'[c] = t
  BY <1>1, <1>2, Store, Zenon
<1>4. QED
  BY <1>1, <1>3 DEF Thread

\* A Retry takes over what was kept.
LEMMA RetryClickedEffect ==
    ASSUME Typed, NEW c \in Calls, RetryClicked(c)
    PROVE  /\ Others(c) /\ th'[c].pc = "claimRetry" /\ th'[c].job = retryState.job
           /\ th'[c].index = retryState.index
           /\ th'[c].resume = (retryState.request # NoRequest)
<1> DEFINE t == [th[c] EXCEPT !.pc = "claimRetry", !.job = retryState.job,
                              !.index = retryState.index, !.request = retryState.request,
                              !.resume = retryState.request # NoRequest]
<1>1. /\ retryState.job \in Nat /\ retryState.index \in Nat /\ retryState.request \in 0..Chunks
      /\ th \in [Calls -> Thread] /\ "claimRetry" \in Pcs
  BY DEF Typed, Session, Pcs
<1>2. th' = [th EXCEPT ![c] = t] /\ t \in Thread
  BY <1>1 DEF RetryClicked, Thread
<1>3. Others(c) /\ th'[c] = t
  BY <1>1, <1>2, Store, Zenon
<1>4. QED
  BY <1>1, <1>3 DEF Thread

\* A granted claim only moves the call on.
LEMMA ClaimGrantedEffect ==
    ASSUME Typed, NEW c \in Calls, ClaimGranted(c)
    PROVE  /\ Others(c)
           /\ th'[c].pc = IF th[c].pc = "claimStart" THEN "dispatch" ELSE "redispatch"
           /\ th'[c].job = th[c].job /\ th'[c].index = th[c].index
           /\ th'[c].resume = th[c].resume
<1> DEFINE p == IF th[c].pc = "claimStart" THEN "dispatch" ELSE "redispatch"
<1>1. th \in [Calls -> Thread] /\ p \in Pcs /\ th' = [th EXCEPT ![c].pc = p]
  BY DEF Typed, Pcs, ClaimedPcs, ClaimGranted
<1>2. QED
  BY <1>1, MoveEffect, Zenon

\* A refused call is over.
LEMMA ClaimRefusedEffect ==
    ASSUME Typed, NEW c \in Calls, ClaimRefused(c)
    PROVE  Others(c) /\ th'[c] = Idle
  BY Store, Constants, Zenon DEF Typed, ClaimRefused

\* A dispatched worker confirms, begins the job or resumes its session; without a
\* thread it leaves.
LEMMA DispatchEffect ==
    ASSUME Typed, NEW c \in Calls, Dispatch(c)
    PROVE  /\ Others(c) /\ th'[c].job = th[c].job
           /\ \/ th'[c].pc = "release" /\ ~th'[c].resume
              \/ /\ th[c].pc = "dispatch" /\ th'[c].pc = "confirm"
                 /\ th'[c].resume = th[c].resume /\ th'[c].index = th[c].index
              \/ /\ th[c].pc = "redispatch" /\ th[c].resume /\ th'[c].pc = "poll"
                 /\ th'[c].resume /\ th'[c].index = th[c].index
              \/ /\ th[c].pc = "redispatch" /\ ~th[c].resume /\ th'[c].pc = "auth"
                 /\ ~th'[c].resume /\ th'[c].index = 1
<1>0. th \in [Calls -> Thread] /\ {"confirm", "poll", "auth"} \subseteq Pcs
  BY DEF Typed, Pcs, ClaimedPcs
<1>1. CASE Leave(c)
  BY <1>0, <1>1, LeaveEffect, Zenon
<1>2. CASE th[c].pc = "dispatch" /\ th' = [th EXCEPT ![c].pc = "confirm"]
  BY <1>0, <1>2, MoveEffect
<1> DEFINE t == [th[c] EXCEPT !.pc = IF th[c].resume THEN "poll" ELSE "auth",
                              !.index = IF th[c].resume THEN th[c].index ELSE 1]
<1>3. CASE th[c].pc = "redispatch" /\ th' = [th EXCEPT ![c] = t]
  <2>1. t \in Thread
    BY <1>0 DEF Thread
  <2>2. Others(c) /\ th'[c] = t
    BY <1>0, <1>3, <2>1, Store, Zenon
  <2>3. QED
    BY <1>0, <1>3, <2>2 DEF Thread
<1>4. QED
  BY <1>1, <1>2, <1>3 DEF Dispatch

\* The answer to the confirm: go on, or leave.
LEMMA ConfirmEffect ==
    ASSUME Typed, NEW c \in Calls, Confirm(c)
    PROVE  /\ Others(c) /\ th'[c].job = th[c].job
           /\ \/ th'[c].pc = "release" /\ ~th'[c].resume /\ UNCHANGED jobs
              \/ /\ th'[c].pc = "auth" /\ th'[c].resume = th[c].resume
                 /\ th'[c].index = th[c].index
                 /\ jobs' = [jobs EXCEPT ![th[c].job].confirmed = TRUE]
<1>1. th \in [Calls -> Thread] /\ "auth" \in Pcs
  BY DEF Typed, Pcs, ClaimedPcs
<1>2. QED
  BY <1>1, MoveEffect, LeaveEffect DEF Confirm

\* The credentials are there or are asked for, or the job is over.
LEMMA SignInEffect ==
    ASSUME Typed, NEW c \in Calls, SignIn(c)
    PROVE  /\ Others(c) /\ th'[c].job = th[c].job /\ th[c].pc \in {"auth", "consent"}
           /\ \/ th'[c].pc = "release" /\ ~th'[c].resume /\ retryState' = NoRetry
              \/ /\ th'[c].pc \in {"prepare", "consent"} /\ th'[c].index = th[c].index
                 /\ th'[c].resume = th[c].resume /\ UNCHANGED retryState
<1>1. th \in [Calls -> Thread] /\ {"prepare", "consent"} \subseteq Pcs
  BY DEF Typed, Pcs, ClaimedPcs
<1>2. QED
  BY <1>1, MoveEffect, LeaveEffect DEF SignIn, Credentials, Consent

\* A session is begun, or the job is over.
LEMMA PrepareEffect ==
    ASSUME Typed, NEW c \in Calls, Prepare(c)
    PROVE  /\ Others(c) /\ th'[c].job = th[c].job /\ ~th'[c].resume
           /\ \/ th'[c].pc = "release" /\ retryState' = NoRetry
              \/ th'[c].pc = "poll" /\ th'[c].index = th[c].index /\ UNCHANGED retryState
<1> DEFINE t == [th[c] EXCEPT !.pc = "poll", !.request = Chunks, !.attempts = 0,
                              !.resume = FALSE]
<1>1. th \in [Calls -> Thread] /\ "poll" \in Pcs
  BY DEF Typed, Pcs, ClaimedPcs
<1>2. CASE Leave(c) /\ retryState' = NoRetry
  BY <1>1, <1>2, LeaveEffect
<1>3. CASE th' = [th EXCEPT ![c] = t] /\ UNCHANGED retryState
  <2>1. t \in Thread
    BY <1>1, Constants DEF Thread
  <2>2. Others(c) /\ th'[c] = t
    BY <1>1, <1>3, <2>1, Store, Zenon
  <2>3. QED
    BY <1>1, <1>3, <2>2 DEF Thread
<1>4. QED
  BY <1>2, <1>3 DEF Prepare

\* The top of the loop: a stop ends the job, otherwise the next chunk is sent.
LEMMA PollEffect ==
    ASSUME Typed, NEW c \in Calls, Poll(c)
    PROVE  /\ Others(c) /\ th'[c].job = th[c].job
           /\ \/ cancel /\ th'[c].pc = "release" /\ ~th'[c].resume /\ retryState' = NoRetry
              \/ /\ th'[c].pc = "chunk" /\ th'[c].resume = th[c].resume
                 /\ th'[c].index = th[c].index /\ UNCHANGED retryState
<1>1. th \in [Calls -> Thread] /\ "chunk" \in Pcs
  BY DEF Typed, Pcs, ClaimedPcs
<1>2. QED
  BY <1>1, MoveEffect, LeaveEffect DEF Poll

\* A chunk that was sent, or that will be tried again: back to the top of the loop.
LEMMA ChunkEffect ==
    ASSUME Typed, NEW c \in Calls, ChunkSent(c) \/ ChunkRetried(c)
    PROVE  /\ Others(c) /\ th'[c].pc = "poll" /\ th'[c].job = th[c].job
           /\ th'[c].resume = th[c].resume /\ th'[c].index = th[c].index
<1>1. th \in [Calls -> Thread] /\ "poll" \in Pcs
  BY DEF Typed, Pcs, ClaimedPcs
<1>2. CASE ChunkSent(c)
  <2> DEFINE t == [th[c] EXCEPT !.pc = "poll", !.request = th[c].request - 1, !.attempts = 0]
  <2>1. th[c].request - 1 \in 0..Chunks
    BY <1>1, <1>2, BoundsAssumption DEF ChunkSent, Thread
  <2>2. t \in Thread
    BY <1>1, <2>1, Constants DEF Thread
  <2>3. th' = [th EXCEPT ![c] = t]
    BY <1>1, <1>2 DEF ChunkSent
  <2>4. Others(c) /\ th'[c] = t
    BY <1>1, <2>2, <2>3, Store, Zenon
  <2>5. QED
    BY <1>1, <2>4 DEF Thread
<1>3. CASE ChunkRetried(c)
  <2> DEFINE t == [th[c] EXCEPT !.pc = "poll", !.attempts = th[c].attempts + 1]
  <2>1. th[c].attempts + 1 \in 0..MaxAttempts-1
    BY <1>1, <1>3, BoundsAssumption DEF ChunkRetried, Thread
  <2>2. t \in Thread
    BY <1>1, <2>1 DEF Thread
  <2>3. th' = [th EXCEPT ![c] = t]
    BY <1>1, <1>3 DEF ChunkRetried
  <2>4. Others(c) /\ th'[c] = t
    BY <1>1, <2>2, <2>3, Store, Zenon
  <2>5. QED
    BY <1>1, <2>4 DEF Thread
<1>4. QED
  BY <1>2, <1>3

\* What a video is made of: recordings of its job, one at least.
LEMMA SourcesFacts ==
    ASSUME Typed, JobInv, NEW c \in Calls, th[c].pc = "chunk"
    PROVE  /\ Sources(c) \in Seq(Recordings) /\ Sources(c) # <<>>
           /\ th[c].job \in DOMAIN jobs /\ th[c].job \in Nat
           /\ Job(c).stitch \in BOOLEAN
<1>1. th[c].job \in DOMAIN jobs /\ th[c].index \in DOMAIN Job(c).items
  BY DEF JobInv, Placed, Places, Job
<1>2. /\ Job(c) \in Jobs /\ th[c].job \in Nat
  BY <1>1 DEF Typed, Job, Thread
<1>3. Job(c).items \in Seq(Recordings) /\ Job(c).items # <<>> /\ Job(c).stitch \in BOOLEAN
  BY <1>1, <1>2 DEF Jobs, JobInv, Job
<1>4. Job(c).items[th[c].index] \in Recordings
  BY <1>1, <1>3
<1>5. QED
  BY <1>1, <1>2, <1>3, <1>4 DEF Sources

\* The last chunk publishes the video, and every one of its recordings is to do.
LEMMA LastChunkEffect ==
    ASSUME Typed, JobInv, NEW c \in Calls, LastChunkSent(c)
    PROVE  /\ Others(c) /\ th'[c].pc = "link" /\ th'[c].job = th[c].job
           /\ th'[c].resume = th[c].resume /\ th'[c].index = th[c].index
           /\ th'[c].todo = Sources(c)
           /\ Sources(c) \in Seq(Recordings) /\ Sources(c) # <<>>
           /\ [job |-> th[c].job, items |-> Sources(c), stitch |-> Job(c).stitch] \in Video
<1> DEFINE t == [th[c] EXCEPT !.pc = "link", !.todo = Sources(c)]
<1>1. th \in [Calls -> Thread] /\ "link" \in Pcs /\ th[c].pc = "chunk"
  BY DEF Typed, Pcs, ClaimedPcs, LastChunkSent
<1>2. /\ Sources(c) \in Seq(Recordings) /\ Sources(c) # <<>>
      /\ th[c].job \in Nat /\ Job(c).stitch \in BOOLEAN
  BY <1>1, SourcesFacts
<1>3. t \in Thread
  BY <1>1, <1>2 DEF Thread
<1>4. th' = [th EXCEPT ![c] = t]
  BY <1>1 DEF LastChunkSent
<1>5. Others(c) /\ th'[c] = t
  BY <1>1, <1>3, <1>4, Store, Zenon
<1>6. QED
  BY <1>1, <1>2, <1>5 DEF Thread, Video

\* A failed job leaves; what it keeps is its own job and place.
LEMMA UploadFailedEffect ==
    ASSUME Typed, NEW c \in Calls, NEW retryable \in BOOLEAN, UploadFailed(c, retryable)
    PROVE  /\ Others(c) /\ th'[c].pc = "release" /\ th'[c].job = th[c].job
           /\ ~th'[c].resume
           /\ retryState' \in Session
           /\ retryState'.job = th[c].job /\ retryState'.index = th[c].index
           /\ retryState'.request # NoRequest => th[c].resume \/ Resumable(c)
<1>1. th \in [Calls -> Thread] /\ Leave(c)
  BY DEF Typed, UploadFailed
<1>2. /\ th[c].job \in Nat /\ th[c].index \in Nat /\ th[c].request \in 0..Chunks
      /\ NoRequest \in 0..Chunks
  BY <1>1, Constants DEF Thread, NoRequest
<1>3. QED
  BY <1>1, <1>2, LeaveEffect DEF UploadFailed, Session

\* One recording is linked: the next one, or on with the job, or done.
LEMMA LinkEffect ==
    ASSUME Typed, JobInv, LinkInv, NEW c \in Calls, Link(c)
    PROVE  /\ Others(c) /\ th'[c].job = th[c].job /\ th'[c].resume = th[c].resume
           /\ th[c].todo \in Seq(Recordings) /\ th[c].todo # <<>>
           /\ Head(th[c].todo) \in Recordings
           /\ \/ /\ th'[c].pc = "link" /\ th'[c].todo = Tail(th[c].todo)
                 /\ Tail(th[c].todo) # <<>> /\ th'[c].index = th[c].index
              \/ /\ th'[c].pc \in {"auth", "prepare"} /\ th'[c].index = th[c].index + 1
                 /\ Tail(th[c].todo) = <<>> /\ th[c].index < Len(Job(c).items)
              \/ /\ th'[c].pc = "done" /\ th'[c].index = th[c].index
                 /\ Tail(th[c].todo) = <<>>
<1> DEFINE last == Tail(th[c].todo) = <<>>
           more == ~Job(c).stitch /\ th[c].index < Len(Job(c).items)
           p == IF ~last THEN "link" ELSE IF more THEN AfterLink(c) ELSE "done"
           i == IF last /\ more THEN th[c].index + 1 ELSE th[c].index
           t == [th[c] EXCEPT !.todo = Tail(th[c].todo), !.pc = p, !.index = i]
<1>1. th \in [Calls -> Thread] /\ p \in Pcs /\ th[c].pc = "link"
  BY DEF Typed, Pcs, ClaimedPcs, Link, AfterLink
<1>2. th[c].todo \in Seq(Recordings) /\ th[c].todo # <<>> /\ th[c].index \in Nat
  BY <1>1 DEF Thread, LinkInv, Filing
<1>3. Tail(th[c].todo) \in Seq(Recordings) /\ i \in Nat /\ Head(th[c].todo) \in Recordings
  BY <1>2
<1>4. t \in Thread
  BY <1>1, <1>3 DEF Thread
<1>5. th' = [th EXCEPT ![c] = t]
  BY <1>1 DEF Link
<1>6. Others(c) /\ th'[c] = t
  BY <1>1, <1>4, <1>5, Store, Zenon
<1>7. th'[c].pc = p /\ th'[c].index = i /\ th'[c].todo = Tail(th[c].todo)
      /\ th'[c].job = th[c].job /\ th'[c].resume = th[c].resume
  BY <1>1, <1>6 DEF Thread
<1>8. QED
  BY <1>2, <1>3, <1>6, <1>7 DEF AfterLink

\* A job that is done leaves.
LEMMA UploadDoneEffect ==
    ASSUME Typed, NEW c \in Calls, UploadDone(c)
    PROVE  Others(c) /\ th'[c].pc = "release" /\ th'[c].job = th[c].job /\ ~th'[c].resume
  BY LeaveEffect, Zenon DEF Typed, UploadDone

\* A worker that gives the gate back is idle again.
LEMMA ReleaseEffect ==
    ASSUME Typed, NEW c \in Calls, Release(c)
    PROVE  Others(c) /\ th'[c] = Idle
  BY Store, Constants, Zenon DEF Typed, Release

\* Every step keeps the types.
LEMMA TypedStep ==
    ASSUME Typed, JobInv, LinkInv, [Next]_vars
    PROVE  Typed'
<1>1. ASSUME NEW c \in Calls, NEW shape \in JobShapes, StartUpload(c, shape) PROVE Typed'
  <2>1. shape.items \in Seq(Recordings) /\ shape.stitch \in BOOLEAN
    BY <1>1, ShapesAssumption
  <2>2. jobs' \in Seq(Jobs)
    BY <1>1, <2>1 DEF StartUpload, Jobs, Typed
  <2>3. QED
    BY <1>1, <2>2, StartUploadEffect
       DEF StartUpload, Others, Typed, GateTypeOK, gate, links, history
<1>2. ASSUME NEW c \in Calls, RetryClicked(c) PROVE Typed'
  BY <1>2, RetryClickedEffect
     DEF RetryClicked, Others, Typed, GateTypeOK, gate, links, history
<1>3. ASSUME NEW c \in Calls, ClaimGranted(c) PROVE Typed'
  <2>1. retryOn' \in BOOLEAN
    BY <1>3 DEF ClaimGranted
  <2>2. runs' \in Nat
    BY <1>3 DEF ClaimGranted, Typed
  <2>3. GateTypeOK'
    BY <1>3 DEF ClaimGranted, ClaimUpload, Typed, GateTypeOK
  <2>4. QED
    BY <1>3, <2>1, <2>2, <2>3, ClaimGrantedEffect DEF ClaimGranted, Others, Typed, links
<1>4. ASSUME NEW c \in Calls, ClaimRefused(c) PROVE Typed'
  BY <1>4, ClaimRefusedEffect
     DEF ClaimRefused, Others, Typed, GateTypeOK, gate, links, history
<1>5. ASSUME NEW c \in Calls, Dispatch(c) PROVE Typed'
  BY <1>5, DispatchEffect
     DEF Dispatch, Others, Typed, GateTypeOK, gate, links, history
<1>6. ASSUME NEW c \in Calls, Confirm(c) PROVE Typed'
  <2>0. th[c].job \in DOMAIN jobs
    BY <1>6 DEF Confirm, JobInv, Placed, Places
  <2>1. jobs' \in Seq(Jobs)
    <3>1. jobs \in Seq(Jobs) /\ th[c].job \in 1..Len(jobs)
      BY <2>0 DEF Typed
    <3>2. jobs[th[c].job] \in Jobs
      BY <3>1
    <3>3. [jobs[th[c].job] EXCEPT !.confirmed = TRUE] \in Jobs
      BY <3>2 DEF Jobs
    <3>4. [jobs EXCEPT ![th[c].job] = [jobs[th[c].job] EXCEPT !.confirmed = TRUE]] \in Seq(Jobs)
      BY <3>1, <3>3, ExceptSeq
    <3>5. QED
      BY <1>6, <3>1, <3>4, ConfirmEffect
  <2>2. QED
    BY <1>6, <2>1, ConfirmEffect DEF Confirm, Others, Typed, GateTypeOK, gate, links, history
<1>7a. ASSUME NEW c \in Calls, SignIn(c) PROVE Typed'
  BY <1>7a, SignInEffect, Constants
     DEF SignIn, Credentials, Consent, Others, Typed, GateTypeOK, gate, links, history
<1>7. ASSUME NEW c \in Calls, Prepare(c) PROVE Typed'
  BY <1>7, PrepareEffect, Constants
     DEF Prepare, Others, Typed, GateTypeOK, gate, links, history
<1>8. ASSUME NEW c \in Calls, Poll(c) PROVE Typed'
  BY <1>8, PollEffect, Constants
     DEF Poll, Others, Typed, GateTypeOK, gate, links, history
<1>9. ASSUME NEW c \in Calls, ChunkSent(c) \/ ChunkRetried(c) PROVE Typed'
  BY <1>9, ChunkEffect
     DEF ChunkSent, ChunkRetried, Others, Typed, GateTypeOK, gate, links, history
<1>10. ASSUME NEW c \in Calls, LastChunkSent(c) PROVE Typed'
  <2>0. published \in Seq(Video)
    BY DEF Typed
  <2> DEFINE v == [job |-> th[c].job, items |-> Sources(c), stitch |-> Job(c).stitch]
  <2>1. v \in Video
    BY <1>10, LastChunkEffect
  <2> HIDE DEF v
  <2>3. published' = Append(published, v)
    BY <1>10 DEF LastChunkSent, v
  <2>4. published' \in Seq(Video)
    BY <2>0, <2>1, <2>3
  <2>2. QED
    BY <1>10, <2>4, LastChunkEffect
       DEF LastChunkSent, Others, Typed, GateTypeOK, gate, links, history
<1>11. ASSUME NEW c \in Calls, NEW retryable \in BOOLEAN, UploadFailed(c, retryable) PROVE Typed'
  BY <1>11, UploadFailedEffect
     DEF UploadFailed, Others, Typed, GateTypeOK, gate, links, history
<1>12. ASSUME NEW c \in Calls, Link(c) PROVE Typed'
  <2>1. Len(published) \in Nat
    BY DEF Typed
  <2>2. store' \in Table /\ disk' \in Table
    BY <1>12, <2>1, LinkEffect DEF Link, Typed, Table
  <2>3. QED
    BY <1>12, <2>2, LinkEffect DEF Link, Others, Typed, GateTypeOK, gate, history
<1>13. ASSUME NEW c \in Calls, UploadDone(c) PROVE Typed'
  BY <1>13, UploadDoneEffect, Constants
     DEF UploadDone, Others, Typed, GateTypeOK, gate, links, history
<1>14. ASSUME NEW c \in Calls, Release(c) PROVE Typed'
  BY <1>14, ReleaseEffect
     DEF Release, Others, Typed, GateTypeOK, gate, links, history, ReleaseUpload
<1>15. CASE CancelUpload
  BY <1>15
     DEF CancelUpload, Others, Typed, GateTypeOK, gate, links, history
<1>16. CASE HandoffTaken
  BY <1>16
     DEF HandoffTaken, Others, Typed, GateTypeOK, gate, links, history, ClaimHandoff
<1>17. CASE HandoffGivenBack
  BY <1>17
     DEF HandoffGivenBack, Others, Typed, GateTypeOK, gate, links, history, ReleaseHandoff, NoPhase
<1>18. CASE Crash
  <2>1. th' \in [Calls -> Thread] /\ retryState' \in Session
    BY <1>18, Constants DEF Crash
  <2>2. crashes' \in Nat
    BY <1>18 DEF Crash, Typed
  <2>3. GateTypeOK'
    BY <1>18 DEF Crash, GateTypeOK
  <2>4. QED
    BY <1>18, <2>1, <2>2, <2>3, Zenon DEF Crash, Typed
<1>19. CASE UNCHANGED vars
  BY <1>19 DEF vars, gate, links, history, Others, Typed, GateTypeOK, gate, links, history
<1>20. QED
  BY <1>1, <1>2, <1>3, <1>4, <1>5, <1>6, <1>7a, <1>7, <1>8, <1>9, <1>10,
     <1>11, <1>12, <1>13, <1>14, <1>15, <1>16, <1>17, <1>18, <1>19, Cases

\* The jobs' fields are of their types, and job numbers are those of a sequence.
LEMMA JobFacts ==
    ASSUME Typed
    PROVE  /\ DOMAIN jobs = 1..Len(jobs) /\ Len(jobs) \in Nat
           /\ \A j \in DOMAIN jobs :
                 jobs[j].items \in Seq(Recordings) /\ jobs[j].stitch \in BOOLEAN
<1>1. jobs \in Seq(Jobs) /\ \A j \in DOMAIN jobs : jobs[j] \in Jobs
  BY DEF Typed
<1>2. QED
  BY <1>1 DEF Jobs

\* Jobs are never forgotten, and neither their recordings nor a confirm changes.
LEMMA JobsKept ==
    ASSUME Typed, JobInv, [Next]_vars
    PROVE  \A j \in DOMAIN jobs :
              /\ j \in DOMAIN jobs' /\ jobs'[j].items = jobs[j].items
              /\ jobs'[j].stitch = jobs[j].stitch
              /\ jobs[j].confirmed => jobs'[j].confirmed
<1> DEFINE P == \A j \in DOMAIN jobs :
                   /\ j \in DOMAIN jobs' /\ jobs'[j].items = jobs[j].items
                   /\ jobs'[j].stitch = jobs[j].stitch
                   /\ jobs[j].confirmed => jobs'[j].confirmed
<1>0. jobs \in Seq(Jobs) /\ \A j \in DOMAIN jobs : jobs[j] \in Jobs
  BY DEF Typed
<1>1. CASE UNCHANGED jobs
  BY <1>1
<1>2. ASSUME NEW c \in Calls, NEW shape \in JobShapes, StartUpload(c, shape) PROVE P
  BY <1>0, <1>2 DEF StartUpload
<1>3. ASSUME NEW c \in Calls, Confirm(c) PROVE P
  <2>1. CASE jobs' = [jobs EXCEPT ![th[c].job].confirmed = TRUE]
    BY <1>0, <2>1 DEF Jobs
  <2>2. QED
    BY <1>1, <1>3, <2>1 DEF Confirm
<1>4. \/ UNCHANGED jobs
      \/ \E c \in Calls : Confirm(c) \/ \E shape \in JobShapes : StartUpload(c, shape)
  BY DEF Next, Transfer, vars, RetryClicked, ClaimGranted, ClaimRefused, Dispatch, Credentials,
         Consent, Prepare, Poll,
         ChunkSent, LastChunkSent, ChunkRetried, UploadFailed, Link, UploadDone, Release,
         CancelUpload, HandoffTaken, HandoffGivenBack, Crash
<1>5. QED
  BY <1>1, <1>2, <1>3, <1>4

\* A place in a job outlasts every step of the others, and so does what is kept.
LEMMA PlaceKept ==
    ASSUME Typed, JobInv, [Next]_vars
    PROVE  /\ \A j \in DOMAIN jobs' : jobs'[j].items # <<>>
           /\ \A d \in Calls : th'[d] = th[d] => Placed(d)'
           /\ retryState' \in {retryState, NoRetry} => KeptPlaced'
<1>1. \A j \in DOMAIN jobs' : jobs'[j].items # <<>>
  <2>1. CASE DOMAIN jobs' = DOMAIN jobs
    BY <2>1, JobsKept DEF JobInv
  <2>2. ASSUME NEW c \in Calls, NEW shape \in JobShapes, StartUpload(c, shape)
        PROVE  \A j \in DOMAIN jobs' : jobs'[j].items # <<>>
    BY <2>2, ShapesAssumption DEF StartUpload, JobInv, Typed
  <2>3. \/ DOMAIN jobs' = DOMAIN jobs
        \/ \E c \in Calls : \E shape \in JobShapes : StartUpload(c, shape)
    BY DEF Next, Transfer, vars, RetryClicked, ClaimGranted, ClaimRefused, Dispatch, Credentials,
         Consent, Prepare, Poll,
           ChunkSent, LastChunkSent, ChunkRetried, UploadFailed, Link, UploadDone, Release,
           CancelUpload, HandoffTaken, HandoffGivenBack, Crash, Confirm
  <2>4. QED
    BY <2>1, <2>2, <2>3
<1>2. ASSUME NEW d \in Calls, th'[d] = th[d] PROVE Placed(d)'
  <2>1. CASE th[d].pc # "idle" \/ th[d].resume
    <3>1. Placed(d) /\ th[d].job \in DOMAIN jobs
      BY <2>1 DEF JobInv, Placed, Places
    <3>2. QED
      BY <1>2, <2>1, <3>1, JobsKept DEF JobInv, Placed, Places
  <2>2. QED
    BY <1>2, <2>1 DEF JobInv, Placed, Places
<1>3. ASSUME retryState' \in {retryState, NoRetry} PROVE KeptPlaced'
  BY <1>3, JobsKept DEF JobInv, KeptPlaced, NoRetry
<1>4. QED
  BY <1>1, <1>2, <1>3

\* So a step of one call keeps the places if it keeps its own and what is kept.
LEMMA OwnPlace ==
    ASSUME Typed, JobInv, [Next]_vars, NEW c \in Calls, Others(c), Placed(c)', KeptPlaced'
    PROVE  JobInv'
  BY PlaceKept DEF JobInv, Others

\* Every call, worker and kept session keeps its place in a job.
LEMMA JobInvStep ==
    ASSUME Typed, JobInv, LinkInv, [Next]_vars
    PROVE  JobInv'
<1>1. ASSUME NEW c \in Calls, NEW shape \in JobShapes, StartUpload(c, shape) PROVE JobInv'
  <2>1. Placed(c)'
    <3>1. Placed(c) /\ th[c].pc = "idle"
      BY <1>1 DEF StartUpload, JobInv
    <3>2. Len(jobs) + 1 \in DOMAIN jobs'
      BY <1>1, JobFacts DEF StartUpload, Typed
    <3>3. 1 \in DOMAIN jobs'[Len(jobs) + 1].items
      BY <1>1, JobFacts, ShapesAssumption DEF StartUpload, Typed
    <3>4. QED
      BY <1>1, <3>1, <3>2, <3>3, StartUploadEffect DEF Placed, Places
  <2>2. KeptPlaced'
    BY <1>1, StartUploadEffect, PlaceKept DEF StartUpload
  <2>3. QED
    BY <1>1, <2>1, <2>2, StartUploadEffect, OwnPlace, Zenon
<1>2. ASSUME NEW c \in Calls, RetryClicked(c) PROVE JobInv'
  <2>1. Placed(c)'
    BY <1>2, RetryClickedEffect, JobsKept
       DEF RetryClicked, JobInv, Placed, Places, KeptPlaced, NoRetry
  <2>2. KeptPlaced'
    BY <1>2, RetryClickedEffect, PlaceKept DEF RetryClicked
  <2>3. QED
    BY <1>2, <2>1, <2>2, RetryClickedEffect, OwnPlace, Zenon
<1>3. ASSUME NEW c \in Calls, ClaimGranted(c) PROVE JobInv'
  <2>1. Placed(c)'
    BY <1>3, ClaimGrantedEffect, JobsKept DEF ClaimGranted, JobInv, Placed, Places
  <2>2. KeptPlaced'
    BY <1>3, ClaimGrantedEffect, PlaceKept DEF ClaimGranted
  <2>3. QED
    BY <1>3, <2>1, <2>2, ClaimGrantedEffect, OwnPlace, Zenon
<1>4. ASSUME NEW c \in Calls, ClaimRefused(c) PROVE JobInv'
  <2>1. Placed(c)'
    BY <1>4, Constants, ClaimRefusedEffect, JobsKept DEF ClaimRefused, JobInv, Placed, Places
  <2>2. KeptPlaced'
    BY <1>4, ClaimRefusedEffect, PlaceKept DEF ClaimRefused
  <2>3. QED
    BY <1>4, <2>1, <2>2, ClaimRefusedEffect, OwnPlace, Zenon
<1>5. ASSUME NEW c \in Calls, Dispatch(c) PROVE JobInv'
  <2>0. /\ Placed(c) /\ th[c].pc # "idle" /\ th[c].job \in DOMAIN jobs
        /\ 1 \in DOMAIN jobs[th[c].job].items
    BY <1>5, JobFacts DEF Dispatch, JobInv, Placed
  <2>1. Placed(c)'
    BY <1>5, <2>0, DispatchEffect, JobsKept DEF Placed, Places
  <2>2. KeptPlaced'
    BY <1>5, DispatchEffect, PlaceKept DEF Dispatch
  <2>3. QED
    BY <1>5, <2>1, <2>2, DispatchEffect, OwnPlace, Zenon
<1>6. ASSUME NEW c \in Calls, Confirm(c) PROVE JobInv'
  <2>0. /\ th[c].job \in DOMAIN jobs
        /\ th[c].index \in DOMAIN jobs[th[c].job].items
    BY <1>6 DEF Confirm, JobInv, Placed, Places
  <2>1. Placed(c)'
    BY <1>6, ConfirmEffect, <2>0, JobsKept DEF Placed, Places
  <2>2. KeptPlaced'
    BY <1>6, ConfirmEffect, PlaceKept DEF Confirm
  <2>3. QED
    BY <1>6, <2>1, <2>2, ConfirmEffect, OwnPlace, Zenon
<1>7a. ASSUME NEW c \in Calls, SignIn(c) PROVE JobInv'
  <2>1. Placed(c)'
    BY <1>7a, SignInEffect, JobsKept DEF SignIn, Credentials, Consent, JobInv, Placed, Places
  <2>2. KeptPlaced'
    BY <1>7a, SignInEffect, PlaceKept DEF SignIn, Credentials, Consent
  <2>3. QED
    BY <1>7a, <2>1, <2>2, SignInEffect, OwnPlace, Zenon
<1>7. ASSUME NEW c \in Calls, Prepare(c) PROVE JobInv'
  <2>1. Placed(c)'
    BY <1>7, PrepareEffect, JobsKept DEF Prepare, JobInv, Placed, Places
  <2>2. KeptPlaced'
    BY <1>7, PrepareEffect, PlaceKept DEF Prepare
  <2>3. QED
    BY <1>7, <2>1, <2>2, PrepareEffect, OwnPlace, Zenon
<1>8. ASSUME NEW c \in Calls, Poll(c) PROVE JobInv'
  <2>1. Placed(c)'
    BY <1>8, PollEffect, JobsKept DEF Poll, JobInv, Placed, Places
  <2>2. KeptPlaced'
    BY <1>8, PollEffect, PlaceKept DEF Poll
  <2>3. QED
    BY <1>8, <2>1, <2>2, PollEffect, OwnPlace, Zenon
<1>9. ASSUME NEW c \in Calls, ChunkSent(c) \/ ChunkRetried(c) PROVE JobInv'
  <2>1. Placed(c)'
    BY <1>9, ChunkEffect, JobsKept DEF ChunkSent, ChunkRetried, JobInv, Placed, Places
  <2>2. KeptPlaced'
    BY <1>9, ChunkEffect, PlaceKept DEF ChunkSent, ChunkRetried
  <2>3. QED
    BY <1>9, <2>1, <2>2, ChunkEffect, OwnPlace, Zenon
<1>10. ASSUME NEW c \in Calls, LastChunkSent(c) PROVE JobInv'
  <2>1. Placed(c)'
    BY <1>10, LastChunkEffect, JobsKept DEF LastChunkSent, JobInv, Placed, Places
  <2>2. KeptPlaced'
    BY <1>10, LastChunkEffect, PlaceKept DEF LastChunkSent
  <2>3. QED
    BY <1>10, <2>1, <2>2, LastChunkEffect, OwnPlace, Zenon
<1>11. ASSUME NEW c \in Calls, NEW retryable \in BOOLEAN, UploadFailed(c, retryable)
     PROVE  JobInv'
  <2>1. Placed(c)'
    BY <1>11, UploadFailedEffect, JobsKept DEF UploadFailed, JobInv, Placed, Places
  <2>2. KeptPlaced'
    BY <1>11, UploadFailedEffect, JobsKept DEF UploadFailed, JobInv, Placed, Places, KeptPlaced
  <2>3. QED
    BY <1>11, <2>1, <2>2, UploadFailedEffect, OwnPlace, Zenon
<1>12. ASSUME NEW c \in Calls, Link(c) PROVE JobInv'
  <2>0. /\ th[c].job \in DOMAIN jobs /\ Job(c).items \in Seq(Recordings)
        /\ th[c].index \in DOMAIN Job(c).items
    BY <1>12, JobFacts DEF Link, JobInv, Placed, Places, Job
  <2>1. Placed(c)'
    BY <1>12, <2>0, LinkEffect, JobsKept DEF Job, Placed, Places
  <2>2. KeptPlaced'
    BY <1>12, LinkEffect, PlaceKept DEF Link
  <2>3. QED
    BY <1>12, <2>1, <2>2, LinkEffect, OwnPlace, Zenon
<1>13. ASSUME NEW c \in Calls, UploadDone(c) PROVE JobInv'
  <2>1. Placed(c)'
    BY <1>13, UploadDoneEffect, JobsKept DEF UploadDone, JobInv, Placed, Places
  <2>2. KeptPlaced'
    BY <1>13, UploadDoneEffect, PlaceKept DEF UploadDone
  <2>3. QED
    BY <1>13, <2>1, <2>2, UploadDoneEffect, OwnPlace, Zenon
<1>14. ASSUME NEW c \in Calls, Release(c) PROVE JobInv'
  <2>1. Placed(c)'
    BY <1>14, Constants, ReleaseEffect, JobsKept DEF Release, JobInv, Placed, Places
  <2>2. KeptPlaced'
    BY <1>14, ReleaseEffect, PlaceKept DEF Release
  <2>3. QED
    BY <1>14, <2>1, <2>2, ReleaseEffect, OwnPlace, Zenon
<1>15. CASE CancelUpload
  BY <1>15, PlaceKept
     DEF CancelUpload, JobInv
<1>16. CASE HandoffTaken
  BY <1>16, PlaceKept
     DEF HandoffTaken, JobInv
<1>17. CASE HandoffGivenBack
  BY <1>17, PlaceKept
     DEF HandoffGivenBack, JobInv
<1>18. CASE Crash
  <2>1. \A d \in Calls : Placed(d)'
    BY <1>18, Constants DEF Crash, Placed, Places
  <2>2. QED
    BY <1>18, <2>1, PlaceKept DEF Crash, JobInv
<1>19. CASE UNCHANGED vars
  BY <1>19, PlaceKept DEF vars, JobInv
<1>20. QED
  BY <1>1, <1>2, <1>3, <1>4, <1>5, <1>6, <1>7a, <1>7, <1>8, <1>9, <1>10,
     <1>11, <1>12, <1>13, <1>14, <1>15, <1>16, <1>17, <1>18, <1>19, Cases

-----------------------------------------------------------------------------
(* The gate, the confirm and the stop *)

\* Locals that a step leaves alone: whether a call holds the gate, and where it is.
LEMMA SameCall ==
    ASSUME NEW c \in Calls, th'[c] = th[c]
    PROVE  Claimed(c)' = Claimed(c)
  BY DEF Claimed

\* A step of one call that does not claim keeps the gate's one tenant.
LEMMA SameTenant ==
    ASSUME GateInv, NEW c \in Calls, Others(c), UNCHANGED upload, Claimed(c)' => Claimed(c)
    PROVE  GateInv'
<1>1. \A d \in Calls : Claimed(d)' => Claimed(d)
  BY SameCall DEF Others
<1>2. QED
  BY <1>1 DEF GateInv

\* The gate never has two tenants.
LEMMA GateStep ==
    ASSUME Typed, JobInv, LinkInv, GateInv, [Next]_vars
    PROVE  GateInv'
<1>1. ASSUME NEW c \in Calls, NEW shape \in JobShapes, StartUpload(c, shape) PROVE GateInv'
  <2>1. Claimed(c)' => Claimed(c)
    BY <1>1, StartUploadEffect DEF StartUpload, Claimed, ClaimedPcs
  <2>2. UNCHANGED upload
    BY <1>1 DEF StartUpload, gate
  <2>3. QED
    BY <1>1, <2>1, <2>2, StartUploadEffect, SameTenant, Zenon
<1>2. ASSUME NEW c \in Calls, RetryClicked(c) PROVE GateInv'
  <2>1. Claimed(c)' => Claimed(c)
    BY <1>2, RetryClickedEffect DEF RetryClicked, Claimed, ClaimedPcs
  <2>2. UNCHANGED upload
    BY <1>2 DEF RetryClicked, gate
  <2>3. QED
    BY <1>2, <2>1, <2>2, RetryClickedEffect, SameTenant, Zenon
<1>3. ASSUME NEW c \in Calls, ClaimGranted(c) PROVE GateInv'
  <2>1. ~upload /\ upload'
    BY <1>3 DEF ClaimGranted, ClaimUpload, CanClaimUpload
  <2>2. \A d \in Calls : Claimed(d)' => d = c
    BY <1>3, <2>1, ClaimGrantedEffect, SameCall DEF GateInv, Others
  <2>3. QED
    BY <2>1, <2>2 DEF GateInv
<1>4. ASSUME NEW c \in Calls, ClaimRefused(c) PROVE GateInv'
  <2>1. Claimed(c)' => Claimed(c)
    BY <1>4, Constants, ClaimRefusedEffect DEF ClaimRefused, Claimed, ClaimedPcs
  <2>2. UNCHANGED upload
    BY <1>4 DEF ClaimRefused, gate
  <2>3. QED
    BY <1>4, <2>1, <2>2, ClaimRefusedEffect, SameTenant, Zenon
<1>5. ASSUME NEW c \in Calls, Dispatch(c) PROVE GateInv'
  <2>1. Claimed(c)' => Claimed(c)
    BY <1>5, DispatchEffect DEF Dispatch, Claimed, ClaimedPcs
  <2>2. UNCHANGED upload
    BY <1>5 DEF Dispatch, gate
  <2>3. QED
    BY <1>5, <2>1, <2>2, DispatchEffect, SameTenant, Zenon
<1>6. ASSUME NEW c \in Calls, Confirm(c) PROVE GateInv'
  <2>1. Claimed(c)' => Claimed(c)
    BY <1>6, ConfirmEffect DEF Confirm, Claimed, ClaimedPcs
  <2>2. UNCHANGED upload
    BY <1>6 DEF Confirm, gate
  <2>3. QED
    BY <1>6, <2>1, <2>2, ConfirmEffect, SameTenant, Zenon
<1>7a. ASSUME NEW c \in Calls, SignIn(c) PROVE GateInv'
  <2>1. Claimed(c)' => Claimed(c)
    BY <1>7a, SignInEffect DEF SignIn, Credentials, Consent, Claimed, ClaimedPcs
  <2>2. UNCHANGED upload
    BY <1>7a DEF SignIn, Credentials, Consent, gate
  <2>3. QED
    BY <1>7a, <2>1, <2>2, SignInEffect, SameTenant, Zenon
<1>7. ASSUME NEW c \in Calls, Prepare(c) PROVE GateInv'
  <2>1. Claimed(c)' => Claimed(c)
    BY <1>7, PrepareEffect DEF Prepare, Claimed, ClaimedPcs
  <2>2. UNCHANGED upload
    BY <1>7 DEF Prepare, gate
  <2>3. QED
    BY <1>7, <2>1, <2>2, PrepareEffect, SameTenant, Zenon
<1>8. ASSUME NEW c \in Calls, Poll(c) PROVE GateInv'
  <2>1. Claimed(c)' => Claimed(c)
    BY <1>8, PollEffect DEF Poll, Claimed, ClaimedPcs
  <2>2. UNCHANGED upload
    BY <1>8 DEF Poll, gate
  <2>3. QED
    BY <1>8, <2>1, <2>2, PollEffect, SameTenant, Zenon
<1>9. ASSUME NEW c \in Calls, ChunkSent(c) \/ ChunkRetried(c) PROVE GateInv'
  <2>1. Claimed(c)' => Claimed(c)
    BY <1>9, ChunkEffect DEF ChunkSent, ChunkRetried, Claimed, ClaimedPcs
  <2>2. UNCHANGED upload
    BY <1>9 DEF ChunkSent, ChunkRetried, gate
  <2>3. QED
    BY <1>9, <2>1, <2>2, ChunkEffect, SameTenant, Zenon
<1>10. ASSUME NEW c \in Calls, LastChunkSent(c) PROVE GateInv'
  <2>1. Claimed(c)' => Claimed(c)
    BY <1>10, LastChunkEffect DEF LastChunkSent, Claimed, ClaimedPcs
  <2>2. UNCHANGED upload
    BY <1>10 DEF LastChunkSent, gate
  <2>3. QED
    BY <1>10, <2>1, <2>2, LastChunkEffect, SameTenant, Zenon
<1>11. ASSUME NEW c \in Calls, NEW retryable \in BOOLEAN, UploadFailed(c, retryable)
     PROVE  GateInv'
  <2>1. Claimed(c)' => Claimed(c)
    BY <1>11, UploadFailedEffect DEF UploadFailed, Claimed, ClaimedPcs
  <2>2. UNCHANGED upload
    BY <1>11 DEF UploadFailed, gate
  <2>3. QED
    BY <1>11, <2>1, <2>2, UploadFailedEffect, SameTenant, Zenon
<1>12. ASSUME NEW c \in Calls, Link(c) PROVE GateInv'
  <2>1. Claimed(c)' => Claimed(c)
    BY <1>12, LinkEffect DEF Link, Claimed, ClaimedPcs
  <2>2. UNCHANGED upload
    BY <1>12 DEF Link, gate
  <2>3. QED
    BY <1>12, <2>1, <2>2, LinkEffect, SameTenant, Zenon
<1>13. ASSUME NEW c \in Calls, UploadDone(c) PROVE GateInv'
  <2>1. Claimed(c)' => Claimed(c)
    BY <1>13, UploadDoneEffect DEF UploadDone, Claimed, ClaimedPcs
  <2>2. UNCHANGED upload
    BY <1>13 DEF UploadDone, gate
  <2>3. QED
    BY <1>13, <2>1, <2>2, UploadDoneEffect, SameTenant, Zenon
<1>14. ASSUME NEW c \in Calls, Release(c) PROVE GateInv'
  <2>1. Claimed(c) /\ ~Claimed(c)'
    BY <1>14, Constants, ReleaseEffect DEF Release, Claimed, ClaimedPcs
  <2>2. \A d \in Calls : ~Claimed(d)'
    BY <1>14, <2>1, ReleaseEffect, SameCall DEF GateInv, Others
  <2>3. QED
    BY <2>2 DEF GateInv
<1>15. CASE CancelUpload
  <2>1. UNCHANGED <<th, upload>>
    BY <1>15 DEF CancelUpload, gate
  <2>2. QED
    BY <2>1 DEF GateInv, Claimed
<1>16. CASE HandoffTaken
  <2>1. UNCHANGED <<th, upload>>
    BY <1>16 DEF HandoffTaken, ClaimHandoff
  <2>2. QED
    BY <2>1 DEF GateInv, Claimed
<1>17. CASE HandoffGivenBack
  <2>1. UNCHANGED <<th, upload>>
    BY <1>17 DEF HandoffGivenBack, ReleaseHandoff
  <2>2. QED
    BY <2>1 DEF GateInv, Claimed
<1>18. CASE Crash
  <2>1. \A d \in Calls : ~Claimed(d)'
    BY <1>18, Constants DEF Crash, Claimed, ClaimedPcs
  <2>2. QED
    BY <2>1 DEF GateInv
<1>19. CASE UNCHANGED vars
  BY <1>19 DEF vars, gate, GateInv, Claimed
<1>20. QED
  BY <1>1, <1>2, <1>3, <1>4, <1>5, <1>6, <1>7a, <1>7, <1>8, <1>9, <1>10,
     <1>11, <1>12, <1>13, <1>14, <1>15, <1>16, <1>17, <1>18, <1>19, Cases

\* What is sound stays so while nothing but the jobs changes around it.
LEMMA SoundKept ==
    ASSUME Typed, JobInv, SoundInv, [Next]_vars
    PROVE  /\ \A d \in Calls : th'[d] = th[d] => Sound(d)'
           /\ retryState' \in {retryState, NoRetry} => KeptSound'
           /\ UNCHANGED published => PublishedSound'
<1>1. ASSUME NEW d \in Calls, th'[d] = th[d] PROVE Sound(d)'
  <2>1. CASE th[d].pc # "idle"
    <3>1. th[d].job \in DOMAIN jobs /\ Sound(d)
      BY <2>1 DEF JobInv, Placed, SoundInv
    <3>2. QED
      BY <1>1, <3>1, JobsKept DEF Sound
  <2>2. CASE th[d].pc = "idle"
    BY <1>1, <2>2 DEF JobInv, Placed, Sound, PastConfirm
  <2>3. QED
    BY <2>1, <2>2
<1>2. ASSUME retryState' \in {retryState, NoRetry} PROVE KeptSound'
  BY <1>2, JobsKept
     DEF SoundInv, KeptSound, KeptSessionHasItsFile, JobInv, KeptPlaced, NoRetry
<1>3. ASSUME UNCHANGED published PROVE PublishedSound'
  BY <1>3, JobsKept DEF SoundInv, PublishedSound, PublishedWasConfirmed
<1>4. QED
  BY <1>1, <1>2, <1>3

\* So a step of one call keeps it if its own call and what it stores are sound.
LEMMA OwnSound ==
    ASSUME Typed, JobInv, SoundInv, [Next]_vars, NEW c \in Calls, Others(c),
           Sound(c)', KeptSound', PublishedSound'
    PROVE  SoundInv'
  BY SoundKept DEF SoundInv, Others

\* Every job that gets as far as the channel was confirmed, and sessions stay resumable.
LEMMA SoundStep ==
    ASSUME Typed, JobInv, LinkInv, SoundInv, [Next]_vars
    PROVE  SoundInv'
<1>1. ASSUME NEW c \in Calls, NEW shape \in JobShapes, StartUpload(c, shape) PROVE SoundInv'
  <2>1. th[c].pc = "idle" /\ ~th[c].resume
    BY <1>1 DEF StartUpload, JobInv, Placed
  <2>2. Sound(c)'
    BY <1>1, <2>1, StartUploadEffect, JobsKept DEF StartUpload, Sound, PastConfirm
  <2>3. KeptSound'
    BY <1>1, StartUploadEffect, SoundKept DEF StartUpload
  <2>4. PublishedSound'
    BY <1>1, SoundKept DEF StartUpload
  <2>5. QED
    BY <1>1, <2>2, <2>3, <2>4, StartUploadEffect, OwnSound, Zenon
<1>2. ASSUME NEW c \in Calls, RetryClicked(c) PROVE SoundInv'
  <2>1. /\ retryState.job \in DOMAIN jobs /\ jobs[retryState.job].confirmed
        /\ retryState.request # NoRequest => ~jobs[retryState.job].stitch
    BY <1>2 DEF RetryClicked, SoundInv, KeptSound, KeptSessionHasItsFile, JobInv, KeptPlaced
  <2>2. Sound(c)'
    BY <1>2, <2>1, RetryClickedEffect, JobsKept DEF RetryClicked, Sound, PastConfirm
  <2>3. KeptSound'
    BY <1>2, RetryClickedEffect, SoundKept DEF RetryClicked
  <2>4. PublishedSound'
    BY <1>2, SoundKept DEF RetryClicked
  <2>5. QED
    BY <1>2, <2>2, <2>3, <2>4, RetryClickedEffect, OwnSound, Zenon
<1>3. ASSUME NEW c \in Calls, ClaimGranted(c) PROVE SoundInv'
  <2>1. Sound(c) /\ th[c].job \in DOMAIN jobs
    BY <1>3 DEF ClaimGranted, SoundInv, JobInv, Placed
  <2>2. Sound(c)'
    BY <1>3, <2>1, ClaimGrantedEffect, JobsKept DEF ClaimGranted, Sound, PastConfirm
  <2>3. KeptSound'
    BY <1>3, ClaimGrantedEffect, SoundKept DEF ClaimGranted
  <2>4. PublishedSound'
    BY <1>3, SoundKept DEF ClaimGranted
  <2>5. QED
    BY <1>3, <2>2, <2>3, <2>4, ClaimGrantedEffect, OwnSound, Zenon
<1>4. ASSUME NEW c \in Calls, ClaimRefused(c) PROVE SoundInv'
  <2>1. Sound(c) /\ th[c].job \in DOMAIN jobs
    BY <1>4 DEF ClaimRefused, SoundInv, JobInv, Placed
  <2>2. Sound(c)'
    BY <1>4, <2>1, Constants, ClaimRefusedEffect, JobsKept DEF ClaimRefused, Sound, PastConfirm
  <2>3. KeptSound'
    BY <1>4, ClaimRefusedEffect, SoundKept DEF ClaimRefused
  <2>4. PublishedSound'
    BY <1>4, SoundKept DEF ClaimRefused
  <2>5. QED
    BY <1>4, <2>2, <2>3, <2>4, ClaimRefusedEffect, OwnSound, Zenon
<1>5. ASSUME NEW c \in Calls, Dispatch(c) PROVE SoundInv'
  <2>1. Sound(c) /\ th[c].job \in DOMAIN jobs
    BY <1>5 DEF Dispatch, SoundInv, JobInv, Placed
  <2>2. Sound(c)'
    BY <1>5, <2>1, DispatchEffect, JobsKept DEF Dispatch, Sound, PastConfirm
  <2>3. KeptSound'
    BY <1>5, DispatchEffect, SoundKept DEF Dispatch
  <2>4. PublishedSound'
    BY <1>5, SoundKept DEF Dispatch
  <2>5. QED
    BY <1>5, <2>2, <2>3, <2>4, DispatchEffect, OwnSound, Zenon
<1>6. ASSUME NEW c \in Calls, Confirm(c) PROVE SoundInv'
  <2>1. Sound(c) /\ th[c].job \in DOMAIN jobs
    BY <1>6 DEF Confirm, SoundInv, JobInv, Placed
  <2>2. Sound(c)'
    <3>1. CASE th'[c].pc = "auth"
      <4>1. jobs \in Seq(Jobs) /\ jobs[th[c].job] \in Jobs
        BY <2>1 DEF Typed
      <4>2. jobs'[th[c].job].confirmed
        BY <1>6, <2>1, <3>1, <4>1, ConfirmEffect DEF Jobs
      <4>3. QED
        BY <1>6, <2>1, <3>1, <4>2, ConfirmEffect, JobsKept DEF Sound
    <3>2. QED
      BY <1>6, <2>1, <3>1, ConfirmEffect DEF Sound, PastConfirm
  <2>3. KeptSound'
    BY <1>6, ConfirmEffect, SoundKept DEF Confirm
  <2>4. PublishedSound'
    BY <1>6, SoundKept DEF Confirm
  <2>5. QED
    BY <1>6, <2>2, <2>3, <2>4, ConfirmEffect, OwnSound, Zenon
<1>7a. ASSUME NEW c \in Calls, SignIn(c) PROVE SoundInv'
  <2>1. Sound(c) /\ th[c].job \in DOMAIN jobs
    BY <1>7a DEF SignIn, Credentials, Consent, SoundInv, JobInv, Placed
  <2>2. Sound(c)'
    BY <1>7a, <2>1, SignInEffect, JobsKept DEF SignIn, Credentials, Consent, Sound, PastConfirm
  <2>3. KeptSound'
    BY <1>7a, SignInEffect, SoundKept DEF SignIn, Credentials, Consent
  <2>4. PublishedSound'
    BY <1>7a, SoundKept DEF SignIn, Credentials, Consent
  <2>5. QED
    BY <1>7a, <2>2, <2>3, <2>4, SignInEffect, OwnSound, Zenon
<1>7. ASSUME NEW c \in Calls, Prepare(c) PROVE SoundInv'
  <2>1. Sound(c) /\ th[c].job \in DOMAIN jobs
    BY <1>7 DEF Prepare, SoundInv, JobInv, Placed
  <2>2. Sound(c)'
    BY <1>7, <2>1, PrepareEffect, JobsKept DEF Prepare, Sound, PastConfirm
  <2>3. KeptSound'
    BY <1>7, PrepareEffect, SoundKept DEF Prepare
  <2>4. PublishedSound'
    BY <1>7, SoundKept DEF Prepare
  <2>5. QED
    BY <1>7, <2>2, <2>3, <2>4, PrepareEffect, OwnSound, Zenon
<1>8. ASSUME NEW c \in Calls, Poll(c) PROVE SoundInv'
  <2>1. Sound(c) /\ th[c].job \in DOMAIN jobs
    BY <1>8 DEF Poll, SoundInv, JobInv, Placed
  <2>2. Sound(c)'
    BY <1>8, <2>1, PollEffect, JobsKept DEF Poll, Sound, PastConfirm
  <2>3. KeptSound'
    BY <1>8, PollEffect, SoundKept DEF Poll
  <2>4. PublishedSound'
    BY <1>8, SoundKept DEF Poll
  <2>5. QED
    BY <1>8, <2>2, <2>3, <2>4, PollEffect, OwnSound, Zenon
<1>9. ASSUME NEW c \in Calls, ChunkSent(c) \/ ChunkRetried(c) PROVE SoundInv'
  <2>1. Sound(c) /\ th[c].job \in DOMAIN jobs
    BY <1>9 DEF ChunkSent, ChunkRetried, SoundInv, JobInv, Placed
  <2>2. Sound(c)'
    BY <1>9, <2>1, ChunkEffect, JobsKept DEF ChunkSent, ChunkRetried, Sound, PastConfirm
  <2>3. KeptSound'
    BY <1>9, ChunkEffect, SoundKept DEF ChunkSent, ChunkRetried
  <2>4. PublishedSound'
    BY <1>9, SoundKept DEF ChunkSent, ChunkRetried
  <2>5. QED
    BY <1>9, <2>2, <2>3, <2>4, ChunkEffect, OwnSound, Zenon
<1>10. ASSUME NEW c \in Calls, LastChunkSent(c) PROVE SoundInv'
  <2>1. Sound(c) /\ th[c].job \in DOMAIN jobs
    BY <1>10 DEF LastChunkSent, SoundInv, JobInv, Placed
  <2>2. Sound(c)'
    BY <1>10, <2>1, LastChunkEffect, JobsKept DEF LastChunkSent, Sound, PastConfirm
  <2>3. KeptSound'
    BY <1>10, LastChunkEffect, SoundKept DEF LastChunkSent
  <2>4. PublishedSound'
    <3> DEFINE v == [job |-> th[c].job, items |-> Sources(c), stitch |-> Job(c).stitch]
    <3>1. v \in Video /\ v.job \in DOMAIN jobs /\ jobs[v.job].confirmed
      BY <1>10, <2>1, LastChunkEffect DEF LastChunkSent, Sound, PastConfirm
    <3> HIDE DEF v
    <3>2. published \in Seq(Video) /\ published' = Append(published, v)
      BY <1>10 DEF LastChunkSent, Typed, v
    <3>3. /\ DOMAIN published' = DOMAIN published \cup {Len(published) + 1}
          /\ published'[Len(published) + 1] = v
          /\ \A w \in DOMAIN published : published'[w] = published[w]
      <4>1. v \in Video /\ published \in Seq(Video)
        BY <3>1, <3>2
      <4>2. QED
        BY <3>2, <4>1, Appended
    <3>4. QED
      BY <3>1, <3>3, JobsKept DEF SoundInv, PublishedSound, PublishedWasConfirmed
  <2>5. QED
    BY <1>10, <2>2, <2>3, <2>4, LastChunkEffect, OwnSound, Zenon
<1>11. ASSUME NEW c \in Calls, NEW retryable \in BOOLEAN, UploadFailed(c, retryable)
     PROVE  SoundInv'
  <2>1. Sound(c) /\ th[c].job \in DOMAIN jobs
    BY <1>11 DEF UploadFailed, SoundInv, JobInv, Placed
  <2>2. Sound(c)'
    BY <1>11, <2>1, UploadFailedEffect, JobsKept DEF UploadFailed, Sound, PastConfirm
  <2>3. KeptSound'
    BY <1>11, <2>1, UploadFailedEffect, JobsKept
       DEF UploadFailed, Sound, PastConfirm, KeptSound, KeptSessionHasItsFile, Resumable, Job
  <2>4. PublishedSound'
    BY <1>11, SoundKept DEF UploadFailed
  <2>5. QED
    BY <1>11, <2>2, <2>3, <2>4, UploadFailedEffect, OwnSound, Zenon
<1>12. ASSUME NEW c \in Calls, Link(c) PROVE SoundInv'
  <2>1. Sound(c) /\ th[c].job \in DOMAIN jobs
    BY <1>12 DEF Link, SoundInv, JobInv, Placed
  <2>2. Sound(c)'
    BY <1>12, <2>1, LinkEffect, JobsKept DEF Link, Sound, PastConfirm
  <2>3. KeptSound'
    BY <1>12, LinkEffect, SoundKept DEF Link
  <2>4. PublishedSound'
    BY <1>12, SoundKept DEF Link
  <2>5. QED
    BY <1>12, <2>2, <2>3, <2>4, LinkEffect, OwnSound, Zenon
<1>13. ASSUME NEW c \in Calls, UploadDone(c) PROVE SoundInv'
  <2>1. Sound(c) /\ th[c].job \in DOMAIN jobs
    BY <1>13 DEF UploadDone, SoundInv, JobInv, Placed
  <2>2. Sound(c)'
    BY <1>13, <2>1, UploadDoneEffect, JobsKept DEF UploadDone, Sound, PastConfirm
  <2>3. KeptSound'
    BY <1>13, UploadDoneEffect, SoundKept DEF UploadDone
  <2>4. PublishedSound'
    BY <1>13, SoundKept DEF UploadDone
  <2>5. QED
    BY <1>13, <2>2, <2>3, <2>4, UploadDoneEffect, OwnSound, Zenon
<1>14. ASSUME NEW c \in Calls, Release(c) PROVE SoundInv'
  <2>1. Sound(c) /\ th[c].job \in DOMAIN jobs
    BY <1>14 DEF Release, SoundInv, JobInv, Placed
  <2>2. Sound(c)'
    BY <1>14, <2>1, Constants, ReleaseEffect, JobsKept DEF Release, Sound, PastConfirm
  <2>3. KeptSound'
    BY <1>14, ReleaseEffect, SoundKept DEF Release
  <2>4. PublishedSound'
    BY <1>14, SoundKept DEF Release
  <2>5. QED
    BY <1>14, <2>2, <2>3, <2>4, ReleaseEffect, OwnSound, Zenon
<1>15. CASE CancelUpload
  BY <1>15, SoundKept DEF CancelUpload, SoundInv
<1>16. CASE HandoffTaken
  BY <1>16, SoundKept DEF HandoffTaken, SoundInv
<1>17. CASE HandoffGivenBack
  BY <1>17, SoundKept DEF HandoffGivenBack, SoundInv
<1>18. CASE Crash
  <2>1. \A d \in Calls : Sound(d)'
    BY <1>18, Constants DEF Crash, Sound, PastConfirm
  <2>2. QED
    BY <1>18, <2>1, SoundKept DEF Crash, SoundInv
<1>19. CASE UNCHANGED vars
  BY <1>19, SoundKept DEF vars, SoundInv
<1>20. QED
  BY <1>1, <1>2, <1>3, <1>4, <1>5, <1>6, <1>7a, <1>7, <1>8, <1>9, <1>10,
     <1>11, <1>12, <1>13, <1>14, <1>15, <1>16, <1>17, <1>18, <1>19, Cases

\* A step that leaves the stop flag and the clicks alone keeps what the flag means, if
\* it does so for the call that takes it.
LEMMA OwnStop ==
    ASSUME StopInv, NEW c \in Calls, Others(c), UNCHANGED <<cancel, runs, clickRun>>,
           Stopped(c)'
    PROVE  StopInv'
<1>1. \A d \in Calls : Stopped(d)'
  BY SameCall DEF StopInv, Stopped, Others
<1>2. QED
  BY <1>1 DEF StopInv

\* No worker sees a stop that was clicked before its claim.
LEMMA StopStep ==
    ASSUME Typed, JobInv, LinkInv, GateInv, StopInv, [Next]_vars
    PROVE  StopInv'
<1>1. ASSUME NEW c \in Calls, NEW shape \in JobShapes, StartUpload(c, shape) PROVE StopInv'
  <2>1. Stopped(c)'
    BY <1>1, StartUploadEffect DEF StartUpload, StopInv, Stopped, Claimed, ClaimedPcs, history
  <2>2. UNCHANGED <<cancel, runs, clickRun>>
    BY <1>1 DEF StartUpload, history
  <2>3. QED
    BY <1>1, <2>1, <2>2, StartUploadEffect, OwnStop, Zenon
<1>2. ASSUME NEW c \in Calls, RetryClicked(c) PROVE StopInv'
  <2>1. Stopped(c)'
    BY <1>2, RetryClickedEffect DEF RetryClicked, StopInv, Stopped, Claimed, ClaimedPcs, history
  <2>2. UNCHANGED <<cancel, runs, clickRun>>
    BY <1>2 DEF RetryClicked, history
  <2>3. QED
    BY <1>2, <2>1, <2>2, RetryClickedEffect, OwnStop, Zenon
<1>3. ASSUME NEW c \in Calls, ClaimGranted(c) PROVE StopInv'
  <2>1. \A d \in Calls : Claimed(d)' => d = c /\ th'[d].pc \in {"dispatch", "redispatch"}
    <3>1. ~upload
      BY <1>3 DEF ClaimGranted, ClaimUpload, CanClaimUpload
    <3>2. QED
      BY <1>3, <3>1, ClaimGrantedEffect, SameCall DEF GateInv, Others
  <2>2. clickRun' <= runs'
    BY <1>3 DEF ClaimGranted, StopInv, Typed
  <2>3. QED
    BY <2>1, <2>2 DEF StopInv, Stopped
<1>4. ASSUME NEW c \in Calls, ClaimRefused(c) PROVE StopInv'
  <2>1. Stopped(c)'
    BY <1>4, Constants, ClaimRefusedEffect
       DEF ClaimRefused, StopInv, Stopped, Claimed, ClaimedPcs, history
  <2>2. UNCHANGED <<cancel, runs, clickRun>>
    BY <1>4 DEF ClaimRefused, history
  <2>3. QED
    BY <1>4, <2>1, <2>2, ClaimRefusedEffect, OwnStop, Zenon
<1>5. ASSUME NEW c \in Calls, Dispatch(c) PROVE StopInv'
  <2>1. ~cancel' /\ UNCHANGED <<runs, clickRun>>
    BY <1>5 DEF Dispatch, history
  <2>2. QED
    BY <2>1 DEF StopInv, Stopped
<1>6. ASSUME NEW c \in Calls, Confirm(c) PROVE StopInv'
  <2>1. Stopped(c)'
    BY <1>6, ConfirmEffect DEF Confirm, StopInv, Stopped, Claimed, ClaimedPcs, history
  <2>2. UNCHANGED <<cancel, runs, clickRun>>
    BY <1>6 DEF Confirm, history
  <2>3. QED
    BY <1>6, <2>1, <2>2, ConfirmEffect, OwnStop, Zenon
<1>7a. ASSUME NEW c \in Calls, SignIn(c) PROVE StopInv'
  <2>1. Stopped(c)'
    BY <1>7a, SignInEffect DEF SignIn, Credentials, Consent, StopInv, Stopped, Claimed, ClaimedPcs, history
  <2>2. UNCHANGED <<cancel, runs, clickRun>>
    BY <1>7a DEF SignIn, Credentials, Consent, history
  <2>3. QED
    BY <1>7a, <2>1, <2>2, SignInEffect, OwnStop, Zenon
<1>7. ASSUME NEW c \in Calls, Prepare(c) PROVE StopInv'
  <2>1. Stopped(c)'
    BY <1>7, PrepareEffect DEF Prepare, StopInv, Stopped, Claimed, ClaimedPcs, history
  <2>2. UNCHANGED <<cancel, runs, clickRun>>
    BY <1>7 DEF Prepare, history
  <2>3. QED
    BY <1>7, <2>1, <2>2, PrepareEffect, OwnStop, Zenon
<1>8. ASSUME NEW c \in Calls, Poll(c) PROVE StopInv'
  <2>1. Stopped(c)'
    BY <1>8, PollEffect DEF Poll, StopInv, Stopped, Claimed, ClaimedPcs, history
  <2>2. UNCHANGED <<cancel, runs, clickRun>>
    BY <1>8 DEF Poll, history
  <2>3. QED
    BY <1>8, <2>1, <2>2, PollEffect, OwnStop, Zenon
<1>9. ASSUME NEW c \in Calls, ChunkSent(c) \/ ChunkRetried(c) PROVE StopInv'
  <2>1. Stopped(c)'
    BY <1>9, ChunkEffect
       DEF ChunkSent, ChunkRetried, StopInv, Stopped, Claimed, ClaimedPcs, history
  <2>2. UNCHANGED <<cancel, runs, clickRun>>
    BY <1>9 DEF ChunkSent, ChunkRetried, history
  <2>3. QED
    BY <1>9, <2>1, <2>2, ChunkEffect, OwnStop, Zenon
<1>10. ASSUME NEW c \in Calls, LastChunkSent(c) PROVE StopInv'
  <2>1. Stopped(c)'
    BY <1>10, LastChunkEffect DEF LastChunkSent, StopInv, Stopped, Claimed, ClaimedPcs, history
  <2>2. UNCHANGED <<cancel, runs, clickRun>>
    BY <1>10 DEF LastChunkSent, history
  <2>3. QED
    BY <1>10, <2>1, <2>2, LastChunkEffect, OwnStop, Zenon
<1>11. ASSUME NEW c \in Calls, NEW retryable \in BOOLEAN, UploadFailed(c, retryable)
     PROVE  StopInv'
  <2>1. Stopped(c)'
    BY <1>11, UploadFailedEffect DEF UploadFailed, StopInv, Stopped, Claimed, ClaimedPcs, history
  <2>2. UNCHANGED <<cancel, runs, clickRun>>
    BY <1>11 DEF UploadFailed, history
  <2>3. QED
    BY <1>11, <2>1, <2>2, UploadFailedEffect, OwnStop, Zenon
<1>12. ASSUME NEW c \in Calls, Link(c) PROVE StopInv'
  <2>1. Stopped(c)'
    BY <1>12, LinkEffect DEF Link, StopInv, Stopped, Claimed, ClaimedPcs, history
  <2>2. UNCHANGED <<cancel, runs, clickRun>>
    BY <1>12 DEF Link, history
  <2>3. QED
    BY <1>12, <2>1, <2>2, LinkEffect, OwnStop, Zenon
<1>13. ASSUME NEW c \in Calls, UploadDone(c) PROVE StopInv'
  <2>1. Stopped(c)'
    BY <1>13, UploadDoneEffect DEF UploadDone, StopInv, Stopped, Claimed, ClaimedPcs, history
  <2>2. UNCHANGED <<cancel, runs, clickRun>>
    BY <1>13 DEF UploadDone, history
  <2>3. QED
    BY <1>13, <2>1, <2>2, UploadDoneEffect, OwnStop, Zenon
<1>14. ASSUME NEW c \in Calls, Release(c) PROVE StopInv'
  <2>1. Stopped(c)'
    BY <1>14, Constants, ReleaseEffect DEF Release, StopInv, Stopped, Claimed, ClaimedPcs, history
  <2>2. UNCHANGED <<cancel, runs, clickRun>>
    BY <1>14 DEF Release, history
  <2>3. QED
    BY <1>14, <2>1, <2>2, ReleaseEffect, OwnStop, Zenon
<1>15. CASE CancelUpload
  <2>1. clickRun' = runs' /\ runs' \in Nat
    BY <1>15 DEF CancelUpload, Typed
  <2>2. QED
    BY <2>1 DEF StopInv, Stopped
<1>16. CASE HandoffTaken
  BY <1>16 DEF HandoffTaken, StopInv, Stopped, Claimed, history
<1>17. CASE HandoffGivenBack
  BY <1>17 DEF HandoffGivenBack, StopInv, Stopped, Claimed, history
<1>18. CASE Crash
  <2>1. ~cancel' /\ UNCHANGED <<runs, clickRun>>
    BY <1>18 DEF Crash
  <2>2. QED
    BY <2>1 DEF StopInv, Stopped
<1>19. CASE UNCHANGED vars
  BY <1>19 DEF vars, StopInv, Stopped, Claimed, history
<1>20. QED
  BY <1>1, <1>2, <1>3, <1>4, <1>5, <1>6, <1>7a, <1>7, <1>8, <1>9, <1>10,
     <1>11, <1>12, <1>13, <1>14, <1>15, <1>16, <1>17, <1>18, <1>19, Cases

-----------------------------------------------------------------------------
(* The links *)

\* The missing videos are finitely many.
LEMMA MissingFinite ==
    ASSUME Typed
    PROVE  /\ IsFiniteSet(Missing) /\ DOMAIN published = 1..Len(published)
           /\ Len(published) \in Nat
<1>1. DOMAIN published = 1..Len(published) /\ Len(published) \in Nat
  BY DEF Typed
<1>2. IsFiniteSet(1..Len(published)) /\ Missing \subseteq 1..Len(published)
  BY <1>1, FS_Interval DEF Missing
<1>3. QED
  BY <1>1, <1>2, FS_Subset

\* Without one of its members a set has at most one less.
LEMMA OneMore ==
    ASSUME NEW S, IsFiniteSet(S), NEW x
    PROVE  Cardinality(S) \in Nat /\ Cardinality(S \ {x}) \in Nat
           /\ Cardinality(S) <= Cardinality(S \ {x}) + 1
<1>1. Cardinality(S) \in Nat
  BY FS_CardinalityType
<1>2. Cardinality(S \ {x}) = IF x \in S THEN Cardinality(S) - 1 ELSE Cardinality(S)
  BY FS_RemoveElement
<1>3. IsFiniteSet(S \ {x})
  BY FS_RemoveElement
<1>4. Cardinality(S \ {x}) \in Nat
  BY <1>3, FS_CardinalityType
<1>5. QED
  BY <1>1, <1>2, <1>4

\* No other call links while one holds the gate.
LEMMA OneLinks ==
    ASSUME GateInv, NEW c \in Calls, Claimed(c)
    PROVE  \A d \in Calls : d # c => th[d].pc # "link"
  BY DEF GateInv, Claimed, ClaimedPcs

\* Away from the link, a step that leaves the channel and the files alone costs
\* nothing.
LEMMA Elsewhere ==
    ASSUME LinkInv, LossInv, UNCHANGED <<published, store, disk, writable, crashes>>,
           \A c \in Calls : (th'[c].pc = "link") = (th[c].pc = "link"),
           \A c \in Calls : th[c].pc = "link" => th'[c] = th[c]
    PROVE  LinkInv' /\ LossInv'
<1>1. Missing' = Missing /\ Linking' = Linking
  BY DEF Missing, Linking, OnFile
<1>2. LossInv'
  BY <1>1 DEF LossInv
<1>3. \A c \in Calls : Filing(c)'
  BY DEF LinkInv, Filing
<1>4. QED
  BY <1>2, <1>3 DEF LinkInv

\* The same, for a step of one call that is not at the link.
LEMMA OwnLink ==
    ASSUME LinkInv, LossInv, UNCHANGED <<published, store, disk, writable, crashes>>,
           NEW c \in Calls, Others(c), th[c].pc # "link", th'[c].pc # "link"
    PROVE  LinkInv' /\ LossInv'
<1>1. \A d \in Calls : (th'[d].pc = "link") = (th[d].pc = "link")
  BY DEF Others
<1>2. \A d \in Calls : th[d].pc = "link" => th'[d] = th[d]
  BY DEF Others
<1>3. QED
  BY <1>1, <1>2, Elsewhere

\* A published video is missing until it is linked, and it is the one being linked.
LEMMA LastChunkLinks ==
    ASSUME Typed, JobInv, GateInv, LinkInv, LossInv, NEW c \in Calls, LastChunkSent(c)
    PROVE  LinkInv' /\ LossInv'
<1> DEFINE v == [job |-> th[c].job, items |-> Sources(c), stitch |-> Job(c).stitch]
           n == Len(published)
<1>1. /\ v \in Video /\ v.items = Sources(c) /\ Sources(c) # <<>>
      /\ Sources(c) \in Seq(Recordings)
      /\ Others(c) /\ th'[c].pc = "link" /\ th'[c].todo = Sources(c)
  BY LastChunkEffect
<1>2. published \in Seq(Video) /\ published' = Append(published, v) /\ UNCHANGED <<links, crashes>>
  BY DEF LastChunkSent, Typed, history
<1>3. th[c].pc # "link" /\ \A d \in Calls : d # c => th[d].pc # "link" /\ th'[d].pc # "link"
  BY <1>1, OneLinks DEF LastChunkSent, Claimed, ClaimedPcs, Others
<1> HIDE DEF v
<1>4. /\ n \in Nat /\ Len(published') = n + 1 /\ published'[n + 1] = v
      /\ DOMAIN published' = DOMAIN published \cup {n + 1} /\ DOMAIN published = 1..n
      /\ \A w \in DOMAIN published : published'[w] = published[w]
  <2>1. v \in Video /\ published \in Seq(Video)
    BY <1>1, <1>2
  <2>2. QED
    BY <1>2, <2>1, Appended
<1>5. Filing(c)'
  <2>1. published' # <<>>
    BY <1>4
  <2>2. QED
    BY <1>1, <1>4, <2>1 DEF Filing
<1>6. LinkInv'
  <2>1. \A d \in Calls : Filing(d)'
    BY <1>3, <1>5 DEF Filing
  <2>2. /\ store' \in [Recordings -> 0 .. Len(published')]
        /\ disk' \in [Recordings -> 0 .. Len(published')]
    BY <1>2, <1>4 DEF LinkInv, links
  <2>3. QED
    BY <1>2, <2>1, <2>2 DEF LinkInv, links
<1>7. LossInv'
  <2>1. Linking = {} /\ Linking' = {n + 1}
    BY <1>1, <1>3, <1>4 DEF Linking
  <2>2. \A w \in DOMAIN published : OnFile(w)' = OnFile(w)
    BY <1>2, <1>4 DEF OnFile, links
  <2>3. n + 1 \notin DOMAIN published
    BY <1>4
  <2>4. Missing' \ Linking' = Missing \ Linking
    BY <1>4, <2>1, <2>2, <2>3 DEF Missing
  <2>5. QED
    BY <1>2, <2>4 DEF LossInv, links
<1>8. QED
  BY <1>6, <1>7

\* One recording goes on file; the video is no longer missing when the last one has.
LEMMA LinkLinks ==
    ASSUME Typed, JobInv, GateInv, LinkInv, LossInv, NEW c \in Calls, Link(c)
    PROVE  LinkInv' /\ LossInv'
<1> DEFINE n == Len(published)
           r == Head(th[c].todo)
<1>1. /\ Others(c) /\ th[c].todo \in Seq(Recordings) /\ th[c].todo # <<>>
      /\ r \in Recordings /\ th[c].pc = "link"
  BY LinkEffect DEF Link
<1>2. /\ store' = [store EXCEPT ![r] = n] /\ disk' = IF writable THEN store' ELSE disk
      /\ UNCHANGED <<published, writable, crashes>>
  BY DEF Link, history
<1>3. n \in Nat /\ DOMAIN published = 1..n /\ published # <<>> /\ n \in DOMAIN published
  BY <1>1, MissingFinite DEF LinkInv, Filing
<1>4. /\ store' \in [Recordings -> 0..n] /\ disk' \in [Recordings -> 0..n]
      /\ writable => store' = disk'
  BY <1>1, <1>2, <1>3 DEF LinkInv
<1>5. \A d \in Calls : d # c => th[d].pc # "link" /\ th'[d].pc # "link"
  BY <1>1, OneLinks DEF Claimed, ClaimedPcs, Others
\* what is left to do is the rest of the list
<1>6. \A i \in DOMAIN th[c].todo :
          th[c].todo[i] = r \/ \E j \in DOMAIN Tail(th[c].todo) : Tail(th[c].todo)[j] = th[c].todo[i]
  <2>1. ASSUME NEW i \in DOMAIN th[c].todo, i # 1
        PROVE  i - 1 \in DOMAIN Tail(th[c].todo) /\ Tail(th[c].todo)[i - 1] = th[c].todo[i]
    BY <1>1, <2>1
  <2>2. th[c].todo[1] = r
    BY <1>1
  <2>3. QED
    BY <2>1, <2>2, Zenon
<1>7. writable =>
         \A k \in DOMAIN published[n].items :
            LET q == published[n].items[k] IN
            disk'[q] = n \/ \E j \in DOMAIN Tail(th[c].todo) : Tail(th[c].todo)[j] = q
  <2> SUFFICES ASSUME writable, NEW k \in DOMAIN published[n].items
               PROVE  LET q == published[n].items[k] IN
                      disk'[q] = n \/ \E j \in DOMAIN Tail(th[c].todo) : Tail(th[c].todo)[j] = q
    OBVIOUS
  <2> DEFINE q == published[n].items[k]
  <2>1. disk[q] = n \/ \E i \in DOMAIN th[c].todo : th[c].todo[i] = q
    BY <1>1 DEF LinkInv, Filing
  <2>2. store = disk /\ disk' = store' /\ q \in Recordings
    <3>1. published[n] \in Video
      BY <1>3 DEF Typed
    <3>2. QED
      BY <1>2, <3>1 DEF LinkInv, Video
  <2>3. disk'[q] = IF q = r THEN n ELSE disk[q]
    BY <1>2, <2>2 DEF LinkInv
  <2>4. QED
    BY <1>6, <2>1, <2>3
<1>8. Filing(c)'
  <2>1. CASE th'[c].pc = "link"
    <3>1. th'[c].todo = Tail(th[c].todo) /\ Tail(th[c].todo) # <<>>
      BY <2>1, LinkEffect
    <3>2. QED
      BY <1>2, <1>3, <1>7, <3>1 DEF Filing
  <2>2. QED
    BY <2>1 DEF Filing
<1>9. LinkInv'
  BY <1>2, <1>4, <1>5, <1>8 DEF LinkInv, Filing
\* a file only gets newer
<1>10. ASSUME writable PROVE Missing' \subseteq Missing
  <2>1. store = disk /\ disk' = [disk EXCEPT ![r] = n]
    BY <1>2, <1>10 DEF LinkInv
  <2>2. \A w \in DOMAIN published : \A k \in DOMAIN published[w].items :
            disk[published[w].items[k]] >= w => disk'[published[w].items[k]] >= w
    <3>1. disk \in [Recordings -> 0..n]
      BY DEF LinkInv
    <3>2. \A w \in DOMAIN published : w \in 1..n
      BY <1>3
    <3>3. \A w \in DOMAIN published : published[w].items \in Seq(Recordings)
      <4>1. \A w \in DOMAIN published : published[w] \in Video
        BY DEF Typed
      <4>2. QED
        BY <4>1 DEF Video
    <3>4. \A w \in DOMAIN published : \A k \in DOMAIN published[w].items :
             published[w].items[k] \in Recordings
      BY <3>3
    <3>5. QED
      BY <1>3, <2>1, <3>1, <3>2, <3>4
  <2>3. QED
    BY <1>2, <2>2 DEF Missing, OnFile
<1>11. Linking = {n}
  BY <1>1 DEF Linking
<1>12. ASSUME writable PROVE Missing' \ Linking' \subseteq Missing \ Linking
  <2>1. CASE th'[c].pc = "link"
    <3>1. Linking' = {n}
      BY <1>2, <2>1 DEF Linking
    <3>2. QED
      BY <1>10, <1>11, <1>12, <3>1
  <2>2. CASE th'[c].pc # "link"
    <3>1. Tail(th[c].todo) = <<>> /\ DOMAIN Tail(th[c].todo) = {}
      BY <2>2, LinkEffect
    <3>2. \A k \in DOMAIN published[n].items : disk'[published[n].items[k]] = n
      BY <1>7, <1>12, <3>1
    <3>3. ASSUME NEW w \in Missing' PROVE w # n
      BY <1>2, <1>3, <3>2 DEF Missing, OnFile
    <3>4. n \notin Missing'
      BY <3>3, Zenon
    <3>5. QED
      BY <1>10, <1>11, <1>12, <3>4
  <2>3. QED
    BY <2>1, <2>2
<1>13. LossInv'
  <2> SUFFICES ASSUME writable PROVE Cardinality(Missing' \ Linking') <= crashes
    BY <1>2 DEF LossInv
  <2>1. IsFiniteSet(Missing \ Linking)
    BY MissingFinite, FS_Subset
  <2>2. Cardinality(Missing' \ Linking') <= Cardinality(Missing \ Linking)
    BY <1>12, <2>1, FS_Subset
  <2>3. IsFiniteSet(Missing' \ Linking')
    BY <1>12, <2>1, FS_Subset
  <2>4. Cardinality(Missing' \ Linking') \in Nat /\ Cardinality(Missing \ Linking) \in Nat
    BY <2>1, <2>3, FS_CardinalityType
  <2>5. Cardinality(Missing \ Linking) <= crashes /\ crashes \in Nat
    BY DEF LossInv, Typed
  <2>6. QED
    BY <2>2, <2>4, <2>5
<1>14. QED
  BY <1>9, <1>13

\* A crash may cost the video that was being linked.
LEMMA CrashLinks ==
    ASSUME Typed, LinkInv, LossInv, Crash
    PROVE  LinkInv' /\ LossInv'
<1>1. /\ \A c \in Calls : th'[c].pc # "link"
      /\ UNCHANGED <<published, disk, writable>> /\ store' = disk /\ crashes' = crashes + 1
  BY Constants DEF Crash
<1>2. LinkInv'
  BY <1>1 DEF LinkInv, Filing
<1>3. Missing' = Missing /\ Linking' = {}
  BY <1>1 DEF Missing, Linking, OnFile
<1>4. LossInv'
  <2> SUFFICES ASSUME writable PROVE Cardinality(Missing) <= crashes + 1
    BY <1>1, <1>3 DEF LossInv
  <2>1. Cardinality(Missing \ Linking) <= crashes /\ crashes \in Nat
    BY DEF LossInv, Typed
  <2>2. PICK x : Linking \subseteq {x}
    BY DEF Linking
  <2>3. Cardinality(Missing \ {x}) <= Cardinality(Missing \ Linking)
        /\ Cardinality(Missing \ Linking) \in Nat
    <3>1. IsFiniteSet(Missing \ Linking)
      BY MissingFinite, FS_Subset
    <3>2. Missing \ {x} \subseteq Missing \ Linking
      BY <2>2
    <3>3. QED
      BY <3>1, <3>2, FS_Subset, FS_CardinalityType
  <2>4. /\ Cardinality(Missing) \in Nat /\ Cardinality(Missing \ {x}) \in Nat
        /\ Cardinality(Missing) <= Cardinality(Missing \ {x}) + 1
    BY MissingFinite, OneMore, Zenon
  <2>5. QED
    BY <2>1, <2>3, <2>4
<1>5. QED
  BY <1>2, <1>4

\* Every step keeps what is known of the links.
LEMMA LinkStep ==
    ASSUME Typed, JobInv, GateInv, LinkInv, LossInv, [Next]_vars
    PROVE  LinkInv' /\ LossInv'
<1>1. ASSUME NEW c \in Calls, NEW shape \in JobShapes, StartUpload(c, shape)
     PROVE  LinkInv' /\ LossInv'
  BY <1>1, StartUploadEffect, OwnLink DEF StartUpload, links, history
<1>2. ASSUME NEW c \in Calls, RetryClicked(c) PROVE LinkInv' /\ LossInv'
  BY <1>2, RetryClickedEffect, OwnLink DEF RetryClicked, links, history
<1>3. ASSUME NEW c \in Calls, ClaimGranted(c) PROVE LinkInv' /\ LossInv'
  <2>1. /\ Others(c) /\ th[c].pc # "link"
        /\ th'[c].pc = IF th[c].pc = "claimStart" THEN "dispatch" ELSE "redispatch"
    BY <1>3, ClaimGrantedEffect DEF ClaimGranted
  <2>2. UNCHANGED <<published, store, disk, writable, crashes>>
    BY <1>3 DEF ClaimGranted, links
  <2>3. QED
    BY <2>1, <2>2, OwnLink, Zenon
<1>4. ASSUME NEW c \in Calls, ClaimRefused(c) PROVE LinkInv' /\ LossInv'
  BY <1>4, Constants, ClaimRefusedEffect, OwnLink DEF ClaimRefused, links, history
<1>5. ASSUME NEW c \in Calls, Dispatch(c) PROVE LinkInv' /\ LossInv'
  BY <1>5, DispatchEffect, OwnLink DEF Dispatch, links, history
<1>6. ASSUME NEW c \in Calls, Confirm(c) PROVE LinkInv' /\ LossInv'
  BY <1>6, ConfirmEffect, OwnLink DEF Confirm, links, history
<1>7a. ASSUME NEW c \in Calls, SignIn(c) PROVE LinkInv' /\ LossInv'
  BY <1>7a, SignInEffect, OwnLink DEF SignIn, Credentials, Consent, links, history
<1>7. ASSUME NEW c \in Calls, Prepare(c) PROVE LinkInv' /\ LossInv'
  BY <1>7, PrepareEffect, OwnLink DEF Prepare, links, history
<1>8. ASSUME NEW c \in Calls, Poll(c) PROVE LinkInv' /\ LossInv'
  BY <1>8, PollEffect, OwnLink DEF Poll, links, history
<1>9. ASSUME NEW c \in Calls, ChunkSent(c) \/ ChunkRetried(c) PROVE LinkInv' /\ LossInv'
  BY <1>9, ChunkEffect, OwnLink DEF ChunkSent, ChunkRetried, links, history
<1>10. ASSUME NEW c \in Calls, LastChunkSent(c) PROVE LinkInv' /\ LossInv'
  BY <1>10, LastChunkLinks
<1>11. ASSUME NEW c \in Calls, NEW retryable \in BOOLEAN, UploadFailed(c, retryable)
     PROVE  LinkInv' /\ LossInv'
  BY <1>11, UploadFailedEffect, OwnLink DEF UploadFailed, links, history
<1>12. ASSUME NEW c \in Calls, Link(c) PROVE LinkInv' /\ LossInv'
  BY <1>12, LinkLinks
<1>13. ASSUME NEW c \in Calls, UploadDone(c) PROVE LinkInv' /\ LossInv'
  BY <1>13, UploadDoneEffect, OwnLink DEF UploadDone, links, history
<1>14. ASSUME NEW c \in Calls, Release(c) PROVE LinkInv' /\ LossInv'
  BY <1>14, Constants, ReleaseEffect, OwnLink DEF Release, links, history
<1>15. CASE CancelUpload
  BY <1>15, Elsewhere DEF CancelUpload, links, history
<1>16. CASE HandoffTaken
  BY <1>16, Elsewhere DEF HandoffTaken, links, history
<1>17. CASE HandoffGivenBack
  BY <1>17, Elsewhere DEF HandoffGivenBack, links, history
<1>18. CASE Crash
  BY <1>18, CrashLinks
<1>19. CASE UNCHANGED vars
  BY <1>19, Elsewhere DEF vars, links, history
<1>20. QED
  BY <1>1, <1>2, <1>3, <1>4, <1>5, <1>6, <1>7a, <1>7, <1>8, <1>9, <1>10,
     <1>11, <1>12, <1>13, <1>14, <1>15, <1>16, <1>17, <1>18, <1>19, Cases

\* A worker leaves the top of its loop only because of a stop.
LEMMA OnlyAStopEnds ==
    ASSUME Typed, JobInv, LinkInv,
           NEW d \in Calls, th[d].pc = "poll", th'[d].pc = "release", [Next]_vars
    PROVE  cancel
<1>1. ASSUME NEW c \in Calls, NEW shape \in JobShapes, StartUpload(c, shape) PROVE cancel
  BY <1>1, StartUploadEffect DEF StartUpload, Others
<1>2. ASSUME NEW c \in Calls, RetryClicked(c) PROVE cancel
  BY <1>2, RetryClickedEffect DEF RetryClicked, Others
<1>3. ASSUME NEW c \in Calls, ClaimGranted(c) PROVE cancel
  BY <1>3, ClaimGrantedEffect DEF ClaimGranted, Others
<1>4. ASSUME NEW c \in Calls, ClaimRefused(c) PROVE cancel
  BY <1>4, Constants, ClaimRefusedEffect DEF ClaimRefused, Others
<1>5. ASSUME NEW c \in Calls, Dispatch(c) PROVE cancel
  BY <1>5, DispatchEffect DEF Dispatch, Others
<1>6. ASSUME NEW c \in Calls, Confirm(c) PROVE cancel
  BY <1>6, ConfirmEffect DEF Confirm, Others
<1>7a. ASSUME NEW c \in Calls, SignIn(c) PROVE cancel
  BY <1>7a, SignInEffect DEF SignIn, Credentials, Consent, Others
<1>7. ASSUME NEW c \in Calls, Prepare(c) PROVE cancel
  BY <1>7, PrepareEffect DEF Prepare, Others
<1>8. ASSUME NEW c \in Calls, Poll(c) PROVE cancel
  BY <1>8, PollEffect DEF Poll, Others
<1>9. ASSUME NEW c \in Calls, ChunkSent(c) \/ ChunkRetried(c) PROVE cancel
  BY <1>9, ChunkEffect DEF ChunkSent, ChunkRetried, Others
<1>10. ASSUME NEW c \in Calls, LastChunkSent(c) PROVE cancel
  BY <1>10, LastChunkEffect DEF LastChunkSent, Others
<1>11. ASSUME NEW c \in Calls, NEW retryable \in BOOLEAN, UploadFailed(c, retryable) PROVE cancel
  BY <1>11, UploadFailedEffect DEF UploadFailed, Others
<1>12. ASSUME NEW c \in Calls, Link(c) PROVE cancel
  BY <1>12, LinkEffect DEF Link, Others
<1>13. ASSUME NEW c \in Calls, UploadDone(c) PROVE cancel
  BY <1>13, UploadDoneEffect DEF UploadDone, Others
<1>14. ASSUME NEW c \in Calls, Release(c) PROVE cancel
  BY <1>14, Constants, ReleaseEffect DEF Release, Others
<1>15. CASE CancelUpload
  BY <1>15 DEF CancelUpload
<1>16. CASE HandoffTaken
  BY <1>16 DEF HandoffTaken
<1>17. CASE HandoffGivenBack
  BY <1>17 DEF HandoffGivenBack
<1>18. CASE Crash
  BY <1>18, Constants DEF Crash
<1>19. CASE UNCHANGED vars
  BY <1>19 DEF vars
<1>20. QED
  BY <1>1, <1>2, <1>3, <1>4, <1>5, <1>6, <1>7a, <1>7, <1>8, <1>9, <1>10,
     <1>11, <1>12, <1>13, <1>14, <1>15, <1>16, <1>17, <1>18, <1>19, Cases

-----------------------------------------------------------------------------
(* The theorems *)

\* Initially there is no job and no video, and no call is under way.
LEMMA InitInv == Init => IInv
<1> SUFFICES ASSUME Init PROVE IInv
  OBVIOUS
<1>1. Typed
  <2>1. th \in [Calls -> Thread] /\ retryState \in Session
    BY Constants DEF Init
  <2>2. jobs \in Seq(Jobs) /\ published \in Seq(Video) /\ store \in Table /\ disk \in Table
    BY DEF Init, Table, NoVideo
  <2>3. QED
    BY <2>1, <2>2 DEF Init, Typed, GateTypeOK, GateInit
<1>2. \A c \in Calls : th[c] = Idle
  BY DEF Init
<1>3. JobInv
  BY <1>2, Constants DEF Init, JobInv, Placed, Places, KeptPlaced, NoRetry
<1>4. GateInv /\ StopInv
  BY <1>2, Constants DEF Init, GateInv, StopInv, Stopped, Claimed, ClaimedPcs
<1>5. SoundInv
  BY <1>2, Constants DEF Init, SoundInv, Sound, PastConfirm, KeptSound, KeptSessionHasItsFile,
     NoRetry, PublishedSound, PublishedWasConfirmed
<1>6. LinkInv
  BY <1>2, Constants DEF Init, LinkInv, Filing, NoVideo
<1>7. LossInv
  <2>1. Missing = {}
    BY DEF Init, Missing
  <2>2. Cardinality({}) = 0
    BY FS_EmptySet
  <2>3. Missing \ Linking = {}
    BY <2>1
  <2>4. Cardinality(Missing \ Linking) = 0 /\ crashes = 0
    BY <2>2, <2>3, Zenon DEF Init
  <2>5. QED
    BY <2>4 DEF LossInv
<1>8. QED
  BY <1>1, <1>3, <1>4, <1>5, <1>6, <1>7 DEF IInv

\* The inductive invariant holds in every state of the program.
THEOREM Invariance == Spec => []IInv
<1>1. IInv /\ [Next]_vars => IInv'
  BY TypedStep, JobInvStep, GateStep, SoundStep, StopStep, LinkStep DEF IInv
<1>2. QED
  BY InitInv, <1>1, PTL DEF Spec

\* Every variable, and every local of a call, keeps its type.
THEOREM TypeCorrect == Spec => []TypeOK
<1>1. IInv => TypeOK
  <2> SUFFICES ASSUME IInv PROVE TypeOK
    OBVIOUS
  <2>1. \A c \in Calls :
          /\ th[c].pc \in Pcs
          /\ th[c].job \in 0 .. Len(jobs)
          /\ th[c].pc # "idle" => th[c].job # NoJob
          /\ th[c].pc \in {"poll", "chunk", "link"} => th[c].index \in DOMAIN Job(c).items
          /\ th[c].request \in 0 .. Chunks
          /\ th[c].attempts \in 0 .. MaxAttempts - 1
    <3> SUFFICES ASSUME NEW c \in Calls
                 PROVE  /\ th[c].pc \in Pcs /\ th[c].job \in 0 .. Len(jobs)
                        /\ th[c].pc # "idle" => th[c].job # NoJob
                        /\ th[c].pc \in {"poll", "chunk", "link"} =>
                              th[c].index \in DOMAIN Job(c).items
                        /\ th[c].request \in 0 .. Chunks
                        /\ th[c].attempts \in 0 .. MaxAttempts - 1
      OBVIOUS
    <3>1. th[c] \in Thread /\ Placed(c)
      BY DEF IInv, Typed, JobInv
    <3>2. th[c].pc # "idle" => th[c].job \in 1..Len(jobs)
      BY <3>1, JobFacts DEF IInv, Placed
    <3>3. th[c].pc = "idle" => th[c].job = NoJob
      BY DEF IInv, JobInv, Placed
    <3>4. QED
      BY <3>1, <3>2, <3>3, JobFacts DEF IInv, Thread, Placed, Places, Job, NoJob
  <2>2. retryState.job \in 0 .. Len(jobs) /\ retryState.request \in 0 .. Chunks
    BY JobFacts DEF IInv, Typed, Session, JobInv, KeptPlaced, NoRetry, NoJob
  <2>3. QED
    BY <2>1, <2>2 DEF IInv, Typed, TypeOK, LinkInv, StopInv, Jobs
<1>2. QED
  BY Invariance, <1>1, PTL

\* Nothing reaches the channel that the user has not confirmed: not by a Retry, whose
\* second run asks nothing, and not by two overlapping calls (_confirm_then_upload).
THEOREM PublishedWasConfirmedAlways == Spec => []PublishedWasConfirmed
<1>1. IInv => PublishedWasConfirmed
  BY DEF IInv, SoundInv, PublishedSound
<1>2. QED
  BY Invariance, <1>1, PTL

\* The session a failure keeps for the Retry button is one that can be resumed.
THEOREM KeptSessionHasItsFileAlways == Spec => []KeptSessionHasItsFile
<1>1. IInv => KeptSessionHasItsFile
  BY DEF IInv, SoundInv, KeptSound
<1>2. QED
  BY Invariance, <1>1, PTL

\* Each crash costs the links of the one video that was being linked, at most.
THEOREM LinksSurviveCrashAlways == Spec => []LinksSurviveCrash
<1>1. IInv => LinksSurviveCrash
  <2> SUFFICES ASSUME IInv, writable
               PROVE  Cardinality(Missing) <= crashes + Cardinality({c \in Calls : th[c].pc = "link"})
    BY DEF LinksSurviveCrash, Missing
  <2> DEFINE L == {c \in Calls : th[c].pc = "link"}
  <2>1. /\ Typed /\ GateInv /\ crashes \in Nat
        /\ Cardinality(Missing \ Linking) <= crashes
    BY DEF IInv, LossInv, Typed
  <2>2. CASE L = {}
    <3>1. Missing \ Linking = Missing /\ Cardinality(L) = 0
      BY <2>2, FS_EmptySet DEF Linking
    <3>2. QED
      BY <2>1, <3>1
  <2>3. ASSUME NEW c \in L PROVE Cardinality(Missing) <= crashes + Cardinality(L)
    <3>1. L = {c} /\ Linking = {Len(published)}
      BY <2>1, <2>3, OneLinks DEF Linking, Claimed, ClaimedPcs
    <3>2. Cardinality(L) = 1
      BY <3>1, FS_Singleton
    <3>3. /\ Cardinality(Missing) \in Nat /\ Cardinality(Missing \ Linking) \in Nat
          /\ Cardinality(Missing) <= Cardinality(Missing \ Linking) + 1
      BY <2>1, <3>1, MissingFinite, OneMore, Zenon
    <3>4. QED
      BY <2>1, <3>2, <3>3
  <2>4. QED
    BY <2>2, <2>3
<1>2. QED
  BY Invariance, <1>1, PTL

\* A stop ends the job that was running when it was clicked, and no job after it.
THEOREM StopEndsItsOwnJobAlways == Spec => StopEndsItsOwnJob
<1> DEFINE Own == \A c \in Calls : th[c].pc = "poll" /\ th'[c].pc = "release" => clickRun = runs
<1>1. IInv /\ [Next]_vars => [Own]_vars
  <2> SUFFICES ASSUME IInv, [Next]_vars, NEW d \in Calls, th[d].pc = "poll", th'[d].pc = "release"
               PROVE  clickRun = runs
    OBVIOUS
  <2>1. cancel
    BY OnlyAStopEnds DEF IInv
  <2>2. QED
    BY <2>1 DEF IInv, StopInv, Stopped, Claimed, ClaimedPcs
<1>2. QED
  BY Invariance, <1>1, PTL DEF Spec, StopEndsItsOwnJob
=============================================================================
