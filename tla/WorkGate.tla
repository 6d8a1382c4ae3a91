------------------------------ MODULE WorkGate ------------------------------
(***************************************************************************)
(* The work gate: the one arbiter of the process between its work tenants  *)
(* (upload, stitch and clip workers), the update handoff and Quit.         *)
(*                                                                         *)
(* Each operation of class WorkGate runs under the gate's own lock, so it  *)
(* is one atomic action here.  A claim is split into the condition under   *)
(* which it is granted (Can...) and the transition it makes; a refused     *)
(* claim changes nothing.                                                  *)
(***************************************************************************)

CONSTANT Phases          \* the phase names the updater passes to claim_handoff

VARIABLES
    upload,              \* WorkGate._upload: a work tenant holds the gate
    handoff,             \* WorkGate._handoff: the updater's phase, NoPhase if none
    quitting             \* WorkGate._quitting: the process is on its way out

gate == <<upload, handoff, quitting>>

NoPhase == "none"        \* the empty string of the code

ASSUME PhasesAssumption == NoPhase \notin Phases

GateTypeOK ==
    /\ upload \in BOOLEAN
    /\ handoff \in Phases \cup {NoPhase}
    /\ quitting \in BOOLEAN

GateInit ==
    /\ upload = FALSE
    /\ handoff = NoPhase
    /\ quitting = FALSE

-----------------------------------------------------------------------------
(* Work tenants. *)

\* Mutant: a work claim that does not look at the update handoff.
CanClaimUploadInHandoff == ~quitting /\ ~upload

CanClaimUpload ==
    /\ handoff = NoPhase
    /\ ~quitting
    /\ ~upload

ClaimUpload ==
    /\ CanClaimUpload
    /\ upload' = TRUE
    /\ UNCHANGED <<handoff, quitting>>

ReleaseUpload ==
    /\ upload' = FALSE
    /\ UNCHANGED <<handoff, quitting>>

-----------------------------------------------------------------------------
(* The updater.  Its owner advances the phase by claiming again. *)

\* Mutant: the updater takes the handoff over a running job.
CanClaimHandoffOverWork == ~quitting

CanClaimHandoff ==
    /\ ~upload
    /\ ~quitting

ClaimHandoff(phase) ==
    /\ CanClaimHandoff
    /\ handoff' = phase
    /\ UNCHANGED <<upload, quitting>>

ReleaseHandoff ==
    /\ handoff' = NoPhase
    /\ UNCHANGED <<upload, quitting>>

\* begin_update_shutdown: quits under the handoff, and only under it.
BeginUpdateShutdown ==
    /\ quitting' = (quitting \/ handoff # NoPhase)
    /\ UNCHANGED <<upload, handoff>>

-----------------------------------------------------------------------------
(* Quit.  Once granted it is never taken back. *)

\* Mutant: Quit does not ask about the running job.
CanClaimQuitUnasked(force) == quitting \/ handoff = NoPhase

\* Mutant: Quit is granted under an update handoff.
CanClaimQuitInHandoff(force) == quitting \/ (upload => force)

CanClaimQuit(force) ==
    \/ quitting
    \/ /\ handoff = NoPhase
       /\ upload => force

ClaimQuit(force) ==
    /\ CanClaimQuit(force)
    /\ quitting' = TRUE
    /\ UNCHANGED <<upload, handoff>>
=============================================================================
