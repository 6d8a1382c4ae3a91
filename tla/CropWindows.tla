---------------------------- MODULE CropWindows ----------------------------
(***************************************************************************)
(* The crop store with the two that drive it: the preview host            *)
(* (src/wingman/preview/host.py), which issues tokens at its ingress and   *)
(* starts and stops the pump, and the pump's crop controller               *)
(* (src/wingman/preview/cropcontroller.py), which owns the live windows    *)
(* and runs the edits of one character one after the other.                *)
(***************************************************************************)
EXTENDS CropStore

VARIABLES
    roster,     \* history of published snapshots: session of each name, 0 offline
    pump,       \* "stopped" | "running" | "asked" to stop | "stopping" | "draining"
    final,      \* the stop is the application's exit
    commands,   \* host._crop_commands: issued, not yet seen by the pump
    active,     \* controller._active; 0: none
    waiting,    \* controller._waiting, in the order of the ids
    live,       \* controller.live: the window's generation, session and import
    moves       \* host: the last geometry sequence handed out

hostVars == <<roster, pump, final, commands, active, waiting, live, moves>>
vars == <<storeVars, hostVars>>

NoWindow == [gen |-> -1, session |-> 0, era |-> 0]
Offline == [n \in Names |-> 0]

Init ==
    /\ StoreInit
    /\ roster = <<[n \in Names |-> 1]>> /\ pump = "stopped" /\ final = FALSE
    /\ commands = <<>> /\ active = [n \in Names |-> 0] /\ waiting = [n \in Names |-> {}]
    /\ live = [n \in Names |-> NoWindow] /\ moves = 0

StoreOnly == UNCHANGED hostVars
PumpKeeps == UNCHANGED <<roster, pump, final, moves>>
Now == IF roster = <<>> THEN Offline ELSE roster[Len(roster)]

\* Ids are issued in order, and edits reach the pump in that order.
Eldest(S) == CHOOSE i \in S : \A j \in S : i <= j
Pending(i) == ops[i].result = "pending"
Submitted(n) == active[n] # 0 /\ ops[active[n]].submitted
\* Completions start the next edit of the name before anything else runs, but not once
\* a stop was asked for.
Settled == pump = "running" => \A n \in Names : active[n] # 0 \/ waiting[n] = {}

-----------------------------------------------------------------------------
(* Telemetry and the host's ingress *)

\* A client logs in under a fresh session, or out.
Publish(n) ==
    /\ Len(roster) < MaxRosters
    /\ roster' = Append(roster, [Now EXCEPT ![n] = IF @ = 0 THEN Len(roster) + 1 ELSE 0])
    /\ UNCHANGED storeVars
    /\ UNCHANGED <<pump, final, commands, active, waiting, live, moves>>

\* Snapshots reach the store from several threads, in any order and for any epoch.
Deliver(e, k) ==
    /\ ObserveRoster(e, k, roster[k])
    /\ UNCHANGED <<defs, gens, reserved, queue, started, worker, epoch, fenced, dirty, seqs,
                   flushOk, barriers, closing, disk, saved, owed, faults, imports>>
    /\ StoreOnly

\* request_crop: a selection needs a session, an enable is bound to one if it is online.
Request(n, kind) ==
    /\ pump \in {"running", "stopped"} /\ ~final
    /\ kind = "select" => pump = "running" /\ Now[n] # 0
    /\ epoch > 0
    /\ Begin(n, kind, epoch,
             IF pump = "running" /\ kind \in {"select", "enable"} THEN Now[n] ELSE 0)
    /\ commands' = Append(commands, Len(ops) + 1)
    /\ UNCHANGED <<defs, gens, queue, started, worker, epoch, fenced, rosterSeen, sessions,
                   dirty, seqs, flushOk, barriers, closing, disk, saved, owed, faults, imports>>
    /\ UNCHANGED <<roster, pump, final, active, waiting, live, moves>>

\* Offline, the bridge thread hands the same tokens to the store itself.
OfflineCommand ==
    /\ pump = "stopped" /\ commands # <<>>
    /\ LET i == Head(commands) IN
       IF ops[i].session # 0
       THEN /\ ops' = IF Cancellable(i) THEN [ops EXCEPT ![i] = Fail(@)] ELSE ops
            /\ UNCHANGED <<queue, started, dirty, flushOk, barriers, faults>> /\ SubmitKeeps
       ELSE Submit(i, 0)
    /\ commands' = Tail(commands)
    /\ UNCHANGED <<active, waiting, live>> /\ PumpKeeps

\* The exit with no pump running closes the store behind the offline edits.
OfflineClose ==
    /\ pump = "stopped" /\ ~closing /\ commands = <<>>
    /\ final' = TRUE /\ Close
    /\ UNCHANGED <<roster, pump, commands, active, waiting, live, moves>>

StartPump ==
    /\ pump = "stopped" /\ ~final /\ commands = <<>>
    /\ epoch < MaxEpoch
    /\ OpenEpoch(epoch + 1)
    /\ pump' = "running"
    /\ UNCHANGED <<defs, gens, reserved, queue, started, worker, dirty, seqs, flushOk, barriers,
                   closing, disk, saved, owed, faults, imports>>
    /\ UNCHANGED <<roster, final, commands, active, waiting, live, moves>>

\* stop: fence first; the pump, if there is one, drains on its next turn.
StopPump(exit) ==
    /\ ~final
    /\ pump = "running" \/ (exit /\ pump # "stopped")
    /\ pump' = IF pump = "running" THEN "asked" ELSE pump
    /\ final' = exit
    /\ FenceEpoch(epoch)
    /\ UNCHANGED <<defs, gens, reserved, queue, started, worker, epoch, rosterSeen, sessions,
                   dirty, seqs, flushOk, barriers, closing, disk, saved, owed, faults, imports>>
    /\ UNCHANGED <<roster, commands, active, waiting, live, moves>>

-----------------------------------------------------------------------------
(* The pump: one edit of a character at a time *)

Turn == pump \in {"running", "asked"}
LiveFor(n) == live[n] # NoWindow
\* Only one picker or hidden candidate exists at a time.
Temporary == \E n \in Names : active[n] # 0 /\ Pending(active[n])
                              /\ ops[active[n]].session # 0
PumpAuthorized(op) == pump = "running" /\ op.epoch = epoch /\ Now[op.name] = op.session

\* _start: prepare the edit; what cannot be prepared is cancelled.
Discarded(op) ==
    \/ op.kind = "select" /\ (~PumpAuthorized(op) \/ Temporary)
    \/ op.kind = "enable"
       /\ \/ ~Exists(defs[op.name])
          \/ ~defs[op.name].enabled /\ op.session # 0 /\ (~PumpAuthorized(op) \/ Temporary)
StartEdit(i) ==
    LET n == ops[i].name IN
    IF Discarded(ops[i])
    THEN /\ ops' = IF Cancellable(i) THEN [ops EXCEPT ![i] = Fail(@)] ELSE ops
         /\ UNCHANGED <<queue, started, dirty, flushOk, barriers, faults, active, live>>
         /\ SubmitKeeps
    ELSE /\ active' = [active EXCEPT ![n] = i]
         /\ live' = IF ops[i].kind = "enable" /\ ~defs[n].enabled
                    THEN [live EXCEPT ![n] = NoWindow] ELSE live
         /\ IF ops[i].kind = "select" THEN UNCHANGED storeVars ELSE Submit(i, 0)

\* A newer disable or remove cancels the selections of the name that are not admitted yet.
Superseded(n, i) ==
    {j \in {active[n]} \cup waiting[n] :
        /\ ops[i].kind \in {"disable", "remove"} /\ ops[j].kind = "select" /\ Cancellable(j)}
PumpCommand ==
    /\ Turn /\ Settled /\ commands # <<>>
    /\ commands' = Tail(commands) /\ PumpKeeps
    /\ LET i == Head(commands)
           n == ops[i].name
           gone == Superseded(n, i) IN
       CASE ~Pending(i) -> UNCHANGED <<storeVars, active, waiting, live>>
         [] Pending(i) /\ active[n] = 0 -> StartEdit(i) /\ UNCHANGED waiting
         [] OTHER ->
              /\ ops' = [j \in DOMAIN ops |-> IF j \in gone THEN Fail(ops[j]) ELSE ops[j]]
              /\ active' = IF active[n] \in gone THEN [active EXCEPT ![n] = 0] ELSE active
              /\ waiting' = [waiting EXCEPT ![n] = (@ \ gone) \cup {i}]
              /\ UNCHANGED <<queue, started, dirty, flushOk, barriers, faults, live>>
              /\ SubmitKeeps

\* _advance
Advance(n) ==
    /\ pump = "running" /\ active[n] = 0 /\ waiting[n] # {}
    /\ StartEdit(Eldest(waiting[n]))
    /\ waiting' = [waiting EXCEPT ![n] = @ \ {Eldest(@)}]
    /\ UNCHANGED commands /\ PumpKeeps

\* The picker closes: with a region (_confirm) or without one.
Selecting(n) == active[n] # 0 /\ ops[active[n]].kind = "select" /\ ~ops[active[n]].submitted
Confirm(n) ==
    /\ Turn /\ Settled /\ Selecting(n)
    /\ PumpAuthorized(ops[active[n]])
    /\ Submit(active[n], IF Exists(defs[n]) THEN defs[n].window ELSE 0)
    /\ active' = IF Pending(active[n]) THEN active ELSE [active EXCEPT ![n] = 0]
    /\ UNCHANGED <<commands, waiting, live>> /\ PumpKeeps
PickerCancel(n) ==
    /\ Turn /\ Settled /\ Selecting(n)
    /\ LET i == active[n] IN
       ops' = IF Cancellable(i) THEN [ops EXCEPT ![i] = Fail(@)] ELSE ops
    /\ active' = [active EXCEPT ![n] = 0]
    /\ UNCHANGED <<queue, started, dirty, flushOk, barriers, faults>> /\ SubmitKeeps
    /\ UNCHANGED <<commands, waiting, live>> /\ PumpKeeps

Shown(n) == Exists(defs[n]) /\ defs[n].enabled /\ Now[n] # 0
Window(n, gen) == [gen |-> gen, session |-> Now[n], era |-> imports]

\* complete: the pump learns the outcome; the replacement takes the window's place, but
\* a crop that was enabled already keeps its window.
Complete(n) ==
    /\ Turn /\ Settled /\ Submitted(n) /\ ~Pending(active[n])
    /\ LET op == ops[active[n]]
           mine == op.result = "ok" /\ Shown(n) /\ gens[n] = op.gen
           kept == op.kind = "enable" /\ live[n].session = Now[n] IN
       live' = [live EXCEPT ![n] =
                  CASE mine /\ kept -> [live[n] EXCEPT !.gen = op.gen]
                    [] mine /\ ~kept /\ op.session # 0 /\ PumpAuthorized(op) ->
                           Window(n, op.gen)
                    [] OTHER -> live[n]]
    /\ active' = [active EXCEPT ![n] = 0]
    /\ UNCHANGED <<storeVars, commands, waiting>> /\ PumpKeeps

\* _reconcile: windows follow the committed generation, except under an edit being saved.
Keep(n) == /\ live[n].session = Now[n]
           /\ Submitted(n) \/ (Shown(n) /\ gens[n] = live[n].gen)
Reconcile ==
    /\ pump = "running" /\ Settled
    /\ live' = [n \in Names |->
                  CASE LiveFor(n) /\ Keep(n) -> live[n]
                    [] Shown(n) /\ ~Submitted(n) /\ gens[n] >= 0 -> Window(n, gens[n])
                    [] OTHER -> NoWindow]
    /\ live' # live
    /\ UNCHANGED <<storeVars, commands, active, waiting>> /\ PumpKeeps

(* _geometry: the user moved the live window.  When an edit is committing, *)
(* the generation it committed is tried with the same sequence.            *)
MoveWindow(n) ==
    /\ Turn /\ LiveFor(n)
    /\ moves < MaxMoves /\ moves' = moves + 1
    /\ LET committed == IF Submitted(n) /\ ops[active[n]].kind \in {"select", "enable"}
                           /\ gens[n] = ops[active[n]].gen
                        THEN gens[n] ELSE live[n].gen IN
       IF Accepts(n, live[n].gen, moves + 1) \/ Accepts(n, committed, moves + 1)
       THEN RecordGeometry(n, gens[n], moves + 1, live[n].era)
       ELSE UNCHANGED storeVars
    /\ UNCHANGED <<roster, pump, final, commands, active, waiting, live>>

-----------------------------------------------------------------------------
(* Stopping: what was accepted and needs no source is submitted, then drained *)

BeginStop ==
    /\ pump = "asked" /\ Settled
    /\ pump' = "stopping"
    /\ UNCHANGED <<storeVars, roster, final, commands, active, waiting, live, moves>>

Left == {i \in DOMAIN ops : Pending(i) /\ ~ops[i].submitted}
StopSubmit ==
    /\ pump = "stopping"
    /\ LET configs == {i \in Left : ops[i].session = 0} IN
       /\ configs # {}
       /\ Submit(Eldest(configs), 0)
    /\ StoreOnly
StopBarrier ==
    /\ pump = "stopping" /\ Left = {}
    /\ IF final THEN Close ELSE Drain
    /\ pump' = "draining" /\ commands' = <<>>
    /\ waiting' = [n \in Names |-> {}] /\ active' = [n \in Names |-> 0]
    /\ UNCHANGED <<roster, final, live, moves>>

\* The exit was asked for while an ordinary drain was under way.
LateClose ==
    /\ pump = "draining" /\ final /\ ~closing
    /\ Close /\ StoreOnly
FinishStop ==
    /\ pump = "draining" /\ barriers[Len(barriers)] # "pending" /\ (final => closing)
    /\ pump' = "stopped" /\ live' = [n \in Names |-> NoWindow]
    /\ UNCHANGED <<storeVars, roster, final, commands, active, waiting, moves>>

-----------------------------------------------------------------------------
HostStep ==
    \/ \E n \in Names : Publish(n) \/ MoveWindow(n)
    \/ \E e \in 1..epoch, k \in DOMAIN roster : Deliver(e, k)
    \/ \E n \in Names, kind \in {"select", "enable", "disable", "remove"} : Request(n, kind)
    \/ OfflineClose \/ StartPump
    \/ \E exit \in BOOLEAN : StopPump(exit)

Handlers ==
    \/ OfflineCommand \/ PumpCommand \/ Reconcile
    \/ BeginStop \/ StopSubmit \/ StopBarrier \/ LateClose \/ FinishStop
    \/ \E n \in Names : Advance(n) \/ Complete(n)
Picker == \E n \in Names : Confirm(n) \/ PickerCancel(n)
Persist == WorkerStep /\ StoreOnly

Next == HostStep \/ Handlers \/ Picker \/ Persist

\* The worker and the turns of the pump are scheduled; users and snapshots are not.
Spec == Init /\ [][Next]_vars /\ WF_vars(Persist) /\ WF_vars(Handlers)

-----------------------------------------------------------------------------
(* Properties *)

\* Every variable keeps the shape the code gives it.
TypeOK ==
    /\ defs \in [Names -> Definition \cup {NoCrop}] /\ disk \in [Names -> Definition \cup {NoCrop}]
    /\ gens \in [Names -> -1..MaxOps] /\ reserved \in [Names -> 0..MaxOps]
    /\ ops \in Seq(Operation) /\ Len(ops) <= MaxOps
    /\ \A k \in DOMAIN queue : queue[k].kind \in {"op", "flush", "barrier"}
    /\ started \in BOOLEAN /\ fenced \in BOOLEAN /\ flushOk \in BOOLEAN /\ closing \in BOOLEAN
    /\ worker.pc \in {"idle", "admit", "save", "commit", "flush", "flushSave", "flushCommit",
                      "resolve", "exit"}
    /\ worker.def \in Definition \cup {NoCrop} /\ worker.left \subseteq Names
    /\ epoch \in 0..MaxEpoch /\ sessions \in [Names -> 0..MaxRosters]
    /\ dirty \in [Names -> Move \cup {NoMove}] /\ seqs \in [Names -> 0..MaxMoves]
    /\ barriers \in Seq({"pending", "true", "false"})
    /\ saved \subseteq OpIds /\ owed \in [Names -> 0..MaxMoves]
    /\ pump \in {"stopped", "running", "asked", "stopping", "draining"} /\ final \in BOOLEAN
    /\ active \in [Names -> 0..MaxOps] /\ moves \in 0..MaxMoves

(* The answer an edit gets is the truth about the disk, whatever fence,    *)
(* cancellation, close or failed start met it on the way (_finish_locked). *)
OneTrueOutcome ==
    \A i \in DOMAIN ops :
        /\ ops[i].result = "ok" => i \in saved
        /\ ops[i].result = "failed" => i \notin saved
        /\ (ops[i].result = "pending" /\ i \in saved)
              => worker.pc = "commit" /\ worker.item.id = i /\ ~worker.err

(* What the program shows as saved is what is on disk, except between a    *)
(* save and its own commit.                                                *)
MemoryIsDisk ==
    \A n \in Names :
        \/ defs[n] = disk[n]
        \/ worker.pc = "commit" /\ ops[worker.item.id].name = n /\ worker.item.id \in saved
        \/ worker.pc = "flushCommit" /\ n \in worker.item.names

(* A move the store accepted is in the definition or still owed to the     *)
(* disk under the generation that will be let through, until the crop is   *)
(* switched off, removed, selected anew after the move, or imported.       *)
MovesSurvive ==
    \A n \in Names : owed[n] # 0 =>
        \/ dirty[n].seq = owed[n] /\ dirty[n].gen = gens[n]
        \/ dirty[n] = NoMove /\ defs[n].window = owed[n]

(* Every edit queued for the worker, every drain and the close are         *)
(* answered, and the exit answers what was never queued; an answer is not  *)
(* withdrawn, so being again and again without debt answers each of them.  *)
EveryEditAnswered ==
    []<>(/\ \A i \in DOMAIN ops : ops[i].submitted => ops[i].result # "pending"
         /\ \A b \in DOMAIN barriers : barriers[b] # "pending"
         /\ final => closing /\ \A i \in DOMAIN ops : ops[i].result # "pending")
=============================================================================
