---------------------------- MODULE CropStore ----------------------------
(***************************************************************************)
(* The crop store of src/wingman/preview/cropstore.py: the committed crop  *)
(* definitions in memory, the settings document behind them, one lazily    *)
(* started worker that owns every disk write, and a metadata lock that is  *)
(* never held over disk I/O.  A write is therefore three critical sections *)
(* (admission, save, commit) between which fences, cancellations, moves of *)
(* the live window and settings imports may arrive.                        *)
(*                                                                         *)
(* A definition is the operation that last selected its source, its window *)
(* rectangle and whether it is enabled.  A rectangle is the sequence       *)
(* number of the move that put the window there, 0 where it was first      *)
(* placed; names, pixels and error texts are left out.  This module has    *)
(* the store's operations; CropWindows adds the host and the pump that     *)
(* call them and the specification.                                        *)
(***************************************************************************)
EXTENDS Integers, Sequences, FiniteSets

CONSTANTS
    Names,          \* characters that may have a crop
    MaxOps,         \* bound: operations begun
    MaxMoves,       \* bound: moves of live crop windows
    MaxRosters,     \* bound: roster snapshots published
    MaxEpoch,       \* bound: epochs opened (starts of the pump)
    MaxFaults,      \* bound: saves, flushes and worker starts that fail
    MaxImports      \* bound: settings imports

ASSUME CropBounds ==
    /\ {MaxOps, MaxMoves, MaxRosters, MaxEpoch} \subseteq Nat \ {0}
    /\ {MaxFaults, MaxImports} \subseteq Nat

OpIds == 1..MaxOps
Barriers == 1..(MaxEpoch + 1)               \* a drain for each epoch, and the close
Imported == MaxOps + 1                      \* the source of an imported crop

Definition == [source : 0..Imported, window : 0..MaxMoves, enabled : BOOLEAN]
NoCrop == [source |-> -1, window |-> 0, enabled |-> FALSE]
Exists(d) == d # NoCrop

Move == [gen : 0..MaxOps, seq : 1..MaxMoves, era : 0..MaxImports,
         timer : BOOLEAN]
NoMove == [gen |-> -1, seq |-> 0, era |-> 0, timer |-> FALSE]

Operation == [name : Names, kind : {"select", "enable", "disable", "remove"},
              session : 0..MaxRosters, epoch : 1..MaxEpoch, gen : 1..MaxOps,
              geoSeq : 0..MaxMoves, value : 0..MaxMoves, submitted : BOOLEAN,
              admitted : BOOLEAN, result : {"pending", "ok", "failed"}]

\* Queue items: ["op" | "flush" | "barrier", operation or barrier, names, closing]
OpItem(i) == [kind |-> "op", id |-> i, names |-> {}, closing |-> FALSE]
FlushItem(S) == [kind |-> "flush", id |-> 0, names |-> S, closing |-> FALSE]
BarrierItem(b, c) == [kind |-> "barrier", id |-> b, names |-> {}, closing |-> c]
NoItem == FlushItem({})

VARIABLES
    defs,       \* _definitions
    gens,       \* _generations; -1: the name has none
    reserved,   \* _reserved
    ops,        \* _operations, one record per id begun
    queue,      \* _queue
    started,    \* _executor is not None
    worker,     \* where _run is: pc, item, names left, captured definition and move
    epoch, fenced, rosterSeen, sessions,    \* _epoch, _fenced, _roster_generation, _sessions
    dirty,      \* _dirty
    seqs,       \* _sequences; 0: none
    flushOk,    \* _flush_ok
    barriers,   \* the futures of drain and close
    closing,    \* _close_future is not None
    disk,       \* the crops section of the saved settings document
    saved,      \* history: operations whose save reached the disk
    owed,       \* history: the last accepted move the store must not lose
    faults, imports

storeVars == <<defs, gens, reserved, ops, queue, started, worker, epoch, fenced,
               rosterSeen, sessions, dirty, seqs, flushOk, barriers, closing,
               disk, saved, owed, faults, imports>>

Idle == [pc |-> "idle", item |-> NoItem, left |-> {}, def |-> NoCrop, seq |-> 0, err |-> FALSE]

\* The store over a saved document: generation 0 for each crop it holds.
StoreInit ==
    /\ disk \in [Names -> {NoCrop, [source |-> 0, window |-> 0, enabled |-> TRUE]}]
    /\ defs = disk
    /\ gens = [n \in Names |-> IF Exists(disk[n]) THEN 0 ELSE -1]
    /\ reserved = [n \in Names |-> 0]
    /\ ops = <<>> /\ queue = <<>> /\ started = FALSE /\ worker = Idle
    /\ epoch = 0 /\ fenced = TRUE /\ rosterSeen = 0
    /\ sessions = [n \in Names |-> 0]
    /\ dirty = [n \in Names |-> NoMove] /\ seqs = [n \in Names |-> 0]
    /\ flushOk = TRUE /\ barriers = <<>> /\ closing = FALSE
    /\ saved = {} /\ owed = [n \in Names |-> 0] /\ faults = 0 /\ imports = 0

-----------------------------------------------------------------------------
(* Authority of a token bound to a client session *)

Authorized(op, e, f, s) ==
    op.session = 0 \/ (op.epoch = e /\ ~f /\ s[op.name] = op.session)

Fail(op) == [op EXCEPT !.result = "failed"]
Undecided(op) == op.result = "pending" /\ ~op.admitted

\* Every undecided operation that lost its source is answered at once.
CancelStale(e, f, s) ==
    [i \in DOMAIN ops |-> IF Undecided(ops[i]) /\ ~Authorized(ops[i], e, f, s)
                          THEN Fail(ops[i]) ELSE ops[i]]

OpenEpoch(e) ==
    /\ ~closing /\ e > epoch
    /\ epoch' = e /\ fenced' = FALSE /\ rosterSeen' = 0
    /\ sessions' = [n \in Names |-> 0]
    /\ ops' = CancelStale(e, FALSE, sessions')

\* A snapshot may arrive late: an older one, or one for an older epoch, is ignored.
ObserveRoster(e, generation, present) ==
    /\ e = epoch /\ ~fenced /\ generation > rosterSeen
    /\ rosterSeen' = generation /\ sessions' = present
    /\ ops' = CancelStale(epoch, fenced, present)

\* Mutant: what waits for its source is not answered when the source goes.
FenceForgets(e) ==
    IF e = epoch
    THEN fenced' = TRUE /\ UNCHANGED ops
    ELSE UNCHANGED <<fenced, ops>>
FenceEpoch(e) ==
    IF e = epoch
    THEN fenced' = TRUE /\ ops' = CancelStale(epoch, TRUE, sessions)
    ELSE UNCHANGED <<fenced, ops>>

Begin(n, kind, e, session) ==
    /\ ~closing
    /\ Len(ops) < MaxOps
    /\ reserved' = [reserved EXCEPT ![n] = @ + 1]
    /\ ops' = Append(ops, [name |-> n, kind |-> kind, session |-> session, epoch |-> e,
                           gen |-> reserved[n] + 1,
                           geoSeq |-> IF dirty[n] # NoMove THEN dirty[n].seq - 1 ELSE seqs[n],
                           value |-> 0, submitted |-> FALSE, admitted |-> FALSE,
                           result |-> "pending"])

\* Mutant: a cancellation wins over a write already under way.
CancelsAdmitted(i) == ops[i].result = "pending"
Cancellable(i) == Undecided(ops[i])

-----------------------------------------------------------------------------
(* The queue and the lazily started worker *)

\* The armed moves whose debounce has elapsed by now: any of them.
Armed == {n \in Names : dirty[n].timer}
Disarm(d, S) == [n \in Names |-> IF n \in S THEN [d[n] EXCEPT !.timer = FALSE] ELSE d[n]]
WithDue(q, due) == IF due = {} THEN q ELSE Append(q, FlushItem(due))

QueuedOps(q) == {q[k].id : k \in {j \in DOMAIN q : q[j].kind = "op"}}
QueuedBarriers(q) == {q[k].id : k \in {j \in DOMAIN q : q[j].kind = "barrier"}}

(* _start_locked over a queue, the operations, moves and barriers of the   *)
(* call: a worker that cannot start answers everything that was waiting.   *)
Start(q, o, d, b) ==
    \/ /\ started' = TRUE /\ queue' = q /\ ops' = o /\ dirty' = d /\ barriers' = b
       /\ UNCHANGED <<flushOk, faults>>
    \/ /\ ~started /\ faults < MaxFaults
       /\ faults' = faults + 1 /\ queue' = <<>> /\ UNCHANGED started
       /\ ops' = [i \in DOMAIN o |-> IF i \in QueuedOps(q) /\ o[i].result = "pending"
                                     THEN Fail(o[i]) ELSE o[i]]
       /\ dirty' = Disarm(d, {n \in Names : d[n] # NoMove})
       /\ barriers' = [k \in DOMAIN b |-> IF k \in QueuedBarriers(q) THEN "false" ELSE b[k]]
       /\ flushOk' = (QueuedBarriers(q) # {} \/ (flushOk /\ \A n \in Names : d[n] = NoMove))

\* put, set_enabled, remove: a decided operation is not queued again.
SubmitKeeps == UNCHANGED <<defs, gens, reserved, worker, epoch, fenced, rosterSeen,
                           sessions, seqs, closing, disk, saved, owed, imports>>
Submit(i, value) ==
    IF ops[i].result = "pending" /\ ~ops[i].submitted
    THEN /\ \E due \in SUBSET Armed :
                Start(Append(WithDue(queue, due), OpItem(i)),
                      [ops EXCEPT ![i].submitted = TRUE, ![i].value = value],
                      Disarm(dirty, due), barriers)
         /\ SubmitKeeps
    ELSE UNCHANGED storeVars

\* record_geometry: only current, enabled geometry in increasing sequence.
Accepts(n, gen, seq) ==
    ~closing /\ Exists(defs[n]) /\ defs[n].enabled /\ gens[n] = gen /\ seq > seqs[n]
RecordGeometry(n, gen, seq, era) ==
    /\ Accepts(n, gen, seq)
    /\ seqs' = [seqs EXCEPT ![n] = seq]
    /\ owed' = [owed EXCEPT ![n] = seq]
    /\ Start(queue, ops, [dirty EXCEPT ![n] = [gen |-> gen, seq |-> seq, era |-> era,
                                               timer |-> TRUE]], barriers)
    /\ UNCHANGED <<defs, gens, reserved, worker, epoch, fenced, rosterSeen, sessions,
                   closing, disk, saved, imports>>

BarrierKeeps == UNCHANGED <<defs, gens, reserved, worker, epoch, rosterSeen, sessions,
                            seqs, disk, saved, owed, imports>>

\* After close, drain only returns the close future.
Drain ==
    /\ ~closing
    /\ Start(Append(queue, BarrierItem(Len(barriers) + 1, FALSE)), ops, dirty,
             Append(barriers, "pending"))
    /\ UNCHANGED <<closing, fenced>> /\ BarrierKeeps

\* close: fence, answer what was never submitted or needs a source, then queue the last barrier.
CloseCancels ==
    [i \in DOMAIN ops |-> IF Undecided(ops[i]) /\ (~ops[i].submitted \/ ops[i].session # 0)
                          THEN Fail(ops[i]) ELSE ops[i]]
Close ==
    /\ ~closing
    /\ closing' = TRUE /\ fenced' = TRUE
    /\ Start(Append(queue, BarrierItem(Len(barriers) + 1, TRUE)), CloseCancels, dirty,
             Append(barriers, "pending"))
    /\ BarrierKeeps

-----------------------------------------------------------------------------
(* The worker: the loop of _run, and the three sections of each write *)

To(w) == worker' = w
WorkKeeps == UNCHANGED <<epoch, fenced, rosterSeen, sessions, reserved, closing, seqs, imports>>
\* A step that only moves the worker along.
OnlyWorker(w) ==
    /\ To(w)
    /\ UNCHANGED <<defs, gens, ops, queue, started, dirty, flushOk, barriers, disk,
                   saved, owed, faults>>
    /\ WorkKeeps

\* Moves that fell due while it worked are queued behind what already waits.
Take ==
    /\ started /\ worker.pc = "idle"
    /\ \E due \in SUBSET Armed :
       LET todo == WithDue(queue, due)
           item == Head(todo) IN
       /\ todo # <<>>
       /\ queue' = Tail(todo) /\ dirty' = Disarm(dirty, due)
       /\ To([Idle EXCEPT !.pc = IF item.kind = "op" THEN "admit" ELSE "flush",
                          !.item = item,
                          !.left = IF item.kind = "barrier"
                                   THEN {n \in Names : dirty[n] # NoMove} ELSE item.names])
    /\ UNCHANGED <<defs, gens, ops, started, flushOk, barriers, disk, saved, owed, faults>>
    /\ WorkKeeps

\* What an admitted operation will write, NoCrop to remove the name.
Wanted(op) ==
    LET n == op.name
        prev == defs[n]
        put == [source |-> 0, enabled |-> TRUE,
                window |-> IF Exists(prev) /\ prev.enabled /\ seqs[n] > op.geoSeq
                           THEN prev.window ELSE op.value]
        base == CASE op.kind = "select" -> [put EXCEPT !.source = worker.item.id]
                  [] op.kind = "enable" -> [prev EXCEPT !.enabled = TRUE]
                  [] op.kind = "disable" -> [prev EXCEPT !.enabled = FALSE]
                  [] OTHER -> NoCrop
    IN  IF op.kind # "remove" /\ dirty[n] # NoMove
        THEN [base EXCEPT !.window = dirty[n].seq] ELSE base

\* Mutant: a missing crop can be switched on.
RefusedExisting(op) ==
    op.result # "pending" \/ ~Authorized(op, epoch, fenced, sessions)
Refused(op) ==
    \/ op.result # "pending"
    \/ ~Authorized(op, epoch, fenced, sessions)
    \/ op.kind \in {"enable", "disable"} /\ ~Exists(defs[op.name])

\* _write, first section: inside the settings transaction, under the metadata lock.
Admit ==
    /\ worker.pc = "admit"
    /\ LET i == worker.item.id
           op == ops[i] IN
       IF Refused(op)
       THEN OnlyWorker([worker EXCEPT !.pc = "commit", !.err = TRUE])
       ELSE /\ ops' = [ops EXCEPT ![i].admitted = TRUE]
            /\ To([worker EXCEPT !.pc = "save", !.def = Wanted(op), !.seq = dirty[op.name].seq])
            /\ UNCHANGED <<defs, gens, queue, started, dirty, flushOk, barriers, disk,
                           saved, owed, faults>>
            /\ WorkKeeps

\* Mutant: the error of a failed save is lost.
SaveErrorLost == [worker EXCEPT !.pc = "commit"]
SaveFailed == [worker EXCEPT !.pc = "commit", !.err = TRUE]

\* The transaction ends: the document is on disk, or it is rolled back.
Save ==
    /\ worker.pc = "save"
    /\ \/ /\ disk' = [disk EXCEPT ![ops[worker.item.id].name] = worker.def]
          /\ saved' = saved \cup {worker.item.id}
          /\ To([worker EXCEPT !.pc = "commit"]) /\ UNCHANGED faults
       \/ /\ faults < MaxFaults /\ faults' = faults + 1
          /\ To(SaveFailed) /\ UNCHANGED <<disk, saved>>
    /\ UNCHANGED <<defs, gens, ops, queue, started, dirty, flushOk, barriers, owed>>
    /\ WorkKeeps

\* Mutant: a move that arrived during the save keeps the replaced generation.
RebaseForgotten(n, def, seq, gen) ==
    IF dirty[n] = NoMove \/ ~Exists(def) \/ ~def.enabled \/ dirty[n].seq = seq
    THEN NoMove ELSE dirty[n]
\* A move pending when a write commits: spent, dropped, or owned by the replacement.
Rebase(n, def, seq, gen) ==
    IF dirty[n] = NoMove \/ ~Exists(def) \/ ~def.enabled \/ dirty[n].seq = seq
    THEN NoMove ELSE [dirty[n] EXCEPT !.gen = gen]

\* _write, last section: publish the outcome the disk already has.
Commit ==
    /\ worker.pc = "commit"
    /\ To(Idle)
    /\ LET i == worker.item.id
           n == ops[i].name
           def == worker.def IN
       CASE ops[i].result # "pending" ->
                UNCHANGED <<ops, defs, gens, dirty, owed>>
         [] ops[i].result = "pending" /\ worker.err ->
                ops' = [ops EXCEPT ![i].result = "failed"] /\ UNCHANGED <<defs, gens, dirty, owed>>
         [] OTHER ->
                /\ ops' = [ops EXCEPT ![i].result = "ok"]
                /\ defs' = [defs EXCEPT ![n] = def]
                /\ gens' = [gens EXCEPT ![n] = ops[i].gen]
                /\ dirty' = [dirty EXCEPT ![n] = Rebase(n, def, worker.seq, ops[i].gen)]
                /\ owed' = [owed EXCEPT ![n] =
                       IF \/ ~Exists(def) \/ ~def.enabled
                          \/ ops[i].kind = "select" /\ owed[n] <= ops[i].geoSeq
                       THEN 0 ELSE @]
    /\ UNCHANGED <<queue, started, flushOk, barriers, disk, saved, faults>>
    /\ WorkKeeps

(* _flush_geometry, one name at a time *)

Flushable(n) ==
    /\ dirty[n] # NoMove
    /\ Exists(defs[n]) /\ defs[n].enabled /\ dirty[n].gen = gens[n]
FlushAdmit(n) ==
    /\ worker.pc = "flush" /\ n \in worker.left
    /\ IF Flushable(n)
       THEN OnlyWorker([worker EXCEPT !.pc = "flushSave", !.left = @ \ {n},
                                      !.item.names = {n}, !.seq = dirty[n].seq,
                                      !.def = [defs[n] EXCEPT !.window = dirty[n].seq]])
       ELSE OnlyWorker([worker EXCEPT !.left = @ \ {n}])

Flushing == CHOOSE n \in worker.item.names : TRUE
FlushSave ==
    /\ worker.pc = "flushSave"
    /\ LET n == Flushing IN
       \/ /\ disk' = [disk EXCEPT ![n] = worker.def]
          /\ To([worker EXCEPT !.pc = "flushCommit"])
          /\ UNCHANGED <<dirty, flushOk, faults>>
       \/ /\ faults < MaxFaults /\ faults' = faults + 1
          /\ flushOk' = FALSE
          /\ dirty' = IF dirty[n].seq = worker.seq THEN Disarm(dirty, {n}) ELSE dirty
          /\ To([worker EXCEPT !.pc = "flush"]) /\ UNCHANGED disk
    /\ UNCHANGED <<defs, gens, ops, queue, started, barriers, saved, owed>>
    /\ WorkKeeps

\* The definition captured at admission is published without looking again.
FlushCommit ==
    /\ worker.pc = "flushCommit"
    /\ LET n == Flushing IN
       /\ defs' = [defs EXCEPT ![n] = worker.def]
       /\ dirty' = IF dirty[n].seq = worker.seq THEN [dirty EXCEPT ![n] = NoMove] ELSE dirty
    /\ To([worker EXCEPT !.pc = "flush"])
    /\ UNCHANGED <<gens, ops, queue, started, flushOk, barriers, disk, saved, owed, faults>>
    /\ WorkKeeps

FlushDone ==
    /\ worker.pc = "flush" /\ worker.left = {}
    /\ OnlyWorker(IF worker.item.kind = "barrier" THEN [worker EXCEPT !.pc = "resolve"]
                  ELSE Idle)

\* A barrier flushes the primary layouts (may fail) and answers; the closing one ends the worker.
Resolve ==
    /\ worker.pc = "resolve"
    /\ \E ok \in {flushOk, FALSE} :
          /\ ok # flushOk => faults < MaxFaults
          /\ faults' = IF ok = flushOk THEN faults ELSE faults + 1
          /\ barriers' = [barriers EXCEPT ![worker.item.id] = IF ok THEN "true" ELSE "false"]
    /\ flushOk' = TRUE
    /\ To(IF worker.item.closing THEN [Idle EXCEPT !.pc = "exit"] ELSE Idle)
    /\ UNCHANGED <<defs, gens, ops, queue, started, dirty, disk, saved, owed>>
    /\ WorkKeeps

WorkerStep ==
    \/ Take \/ Admit \/ Save \/ Commit \/ FlushSave \/ FlushCommit \/ FlushDone \/ Resolve
    \/ \E n \in Names : FlushAdmit(n)

-----------------------------------------------------------------------------
(* A settings import replaces the document behind the store *)

LockFree == worker.pc \notin {"save", "flushSave"}

\* reload: pre-import moves and generations are dropped, reservations stay.
Reload(section) ==
    IF closing THEN UNCHANGED storeVars
    ELSE /\ defs' = section
         /\ gens' = [n \in Names |-> IF Exists(section[n]) THEN 0 ELSE -1]
         /\ dirty' = [n \in Names |-> NoMove] /\ seqs' = [n \in Names |-> 0]
         /\ owed' = [n \in Names |-> 0] /\ imports' = imports + 1
         /\ UNCHANGED <<reserved, ops, queue, started, worker, epoch, fenced, rosterSeen,
                        sessions, flushOk, barriers, closing, disk, saved, faults>>
=============================================================================
