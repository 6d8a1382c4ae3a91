------------------------- MODULE SourceAdmission -------------------------
(***************************************************************************)
(* Who may publish what Fleet telemetry says.  Four threads of             *)
(* src/wingman/telemetry share the authority of SourceAuthority:           *)
(*   - the discovery worker of clients.py (scans of the game clients),     *)
(*   - the log worker of gamelogs.py (the source a character's log is) and *)
(*     its delivery queue, drained by whoever owns delivery,               *)
(*   - the dispatcher of coordinator.py, the only consumer of the queue,   *)
(*   - the thread in TelemetryCoordinator.reconcile, which starts, stops   *)
(*     and replaces the other three.                                       *)
(*                                                                         *)
(* One character is modelled.  Its session is the number of the appearance *)
(* of its client (0: not in the roster), its source the generation of its  *)
(* log (0: none); damage, names and health are left out, a batch of facts  *)
(* has no content.  Previews and their alerts are switched as one.         *)
(***************************************************************************)
EXTENDS SourceAuthority, Sequences, FiniteSets

CONSTANTS
    MaxEvents,      \* bound: reconcile passes, scans, operations of the log worker,
                    \* failures of Fleet Metrics and the final close, together
    Folders,        \* log folders the user may choose
    FleetChoices,   \* what the user may set: Fleet or sharing on,
    PreviewChoices  \* previews with their alerts on

ASSUME AdmissionBounds ==
    /\ MaxEvents \in Nat
    /\ Folders \in 1..2
    /\ {} # FleetChoices /\ FleetChoices \subseteq BOOLEAN
    /\ {} # PreviewChoices /\ PreviewChoices \subseteq BOOLEAN

VARIABLES
    auth,       \* the authority
    queue,      \* the dispatcher's queue
    disc,       \* ClientDiscovery and its worker
    stream,     \* GameLogStream, its worker and its delivery queue
    disp,       \* the dispatcher and Fleet Metrics
    co,         \* the coordinator's own state
    pass,       \* the reconcile pass under way
    ticket,     \* the ticket a subscriber holds
    tally       \* what the bound counts
vars == <<auth, queue, disc, stream, disp, co, pass, ticket, tally>>

Kinds == {"none", "roster", "prime", "source", "facts", "mode", "refresh",
          "ready"}
Item(kind, gen, value, delivery, id) ==
    [kind |-> kind, gen |-> gen, value |-> value, d |-> delivery, id |-> id]
NoItem == Item("none", 0, 0, NoDelivery, 0)
Items == [kind : Kinds, gen : Nat, value : Nat, d : Deliveries, id : Nat]
NoTicket == [token |-> 0, session |-> 0, source |-> 0, activation |-> 0]
NoPass == [pc |-> "idle", fleet |-> FALSE, previews |-> FALSE, disc |-> FALSE,
           folder |-> 0, refresh |-> NoDelivery]
NoCompletion == [id |-> 0, gen |-> 0, st |-> "none"]

Init ==
    /\ auth = Begin(NewAuthority, "roster")
    /\ queue = <<>>
    /\ disc = [worker |-> FALSE, stopping |-> FALSE, pc |-> "idle",
               session |-> 0, seen |-> 0, gen |-> 0,
               receipt |-> Granted(auth, "roster"), op |-> NoOperation,
               latest |-> NoDelivery]
    /\ stream = [worker |-> FALSE, stopping |-> FALSE, pc |-> "idle",
                 tracked |-> 0, gens |-> 0,
                 receipt |-> NoReceipt, d |-> NoDelivery, fifo |-> <<>>,
                 drainer |-> "none", carried |-> NoItem]
    /\ disp = [worker |-> FALSE, stopping |-> FALSE, pc |-> "idle",
               item |-> NoItem, active |-> FALSE, activation |-> 0,
               rosterGen |-> 0, complete |-> FALSE, known |-> 0,
               boundary |-> 0, restated |-> {}, asked |-> FALSE, asks |-> 0,
               session |-> 0, source |-> 0,
               frontier |-> NoFrontier]
    /\ co = [requested |-> FALSE, reqGen |-> 0, control |-> NoReceipt,
             completion |-> NoCompletion, completions |-> 0,
             discOn |-> FALSE, discSub |-> FALSE,
             folder |-> 0, streamSub |-> FALSE]
    /\ pass = NoPass
    /\ ticket = NoTicket
    /\ tally = 0

---------------------------------------------------------------------------
(* The discovery worker: scan_once. *)

DiscoveryDead == disc.worker => disc.stopping /\ disc.pc = "idle"

ScanBegin ==
    /\ disc.worker /\ ~disc.stopping /\ disc.pc = "idle"
    /\ tally < MaxEvents
    /\ tally' = tally + 1
    /\ auth' = StartOperation(auth, "roster", disc.receipt.life)
    /\ disc' = [disc EXCEPT !.pc = "scan",
                            !.op = Started(auth', "roster", disc.receipt.life)]
    /\ UNCHANGED <<queue, stream, disp, co, pass, ticket>>

\* Reserves before the session map changes, under one lock.  A scan that failed
\* changes nothing.
ScanCommit ==
    /\ disc.pc = "scan"
    /\ \/ /\ disc' = [disc EXCEPT !.pc = "idle", !.op = NoOperation]
          /\ UNCHANGED auth
       \/ \E s \in {disc.session, 0, disc.seen + 1} :
        LET reserves == /\ s # disc.session
                        /\ disc.op # NoOperation
                        /\ Owns(auth, "roster", disc.op.life)
            receipt == IF reserves THEN Granted(auth', "roster")
                       ELSE disc.receipt
        IN  /\ auth' = IF reserves THEN ReserveLocked(auth, "roster") ELSE auth
            /\ disc' = [disc EXCEPT
                   !.pc = IF co.discSub THEN "deliver" ELSE "idle",
                   !.session = s, !.gen = @ + 1,
                   !.seen = IF s > @ THEN s ELSE @,
                   !.receipt = receipt, !.op = NoOperation,
                   !.latest = IF disc.op = NoOperation \/ receipt = NoReceipt
                              THEN NoDelivery
                              ELSE Delivery(disc.op, receipt, 0, FALSE)]
    /\ UNCHANGED <<queue, stream, disp, co, pass, ticket, tally>>

\* A callback captured before an unsubscribe is still called.
ScanDeliver ==
    /\ disc.pc = "deliver"
    /\ queue' = Append(queue, Item("roster", disc.gen, disc.session,
                                   disc.latest, 0))
    /\ disc' = [disc EXCEPT !.pc = "idle"]
    /\ UNCHANGED <<auth, stream, disp, co, pass, ticket, tally>>

Discovery == ScanBegin \/ ScanCommit \/ ScanDeliver

---------------------------------------------------------------------------
(* The log worker.  "work": an operation that owns _op_lock. *)

StreamDead == stream.worker => stream.stopping /\ stream.pc = "idle"
Locked == stream.pc = "work"

\* _begin_operation_locked, for the owner of a receipt and maybe a reset.
OperationOf(a, receipt, reset) ==
    LET op == Started(a, "stream", receipt.life)
    IN  IF op = NoOperation THEN NoDelivery ELSE Delivery(op, receipt, reset, FALSE)

WorkBegin ==
    /\ stream.worker /\ ~stream.stopping /\ stream.pc = "idle"
    /\ tally < MaxEvents
    /\ tally' = tally + 1
    /\ auth' = StartOperation(auth, "stream", stream.receipt.life)
    /\ stream' = [stream EXCEPT !.pc = "work",
                     !.d = OperationOf(auth', stream.receipt, 0)]
    /\ UNCHANGED <<queue, disc, disp, co, pass, ticket>>

\* _invalidate_locked: one receipt for the operation, before its mutation.
\* Mutant: the loss of a log is no mutation.
InvalidatesFinds == /\ stream.d # NoDelivery /\ Owns(auth, "stream", stream.d.op.life)
                    /\ stream.tracked = 0
Invalidates == stream.d # NoDelivery /\ Owns(auth, "stream", stream.d.op.life)

\* The source becomes g, and a batch says so under the operation's delivery.
Mutate(g) ==
    LET a == IF Invalidates THEN ReserveLocked(auth, "stream") ELSE auth
        receipt == IF Invalidates THEN Granted(a, "stream") ELSE stream.receipt
        d == IF Invalidates THEN Delivery(stream.d.op, receipt, 0, TRUE)
             ELSE stream.d
    IN  [auth |-> a,
         stream |-> [stream EXCEPT
             !.tracked = g, !.gens = IF g > @ THEN g ELSE @, !.receipt = receipt,
             !.fifo = Append(@, Item("source", 0, g, d, 0))]]

\* _drain_queue: one thread owns delivery, the others leave their batch to it.
\* Mutant: whoever has left a batch delivers.
ClaimedByAnyone(st, who) == IF st.fifo # <<>> THEN [st EXCEPT !.drainer = who]
                            ELSE st
Claimed(st, who) == IF st.fifo # <<>> /\ st.drainer = "none"
                    THEN [st EXCEPT !.drainer = who] ELSE st
WorkDone(st) ==
    LET c == Claimed([st EXCEPT !.d = NoDelivery], "worker")
    IN  [c EXCEPT !.pc = IF c.drainer = "worker" THEN "drain" ELSE "idle"]

\* _rescan (a log found, replaced or lost) and _poll (a truncated one, facts).
Work ==
    /\ stream.pc = "work"
    /\ \/ auth' = auth /\ stream' = WorkDone(stream)
       \/ /\ stream.tracked # 0
          /\ auth' = auth
          /\ stream' = WorkDone([stream EXCEPT
                          !.fifo = Append(@, Item("facts", 0, 0, stream.d, 0))])
       \/ \E g \in {0, stream.gens + 1} \ {stream.tracked} :
             /\ auth' = Mutate(g).auth
             /\ stream' = WorkDone(Mutate(g).stream)
    /\ UNCHANGED <<queue, disc, disp, co, pass, ticket, tally>>

\* The subscriber of a batch is looked up when it is taken.
\* Mutant: the owner of delivery leaves after one batch.
DrainEndsEarly(st) ==
    IF st.carried # NoItem THEN st
    ELSE [st EXCEPT !.drainer = "none",
             !.pc = IF st.drainer = "worker" THEN "idle" ELSE @]
DrainEnds(st) == IF st.fifo # <<>> \/ st.carried # NoItem THEN st
                 ELSE [st EXCEPT !.drainer = "none",
                          !.pc = IF st.drainer = "worker" THEN "idle" ELSE @]
DispatcherAfter(st) == IF disp.pc = "draining" /\ st.drainer = "none"
                       THEN [disp EXCEPT !.pc = "idle"] ELSE disp
DrainTake ==
    /\ stream.drainer # "none" /\ stream.carried = NoItem
    /\ stream' = DrainEnds([stream EXCEPT !.fifo = Tail(@),
                     !.carried = IF co.streamSub THEN Head(stream.fifo)
                                 ELSE NoItem])
    /\ disp' = DispatcherAfter(stream')
    /\ UNCHANGED <<auth, queue, disc, co, pass, ticket, tally>>
DrainPut ==
    /\ stream.drainer # "none" /\ stream.carried # NoItem
    /\ queue' = Append(queue, stream.carried)
    /\ stream' = DrainEnds([stream EXCEPT !.carried = NoItem])
    /\ disp' = DispatcherAfter(stream')
    /\ UNCHANGED <<auth, disc, co, pass, ticket, tally>>

LogWorker == WorkBegin \/ Work \/ DrainTake \/ DrainPut

---------------------------------------------------------------------------
(* The dispatcher.  It is dead once it was told to stop and is idle. *)

DispatcherDead == disp.worker => disp.stopping /\ disp.pc = "idle"
Roster(item) == item.kind \in {"roster", "prime"}
Failing == tally < MaxEvents
Failed == tally + 1

\* FleetMetrics.consume: a new session starts unbound, a lost one is dropped.
ConsumeRoster(s) == [disp EXCEPT !.session = s,
                                 !.source = IF s = disp.session THEN @ ELSE 0]
ConsumeSource(g) == [disp EXCEPT !.source = IF disp.session = 0 THEN 0 ELSE g]

\* _signal_reset, of the completion the coordinator still waits for.
Signal(id, succeeded) ==
    IF /\ id # 0 /\ id = co.completion.id
       /\ co.completion.gen = co.reqGen
       /\ ~auth.closed /\ ~disp.stopping
    THEN [co EXCEPT !.completion.st = IF succeeded THEN "ready" ELSE "failed"]
    ELSE co

Takes(item) == /\ disp.worker /\ ~disp.stopping /\ disp.pc = "idle"
               /\ queue # <<>> /\ item = Head(queue)
               /\ queue' = Tail(queue)

\* _finish_delivery: the calls of the authority for one applied batch, which
\* no producer can tell apart.
Restates(item) == disp.boundary # 0 /\ (Roster(item) \/ item.d.reset = disp.boundary)
Finish(a, d, item) ==
    LET lane == IF Roster(item) THEN "roster" ELSE "stream"
        b == RecordApplication(a, lane, item.d.op)
        c == IF Roster(item) \/ item.d.invalidates
             THEN Applied(b, lane, item.d.receipt) ELSE b
        ok == CanRestate(c, d.boundary, lane, item.d)
        e == IF Restates(item) THEN Restated(c, d.boundary, lane, item.d) ELSE c
        restated == IF ~Restates(item) THEN d.restated
                    ELSE IF ok THEN d.restated \cup {lane} ELSE d.restated \ {lane}
        reseeds == d.boundary # 0 /\ restated = Lanes
    IN  IF item.d.op = NoOperation
        THEN [auth |-> IF Roster(item) THEN a ELSE Poison(a), disp |-> d]
        ELSE [auth |-> IF reseeds THEN Reseeded(e, d.boundary) ELSE e,
              disp |-> [d EXCEPT !.restated = restated,
                           !.boundary = IF reseeds /\ CanReseed(e, @)
                                        THEN 0 ELSE @]]

\* A roster consumed, by the queue or by a priming: then its sources are asked.
ApplyRoster(a, item) ==
    LET f == Finish(a, ConsumeRoster(item.value), item) IN
    /\ auth' = f.auth
    /\ disp' = [f.disp EXCEPT !.rosterGen = item.gen, !.complete = TRUE,
                              !.pc = "republish", !.asks = item.value]

NewRoster(item) == disp.active /\ item.gen > disp.rosterGen
TakeRoster ==
    \E item \in {queue[i] : i \in 1..Len(queue)} :
      /\ Takes(item) /\ item.kind = "roster"
      /\ \/ ~NewRoster(item) /\ UNCHANGED <<auth, disp, tally>>
         \/ NewRoster(item) /\ ApplyRoster(auth, item) /\ UNCHANGED tally
         \/ /\ NewRoster(item) /\ Failing
            /\ auth' = Poison(auth) /\ tally' = Failed
            /\ UNCHANGED disp
      /\ UNCHANGED <<disc, stream, co, pass, ticket>>

TakeBatch ==
    \E item \in {queue[i] : i \in 1..Len(queue)} :
      /\ Takes(item) /\ item.kind \in {"source", "facts"}
      /\ \/ ~disp.active /\ UNCHANGED <<auth, disp, tally>>
         \/ /\ disp.active
            /\ LET f == Finish(auth, IF item.kind = "source"
                                     THEN ConsumeSource(item.value) ELSE disp, item)
               IN  auth' = f.auth /\ disp' = f.disp
            /\ UNCHANGED tally
         \/ /\ disp.active /\ Failing
            /\ auth' = Poison(auth) /\ tally' = Failed
            /\ UNCHANGED disp
      /\ UNCHANGED <<disc, stream, co, pass, ticket>>

\* _request_source_reseed asks for everything, else each new session's source.
Reseeds == /\ co.folder # 0
           /\ disp.boundary # 0
           /\ "roster" \in disp.restated
           /\ ~disp.asked

\* _process of a mode, a refresh, or the news that the stream runs.
TakeControl ==
    \E item \in {queue[i] : i \in 1..Len(queue)} :
      LET on == item.value = 1
          resets == IF item.kind = "mode" THEN on # disp.active ELSE disp.active
      IN
      /\ Takes(item)
      /\ \/ /\ item.kind \in {"mode", "refresh"} /\ resets
            /\ disp' = [disp EXCEPT !.pc = "reset", !.item = item,
                           !.active = IF item.kind = "mode" THEN on ELSE @,
                           !.activation = CASE item.kind = "refresh" -> @
                                            [] item.kind # "refresh" /\ on -> item.gen
                                            [] OTHER -> 0]
            /\ UNCHANGED co
         \/ /\ item.kind \in {"mode", "refresh"} /\ ~resets
            /\ disp' = [disp EXCEPT !.activation =
                           IF item.kind = "mode" /\ on THEN item.gen ELSE @]
            /\ co' = Signal(item.id, FALSE)
         \/ /\ item.kind = "ready"
            /\ disp' = [disp EXCEPT !.asked = @ \/ Reseeds,
                           !.pc = IF Reseeds THEN "askAll" ELSE "idle"]
            /\ UNCHANGED co
      /\ UNCHANGED <<auth, disc, stream, pass, ticket, tally>>

\* _reset_metrics.  The cut is what started before the reset was over.
Cleared(d) == [d EXCEPT !.session = 0, !.source = 0]
Cut(a) == IF a.closed THEN a ELSE ResetApplied(a, a.pending)
ResetOf(a, d) == [d EXCEPT !.boundary = Boundary(a), !.restated = {}, !.asked = FALSE]

\* _reset_fleet_state up to the priming: reset, signal, control restated.
Primes(item) == item.kind = "refresh" \/ item.value = 1
Reset ==
    /\ disp.pc = "reset"
    /\ LET item == disp.item
           a == ResetStarted(auth)
           b == Cut(a)
           receipt == item.d.receipt
           restates == item.d # NoDelivery /\ Owns(b, "control", receipt.life)
           c == StartOperation(b, "control", receipt.life)
           op == Started(c, "control", receipt.life)
           d == Delivery(op, receipt, 0, FALSE)
           e == RecordApplication(c, "control", op)
       IN  \/ /\ auth' = IF restates THEN Restated(e, Boundary(a), "control", d) ELSE b
              /\ disp' = [Cleared(ResetOf(a, disp)) EXCEPT
                     !.restated = IF restates /\ CanRestate(e, Boundary(a), "control", d)
                                  THEN {"control"} ELSE {},
                     !.known = 0, !.rosterGen = 0, !.complete = FALSE, !.item = NoItem,
                     !.pc = IF Primes(item) THEN "prime" ELSE "idle"]
              /\ co' = Signal(item.id, TRUE)
              /\ UNCHANGED tally
          \/ /\ Failing
             /\ auth' = Poison(a) /\ tally' = Failed
             /\ disp' = [ResetOf(a, disp) EXCEPT !.pc = "idle", !.item = NoItem]
             /\ co' = Signal(item.id, FALSE)
    /\ UNCHANGED <<queue, disc, stream, pass, ticket>>

\* _snapshot_admission and the roster it samples, applied.
PrimeDelivery(a) ==
    IF /\ disc.receipt # NoReceipt /\ disc.latest # NoDelivery
       /\ disc.latest.op.life = disc.receipt.life
       /\ Owns(a, "roster", disc.receipt.life)
    THEN Delivery(Started(StartOperation(a, "roster", disc.receipt.life),
                          "roster", disc.receipt.life),
                  disc.receipt, 0, FALSE)
    ELSE NoDelivery
Prime ==
    /\ disp.pc = "prime"
    /\ LET d == PrimeDelivery(auth)
           item == Item("prime", disc.gen, disc.session, d, 0)
           a == IF d = NoDelivery THEN auth
                ELSE StartOperation(auth, "roster", disc.receipt.life)
       IN  \/ /\ disc.gen = 0
              /\ auth' = a /\ disp' = [disp EXCEPT !.pc = "idle"]
              /\ UNCHANGED tally
           \/ /\ disc.gen # 0
              /\ ApplyRoster(a, item)
              /\ UNCHANGED tally
           \/ /\ disc.gen # 0 /\ Failing
              /\ auth' = Poison(a) /\ tally' = Failed
              /\ disp' = [disp EXCEPT !.pc = "idle"]
    /\ UNCHANGED <<queue, disc, stream, co, pass, ticket>>

Republish ==
    /\ disp.pc = "republish"
    /\ LET s == disp.asks IN
       disp' = [disp EXCEPT
          !.known = s, !.asks = 0,
          !.asked = @ \/ Reseeds,
          !.pc = CASE Reseeds -> "askAll"
                   [] ~Reseeds /\ co.folder # 0 /\ s # 0 /\ s # disp.known -> "askOne"
                   [] OTHER -> "idle"]
    /\ UNCHANGED <<auth, queue, disc, stream, co, pass, ticket, tally>>

\* request_source and _restate_admission: an operation and its batch under
\* _op_lock, delivered by this thread if nobody else is at it.
AskStream ==
    /\ disp.pc \in {"askAll", "askOne"}
    /\ ~Locked
    /\ auth' = StartOperation(auth, "stream", stream.receipt.life)
    /\ LET reset == IF disp.pc = "askAll" THEN disp.boundary ELSE 0
           d == OperationOf(auth', stream.receipt, reset)
           item == Item("source", 0, stream.tracked, d, 0)
       IN  stream' = Claimed([stream EXCEPT !.fifo = Append(@, item)], "disp")
    /\ disp' = [disp EXCEPT !.pc = IF stream'.drainer = "disp" THEN "draining"
                                   ELSE "idle"]
    /\ UNCHANGED <<queue, disc, co, pass, ticket, tally>>

\* _publish, once the queue was seen empty: capture, compute, seal.  A
\* subscriber may keep the ticket it has.
PublishCapture ==
    /\ disp.worker /\ ~disp.stopping /\ disp.pc = "idle" /\ queue = <<>>
    /\ disp.active /\ disp.complete
    /\ Captures(auth)
    /\ auth' = Hold(auth)
    /\ disp' = [disp EXCEPT !.pc = "seal", !.frontier = Frontier(auth)]
    /\ UNCHANGED <<queue, disc, stream, co, pass, ticket, tally>>
Sealed == [token |-> disp.frontier.token, session |-> disp.session,
           source |-> disp.source, activation |-> disp.activation]
PublishSeal ==
    /\ disp.pc = "seal"
    /\ ticket' \in IF Seals(auth, disp.frontier) THEN {ticket, Sealed} ELSE {ticket}
    /\ disp' = [disp EXCEPT !.pc = "idle", !.frontier = NoFrontier]
    /\ UNCHANGED <<auth, queue, disc, stream, co, pass, tally>>

Dispatcher == \/ TakeRoster \/ TakeBatch \/ TakeControl \/ Reset \/ Prime
              \/ Republish \/ AskStream \/ PublishCapture \/ PublishSeal

---------------------------------------------------------------------------
(* The reconcile pass. *)

WantsMetrics == pass.fleet
Starting(c, p) == ~c.discOn \/ c.folder # p.folder \/ ~c.streamSub

\* Where a pass goes next: the first step that has something to do.
DiscStops(c, p) == c.discOn /\ (~p.disc \/ ~c.discSub)
StreamStops(c, p) == c.folder # 0 /\ (p.folder # c.folder \/ ~c.streamSub)
\* Mutant: only Fleet keeps the dispatcher.
AtEndFleetOnly(p) == IF p.fleet \/ ~disp.worker THEN NoPass
                     ELSE [p EXCEPT !.pc = "end"]
AtEnd(p) == IF p.fleet \/ p.previews \/ ~disp.worker THEN NoPass
            ELSE [p EXCEPT !.pc = "end"]
AtStart(c, p) == IF p.folder # 0 /\ c.folder = 0
                 THEN [p EXCEPT !.pc = "startStream"] ELSE AtEnd(p)
AtStream(c, p) == IF StreamStops(c, p) THEN [p EXCEPT !.pc = "stream"]
                  ELSE AtStart(c, p)
AtDisc(c, p) == IF DiscStops(c, p) THEN [p EXCEPT !.pc = "disc"]
                ELSE IF p.disc /\ ~c.discOn THEN [p EXCEPT !.pc = "startDisc"]
                ELSE AtStream(c, p)
AtAwait(c, p) == IF p.fleet /\ Starting(c, p) THEN [p EXCEPT !.pc = "await"]
                 ELSE AtDisc(c, p)

\* _reserve_control_locked: the authority and receipt after it, what it returns.
ReserveControl(a, receipt) ==
    LET b == IF receipt = NoReceipt THEN Begin(a, "control") ELSE a
        r == IF receipt = NoReceipt THEN Granted(b, "control") ELSE receipt
        c == StartOperation(b, "control", r.life)
        d == Reserve(c, "control", r.life)
    IN  IF r # NoReceipt /\ Owns(b, "control", r.life)
        THEN [auth |-> d, receipt |-> Granted(d, "control"),
              delivery |-> Delivery(Started(c, "control", r.life),
                                    Granted(d, "control"), 0, FALSE)]
        ELSE [auth |-> b, receipt |-> r, delivery |-> NoDelivery]

\* _queue_control: the coordinator after it and the item it queues.
Awaited(c, item, gen) ==
    LET fresh == (item.kind = "refresh" \/ item.value = 1) /\ ~auth.closed
        id == IF fresh THEN c.completions + 1 ELSE 0
    IN  [co |-> [c EXCEPT !.completions = IF fresh THEN @ + 1 ELSE @,
                          !.completion = IF fresh
                              THEN [id |-> id, gen |-> gen, st |-> "open"]
                              ELSE NoCompletion],
         item |-> [item EXCEPT !.id = id]]

\* Preferences as they are read, then _request_fleet_mode.
Reconcile ==
    /\ pass.pc = "idle" /\ ~auth.closed
    /\ tally < MaxEvents
    /\ tally' = tally + 1
    /\ \E fleet \in FleetChoices, previews \in PreviewChoices,
          folder \in IF co.folder = 0 THEN {1} ELSE 1..Folders :
         LET wanted == fleet \/ previews
             r == ReserveControl(auth, co.control)
             gen == co.reqGen + 1
             w == Awaited([co EXCEPT !.requested = fleet, !.reqGen = gen,
                                     !.control = r.receipt],
                          Item("mode", gen, IF fleet THEN 1 ELSE 0, r.delivery, 0),
                          gen)
             p == [pc |-> "dispatcher", fleet |-> fleet, previews |-> previews,
                   disc |-> wanted, folder |-> IF wanted THEN folder ELSE 0,
                   refresh |-> NoDelivery]
         IN  /\ pass' = IF wanted THEN p ELSE AtDisc(co, p)
             /\ IF fleet = co.requested
                THEN UNCHANGED <<auth, queue, co>>
                ELSE /\ auth' = r.auth
                     /\ co' = w.co
                     /\ queue' = Append(queue, w.item)
    /\ UNCHANGED <<disc, stream, disp, ticket>>

\* _finalize_dead_dispatcher: a reset, then control and the queue are ended.
Finalized ==
    LET a == ResetStarted(auth)
        b == Cut(a)
        c == Stop(b, "control", co.control.life)
    IN  [auth |-> Stopped(c, "control", co.control.life),
         disp |-> [Cleared(disp) EXCEPT
                      !.worker = FALSE, !.stopping = FALSE, !.boundary = Boundary(a),
                      !.restated = {}, !.asked = FALSE, !.known = 0,
                      !.active = FALSE, !.activation = 0, !.rosterGen = 0,
                      !.complete = FALSE],
         co |-> [co EXCEPT !.completion = NoCompletion,
                           !.control = NoReceipt, !.requested = FALSE]]
NotFinalized ==
    LET a == ResetStarted(auth)
    IN  [auth |-> Poison(a),
         disp |-> [disp EXCEPT !.boundary = Boundary(a),
                               !.restated = {}, !.asked = FALSE]]
NewDispatcher(d) == [d EXCEPT !.worker = TRUE, !.stopping = FALSE]

\* _start_dispatcher, with the activation that a finalization drained.
StartDispatcher ==
    /\ pass.pc = "dispatcher"
    /\ \/ /\ disp.worker /\ ~disp.stopping
          /\ pass' = AtAwait(co, pass)
          /\ UNCHANGED <<auth, queue, disp, co, tally>>
       \/ /\ ~DispatcherDead
          /\ disp.stopping
          /\ pass' = NoPass
          /\ UNCHANGED <<auth, queue, disp, co, tally>>
       \/ /\ ~disp.worker
          /\ disp' = NewDispatcher(disp)
          /\ pass' = AtAwait(co, pass)
          /\ UNCHANGED <<auth, queue, co, tally>>
       \/ /\ disp.worker /\ DispatcherDead
          /\ LET f == Finalized
                 r == ReserveControl(f.auth, NoReceipt)
                 w == Awaited([f.co EXCEPT !.requested = TRUE,
                                           !.control = r.receipt],
                              Item("mode", co.reqGen, 1, r.delivery, 0), co.reqGen)
             IN  /\ disp' = NewDispatcher(f.disp)
                 /\ IF WantsMetrics
                    THEN auth' = r.auth /\ co' = w.co /\ queue' = <<w.item>>
                    ELSE auth' = f.auth /\ co' = f.co /\ queue' = <<>>
                 /\ pass' = AtAwait(co', pass)
          /\ UNCHANGED tally
       \/ /\ disp.worker /\ DispatcherDead /\ Failing
          /\ auth' = NotFinalized.auth /\ disp' = NotFinalized.disp
          /\ tally' = Failed
          /\ pass' = NoPass
          /\ UNCHANGED <<queue, co>>
    /\ UNCHANGED <<disc, stream, ticket>>

\* _await_reset: ready, failed, or given up while the reset is still to come.
Outcome == IF co.completion.gen = co.reqGen /\ ~auth.closed
           THEN co.completion.st ELSE "none"
AwaitReset ==
    /\ pass.pc = "await"
    /\ pass' = CASE Outcome = "ready" -> AtDisc(co, pass)
                 [] Outcome = "failed" ->
                      AtDisc(co, [pass EXCEPT !.disc = pass.previews,
                                     !.folder = IF pass.previews THEN @ ELSE 0])
                 [] OTHER -> NoPass
    /\ UNCHANGED <<auth, queue, disc, stream, disp, co, ticket, tally>>

\* _reconcile_discovery: stop it, or retry a stop that timed out.
StopDiscovery ==
    /\ pass.pc = "disc"
    /\ LET r == ReserveControl(auth, co.control) IN
       /\ auth' = Stop(r.auth, "roster", disc.receipt.life)
       /\ co' = [co EXCEPT !.control = r.receipt, !.discSub = FALSE]
    /\ disc' = [disc EXCEPT !.stopping = TRUE]
    /\ pass' = [pass EXCEPT !.pc = "discJoin"]
    /\ UNCHANGED <<queue, stream, disp, ticket, tally>>
JoinDiscovery ==
    /\ pass.pc = "discJoin"
    /\ IF DiscoveryDead
       THEN /\ auth' = Stopped(auth, "roster", disc.receipt.life)
            /\ disc' = [disc EXCEPT !.worker = FALSE, !.stopping = FALSE,
                                    !.receipt = NoReceipt]
            /\ co' = [co EXCEPT !.discOn = FALSE]
            /\ pass' = AtDisc(co', pass)
       ELSE pass' = AtStream(co, pass) /\ UNCHANGED <<auth, disc, co>>
    /\ UNCHANGED <<queue, stream, disp, ticket, tally>>
StartDiscovery ==
    /\ pass.pc = "startDisc"
    /\ LET begins == disc.receipt = NoReceipt
           a == IF begins THEN Begin(auth, "roster") ELSE auth
       IN  IF auth.closed THEN UNCHANGED <<auth, disc, co>>
           ELSE /\ auth' = a
                /\ disc' = [disc EXCEPT !.worker = TRUE,
                               !.receipt = IF begins THEN Granted(a, "roster") ELSE @]
                /\ co' = [co EXCEPT !.discOn = TRUE, !.discSub = TRUE]
    /\ pass' = AtStream(co', pass)
    /\ UNCHANGED <<queue, stream, disp, ticket, tally>>

\* _reconcile_stream: the same, and a refresh of the consumers behind it.
StopStream ==
    /\ pass.pc = "stream"
    /\ LET r == ReserveControl(auth, co.control) IN
       /\ auth' = Stop(r.auth, "stream", stream.receipt.life)
       /\ co' = [co EXCEPT !.control = r.receipt, !.streamSub = FALSE]
       /\ pass' = [pass EXCEPT !.pc = "streamJoin", !.refresh = r.delivery]
    /\ stream' = [stream EXCEPT !.stopping = TRUE]
    /\ UNCHANGED <<queue, disc, disp, ticket, tally>>
JoinStream ==
    /\ pass.pc = "streamJoin"
    /\ IF StreamDead
       THEN LET c == [co EXCEPT !.folder = 0]
                p == [pass EXCEPT !.refresh = NoDelivery]
                w == Awaited(c, Item("refresh", 0, 0, pass.refresh, 0), co.reqGen)
            IN  /\ auth' = Stopped(auth, "stream", stream.receipt.life)
                /\ stream' = [stream EXCEPT !.worker = FALSE, !.stopping = FALSE,
                                            !.receipt = NoReceipt]
                /\ IF WantsMetrics
                   THEN co' = w.co /\ queue' = Append(queue, w.item)
                   ELSE co' = c /\ UNCHANGED queue
                /\ pass' = IF p.folder # 0 /\ WantsMetrics
                           THEN [p EXCEPT !.pc = "awaitRefresh"] ELSE AtStart(c, p)
       ELSE pass' = AtEnd(pass) /\ UNCHANGED <<auth, queue, stream, co>>
    /\ UNCHANGED <<disc, disp, ticket, tally>>
AwaitRefresh ==
    /\ pass.pc = "awaitRefresh"
    /\ pass' = IF Outcome = "ready" \/ (Outcome = "failed" /\ pass.previews)
               THEN AtStart(co, pass) ELSE AtEnd(pass)
    /\ UNCHANGED <<auth, queue, disc, stream, disp, co, ticket, tally>>
\* GameLogStream.start: a new lifetime under _op_lock, nothing tracked.
StartStream ==
    /\ pass.pc = "startStream"
    /\ IF auth.closed THEN UNCHANGED <<auth, queue, stream, co>>
       ELSE /\ auth' = Begin(auth, "stream")
            /\ stream' = [stream EXCEPT !.worker = TRUE, !.tracked = 0,
                                        !.receipt = Granted(auth', "stream")]
            /\ co' = [co EXCEPT !.folder = pass.folder, !.streamSub = TRUE]
            /\ queue' = Append(queue, Item("ready", 0, 0, NoDelivery, 0))
    /\ pass' = AtEnd(pass)
    /\ UNCHANGED <<disc, disp, ticket, tally>>

\* Nobody is left to need the dispatcher.
StopDispatcher ==
    /\ pass.pc = "end"
    /\ disp' = [disp EXCEPT !.stopping = TRUE]
    /\ pass' = [pass EXCEPT !.pc = "dispJoin"]
    /\ UNCHANGED <<auth, queue, disc, stream, co, ticket, tally>>
JoinDispatcher ==
    /\ pass.pc = "dispJoin"
    /\ \/ /\ ~DispatcherDead
          /\ UNCHANGED <<auth, queue, disp, co, tally>>
       \/ /\ DispatcherDead
          /\ auth' = Finalized.auth /\ disp' = Finalized.disp
          /\ co' = Finalized.co /\ queue' = <<>>
          /\ UNCHANGED tally
       \/ /\ DispatcherDead /\ Failing
          /\ auth' = NotFinalized.auth /\ disp' = NotFinalized.disp
          /\ tally' = Failed
          /\ UNCHANGED <<queue, co>>
    /\ pass' = NoPass
    /\ UNCHANGED <<disc, stream, ticket>>

\* close_source_admission: for good.  Bound: nothing new begins after it, what
\* is under way comes to its end.
CloseAdmission ==
    /\ ~auth.closed /\ Failing
    /\ tally' = MaxEvents
    /\ auth' = Close(auth)
    /\ co' = [co EXCEPT !.completion = NoCompletion]
    /\ UNCHANGED <<queue, disc, stream, disp, pass, ticket>>

Pass == \/ Reconcile \/ StartDispatcher \/ AwaitReset
        \/ StopDiscovery \/ JoinDiscovery \/ StartDiscovery
        \/ StopStream \/ JoinStream \/ AwaitRefresh \/ StartStream
        \/ StopDispatcher \/ JoinDispatcher

Next == Discovery \/ LogWorker \/ Dispatcher \/ Pass \/ CloseAdmission
Spec == Init /\ [][Next]_vars
---------------------------------------------------------------------------
(* Properties. *)

\* Every variable has its type, and delivery has the owner it names: the worker
\* while it drains, the dispatcher while it does.
TypeOK ==
    /\ auth \in Authorities
    /\ queue \in Seq(Items)
    /\ disc \in [worker : BOOLEAN, stopping : BOOLEAN,
                 pc : {"idle", "scan", "deliver"}, session : Nat, seen : Nat,
                 gen : Nat, receipt : Stamps, op : Stamps, latest : Deliveries]
    /\ stream \in [worker : BOOLEAN, stopping : BOOLEAN,
                   pc : {"idle", "work", "drain"}, tracked : Nat, gens : Nat,
                   receipt : Stamps, d : Deliveries, fifo : Seq(Items),
                   drainer : {"none", "worker", "disp"}, carried : Items]
    /\ disp \in [worker : BOOLEAN, stopping : BOOLEAN,
                 pc : {"idle", "reset", "prime", "republish", "askAll",
                       "askOne", "draining", "seal"},
                 item : Items, active : BOOLEAN, activation : Nat,
                 rosterGen : Nat, complete : BOOLEAN, known : Nat,
                 boundary : Nat, restated : SUBSET Lanes, asked : BOOLEAN,
                 asks : Nat, session : Nat, source : Nat,
                 frontier : [token : Nat, provenance : [Lanes -> Stamps]]]
    /\ co \in [requested : BOOLEAN, reqGen : Nat, control : Stamps,
               completion : [id : Nat, gen : Nat,
                             st : {"none", "open", "ready", "failed"}],
               completions : Nat, discOn : BOOLEAN, discSub : BOOLEAN,
               folder : 0..Folders, streamSub : BOOLEAN]
    /\ pass \in [pc : {"idle", "dispatcher", "await", "disc", "discJoin",
                       "startDisc", "stream", "streamJoin", "awaitRefresh",
                       "startStream", "end", "dispJoin"},
                 fleet : BOOLEAN, previews : BOOLEAN, disc : BOOLEAN,
                 folder : 0..Folders, refresh : Deliveries]
    /\ ticket \in [token : Nat, session : Nat, source : Nat, activation : Nat]
    /\ tally \in 0..MaxEvents
    /\ (stream.drainer = "worker") = (stream.pc = "drain")
    /\ (stream.drainer = "disp") = (disp.pc = "draining")

HoldsCurrent == ticket # NoTicket /\ Current(auth, ticket.token)

\* A batch on its way to the dispatcher names the log of now.
Flying == {stream.carried} \cup {stream.fifo[i] : i \in DOMAIN stream.fifo}
                           \cup {queue[i] : i \in DOMAIN queue}
AnswerUnderWay ==
    \E item \in Flying : item.kind = "source" /\ item.value = stream.tracked

\* A subscriber whose ticket is current shows what the producers hold: the
\* session discovery has now, the activation that was asked for last, and the log
\* of now.  It may still show none for a session whose log is being told: then
\* the dispatcher knows it already, or a batch on its way to it says so
\* (admission.py:397, the invalidations that clients.py and gamelogs.py reserve
\* before they mutate, and coordinator.py:1484, which asks for each new session).
AdmittedIsTrue ==
    HoldsCurrent =>
        /\ ticket.session = disc.session
        /\ ticket.activation = co.reqGen
        /\ \/ ticket.source = stream.tracked
           \/ /\ ticket.source = 0
              /\ \/ ticket.session = 0
                 \/ disp.source = stream.tracked
                 \/ AnswerUnderWay

\* A session is published only with its log: what the stream says of it "lands on
\* this queue behind the roster envelope that triggered it -- the ordering the
\* whole join depends on" (coordinator.py:1489).
SessionIsBound ==
    HoldsCurrent /\ ticket.session # 0 => ticket.source = stream.tracked

\* A ticket that is not current never becomes current again, whatever was
\* acknowledged, restated or reset since
\* (_current_locked, admission.py:390, trusts the identity of the token alone).
RevokedForGood ==
    [][ /\ ticket # NoTicket /\ ~Current(auth, ticket.token)
        /\ ticket'.token = ticket.token
        => ~Current(auth', ticket'.token) ]_vars

\* Nobody is in the middle of anything.
Quiet == /\ disp.worker /\ ~disp.stopping /\ disp.pc = "idle" /\ queue = <<>>
         /\ disc.pc = "idle" /\ stream.pc = "idle" /\ pass.pc = "idle"
         /\ stream.drainer = "none"
         /\ \A l \in Lanes : auth.lanes[l].running

\* Once everybody has come to rest no batch waits for a carrier, and if Fleet is
\* on and nothing was poisoned or is being reset, every change that was reserved
\* is acknowledged: no delivery was lost between the two queues, an unsubscribe
\* and a priming, which would withhold the views until the next change.
NothingForgotten ==
    Quiet => /\ stream.fifo = <<>>
             /\ disp.active /\ ~auth.closed /\ ~auth.poisoned
                /\ auth.pending = 0 => Complete(auth)

\* _begin finds its lane free whenever a pass starts a worker or reserves
\* control, stops that timed out and closes included (admission.py:138 raises).
BeginNeverRaises ==
    /\ pass.pc = "startDisc" /\ disc.receipt = NoReceipt => CanBegin(auth, "roster")
    /\ pass.pc = "startStream" => CanBegin(auth, "stream")
    /\ co.control = NoReceipt => CanBegin(auth, "control")

\* No producer feeds a queue that nobody reads: a pass, however many of its
\* waits time out, subscribes only where the dispatcher runs, and stops the
\* dispatcher only after the subscriptions (coordinator.py:490).
SubscribersAreServed ==
    co.discSub \/ co.streamSub => disp.worker /\ ~disp.stopping
=============================================================================
