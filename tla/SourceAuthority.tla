------------------------- MODULE SourceAuthority -------------------------
(***************************************************************************)
(* The process-local source proof of src/wingman/telemetry/admission.py,   *)
(* one operator per method of _SourceAuthority.  All of its state is one   *)
(* record behind one leaf lock, so each method is one atomic step of the   *)
(* thread that calls it; SourceAdmission has the threads.                  *)
(*                                                                         *)
(* The code numbers receipts, operations and poisonings globally and makes *)
(* a fresh object() for a lifetime or a token, but it compares orders only *)
(* within one lifetime of one lane, and a poison serial only with the one  *)
(* the pending reset captured.  So here                                    *)
(*   - lifetimes count per lane, and orders restart with each lifetime     *)
(*     (the receipt before n is n - 1, which the code calls "previous");   *)
(*   - "clean" says that the poison serial is still the captured one;      *)
(*   - a revocation takes a new token only if the old one was captured     *)
(*     (held): a token nobody has seen is as good as a fresh one.          *)
(* 0 is None, for a lifetime, an order, a token and a reset.               *)
(***************************************************************************)
EXTENDS Naturals

Lanes == {"roster", "stream", "control"}

Stamps == [life : Nat, order : Nat]         \* a receipt or an operation
NoReceipt == [life |-> 0, order |-> 0]
NoOperation == [life |-> 0, order |-> 0]

\* _Delivery: the operation and the receipt a semantic batch carries, and the
\* reset whose restatement it is (0: none).
Deliveries == [op : Stamps, receipt : Stamps, reset : Nat, invalidates : BOOLEAN]
Delivery(operation, receipt, reset, invalidates) ==
    [op |-> operation, receipt |-> receipt, reset |-> reset,
     invalidates |-> invalidates]
NoDelivery == Delivery(NoOperation, NoReceipt, 0, FALSE)

LaneStates == [lives : Nat, life : Nat, running : BOOLEAN, requested : Stamps,
               applied : Nat, started : Stamps, provenance : Stamps,
               cut : Stamps]
NoOwner(lives, cut) ==
    [lives |-> lives, life |-> 0, running |-> FALSE, requested |-> NoReceipt,
     applied |-> 0, started |-> NoOperation, provenance |-> NoOperation,
     cut |-> cut]

Authorities == [closed : BOOLEAN, token : Nat \ {0}, held : BOOLEAN,
                lanes : [Lanes -> LaneStates], poisoned : BOOLEAN,
                resets : Nat, pending : Nat, clean : BOOLEAN,
                appliedReset : Nat]
NewAuthority ==
    [closed |-> FALSE, token |-> 1, held |-> FALSE,
     lanes |-> [l \in Lanes |-> NoOwner(0, NoOperation)], poisoned |-> FALSE,
     resets |-> 0, pending |-> 0, clean |-> TRUE, appliedReset |-> 0]

Revoke(a) == IF a.held THEN [a EXCEPT !.token = @ + 1, !.held = FALSE] ELSE a

\* A lane belongs to the lifetime admitted last, until that one is stopped.
Owns(a, l, life) == /\ ~a.closed
                    /\ a.lanes[l].running
                    /\ a.lanes[l].life = life

---------------------------------------------------------------------------
(* The producers: lifetimes, invalidations and operations. *)

\* _reserve_locked: the receipt is the lane's requested one afterwards.
\* Mutant: a receipt to come is thought enough, tickets are not revoked.
ReserveKeepsToken(a, l) ==
    [a EXCEPT !.lanes[l].requested = [life |-> a.lanes[l].life, order |-> @.order + 1]]
ReserveLocked(a, l) ==
    Revoke([a EXCEPT !.lanes[l].requested =
                        [life |-> a.lanes[l].life, order |-> @.order + 1]])
Reserve(a, l, life) == IF Owns(a, l, life) THEN ReserveLocked(a, l) ELSE a

CanBegin(a, l) == a.lanes[l].life = 0       \* else _begin raises RuntimeError
Begin(a, l) ==
    LET lane == a.lanes[l] IN
    IF a.closed THEN a
    ELSE ReserveLocked(
            [a EXCEPT !.lanes[l] =
                [NoOwner(lane.lives + 1, lane.cut) EXCEPT
                    !.life = lane.lives + 1, !.running = TRUE]], l)

\* The receipt that Begin or Reserve just gave to the owner of a lane.
Granted(a, l) == IF a.closed THEN NoReceipt ELSE a.lanes[l].requested

\* _stop revokes, _stopped lets a replacement in.
Stop(a, l, life) ==
    IF a.lanes[l].life = life /\ a.lanes[l].running
    THEN Revoke([a EXCEPT !.lanes[l].running = FALSE]) ELSE a
\* Mutant: the end of a worker does not free its lane.
StoppedKeepsOwner(a, l, life) ==
    IF a.lanes[l].life = life THEN [a EXCEPT !.lanes[l].running = FALSE] ELSE a
Stopped(a, l, life) ==
    LET lane == a.lanes[l] IN
    IF lane.life = life /\ ~lane.running
    THEN [a EXCEPT !.lanes[l] = NoOwner(lane.lives, lane.cut)] ELSE a

\* _operation, and what it returned: nothing when the owner has retired.
StartOperation(a, l, life) ==
    IF Owns(a, l, life)
    THEN [a EXCEPT !.lanes[l].started = [life |-> life, order |-> @.order + 1]]
    ELSE a
Started(a, l, life) ==
    IF Owns(a, l, life) THEN a.lanes[l].started ELSE NoOperation

---------------------------------------------------------------------------
(* The dispatcher: applications, acknowledgements, resets and poison. *)

Poison(a) == Revoke([a EXCEPT !.poisoned = TRUE, !.clean = FALSE])

BeforeCut(lane, op) == lane.cut.life = op.life /\ op.order <= lane.cut.order
Obsolete(a, l, op) ==
    LET lane == a.lanes[l] IN
    \/ op.life # lane.life
    \/ ~lane.running
    \/ BeforeCut(lane, op)
    \/ lane.provenance.life = op.life /\ op.order < lane.provenance.order
RecordApplication(a, l, op) ==
    IF a.closed THEN a
    ELSE LET b == IF Obsolete(a, l, op) THEN Poison(a) ELSE a
         IN  [b EXCEPT !.lanes[l].provenance = op]

\* _applied: a roster restates everything, the other lanes go one by one.
Acknowledges(a, l, receipt) ==
    LET lane == a.lanes[l] IN
    /\ Owns(a, l, receipt.life)
    /\ lane.applied < receipt.order
    /\ receipt.order <= lane.requested.order
    /\ l = "roster" \/ receipt.order = lane.applied + 1
Applied(a, l, receipt) ==
    IF Acknowledges(a, l, receipt)
    THEN [a EXCEPT !.lanes[l].applied = receipt.order] ELSE a

ResetStarted(a) ==
    IF a.closed THEN a
    ELSE Revoke([a EXCEPT !.resets = @ + 1, !.pending = a.resets + 1,
                          !.clean = TRUE])
\* The boundary that _reset_started just returned.
Boundary(a) == IF a.closed THEN 0 ELSE a.pending

ResetAccepted(a, boundary) == /\ ~a.closed
                              /\ boundary = a.pending
                              /\ boundary # a.appliedReset
ResetApplied(a, boundary) ==
    IF a.closed THEN a
    ELSE IF ~ResetAccepted(a, boundary) THEN Poison(a)
    ELSE [a EXCEPT !.appliedReset = boundary,
                   !.lanes = [l \in Lanes |->
                       [a.lanes[l] EXCEPT !.cut = a.lanes[l].started,
                                          !.provenance = NoOperation]]]

\* The reset is the one applied last, and nothing was poisoned since it began.
Recovering(a, boundary) == /\ ~a.closed
                           /\ boundary = a.pending
                           /\ boundary = a.appliedReset
                           /\ a.clean

CanRestate(a, boundary, l, delivery) ==
    LET lane == a.lanes[l] IN
    /\ Recovering(a, boundary)
    /\ lane.running
    /\ delivery.receipt.life = lane.life
    /\ lane.applied <= delivery.receipt.order
    /\ delivery.receipt.order <= lane.requested.order
    /\ delivery.op.life = lane.life
    /\ delivery.op = lane.provenance
    /\ ~BeforeCut(lane, delivery.op)
Restated(a, boundary, l, delivery) ==
    IF CanRestate(a, boundary, l, delivery)
    THEN [a EXCEPT !.lanes[l].applied = delivery.receipt.order] ELSE a

Complete(a) ==
    \A l \in Lanes : /\ a.lanes[l].running
                     /\ a.lanes[l].requested # NoReceipt
                     /\ a.lanes[l].applied = a.lanes[l].requested.order

CanReseed(a, boundary) ==
    /\ Recovering(a, boundary)
    /\ Complete(a)
    /\ \A l \in Lanes :
         LET lane == a.lanes[l] IN
         /\ lane.provenance # NoOperation
         /\ lane.provenance.life = lane.life
         /\ ~BeforeCut(lane, lane.provenance)
Reseeded(a, boundary) ==
    IF CanReseed(a, boundary)
    THEN Revoke([a EXCEPT !.pending = 0, !.poisoned = FALSE])
    ELSE a

---------------------------------------------------------------------------
(* Tickets: a ticket is the token it was sealed with. *)

Current(a, token) == /\ ~a.closed
                     /\ ~a.poisoned
                     /\ a.pending = 0
                     /\ token = a.token
                     /\ Complete(a)

\* _capture: the token stands for the receipts captured with it, which no
\* call can change without replacing the token; provenance is kept.
NoFrontier == [token |-> 0, provenance |-> [l \in Lanes |-> NoOperation]]
Captures(a) == Current(a, a.token)
Frontier(a) == [token |-> a.token,
                provenance |-> [l \in Lanes |-> a.lanes[l].provenance]]
Hold(a) == IF Captures(a) THEN [a EXCEPT !.held = TRUE] ELSE a
Seals(a, frontier) == Captures(a) /\ frontier = Frontier(a)

Close(a) == Revoke([a EXCEPT !.closed = TRUE])

=============================================================================
