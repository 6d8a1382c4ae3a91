---------------------- MODULE SourceAdmission_proofs ----------------------
(***************************************************************************)
(* A ticket that was revoked stays revoked, no lane is begun twice and no  *)
(* producer is left without a reader, for any number of events, folders    *)
(* and choices.                                                            *)
(*                                                                         *)
(* First, what every method of the source authority keeps.  Advances is    *)
(* the contract of the token: it never goes back, and while a captured     *)
(* token stays, so does everything that made it current.  It is            *)
(* transitive, so a thread may call several methods in one step.           *)
(*                                                                         *)
(* Then each step of a thread is shown to keep the types and to be Steady  *)
(* or to begin or end one lifetime (LifeInv); where a pass stands says     *)
(* what is subscribed and who serves it (FlowInv).                         *)
(*                                                                         *)
(* Last, what the methods do to the lanes they do not concern (Calm), what *)
(* it takes for a lane to say all there is, and where a batch is (Flies):  *)
(* the lemmas that SourceTruth_proofs is built on.                         *)
(***************************************************************************)
EXTENDS SourceAdmission, SequenceTheorems, TLAPS

-----------------------------------------------------------------------------
(* The methods of the authority *)

Guarded(a) == a.held => Captures(a)
Advances(a, b) ==
    /\ b \in Authorities
    /\ a.token <= b.token
    /\ a.held /\ b.token = a.token => b.held
    /\ Guarded(a) => Guarded(b)
    /\ a.closed => b.closed
SameLives(a, b) == \A l \in Lanes : b.lanes[l].life = a.lanes[l].life

-----------------------------------------------------------------------------
(* Records *)

\* The constant receipts and operations are stamps.
LEMMA Stamp0 == NoReceipt \in Stamps /\ NoOperation \in Stamps /\ NoDelivery \in Deliveries
  BY DEF Stamps, NoReceipt, NoOperation, NoDelivery, Delivery, Deliveries

\* A delivery put together from stamps is one.
LEMMA DeliveryTyped ==
    ASSUME NEW o \in Stamps, NEW r \in Stamps, NEW n \in Nat, NEW i \in BOOLEAN
    PROVE  Delivery(o, r, n, i) \in Deliveries
  BY DEF Delivery, Deliveries

\* The fields of an authority and of its lanes.
LEMMA Fields ==
    ASSUME NEW a \in Authorities
    PROVE  /\ a.closed \in BOOLEAN /\ a.token \in Nat \ {0} /\ a.held \in BOOLEAN
           /\ a.lanes \in [Lanes -> LaneStates] /\ a.poisoned \in BOOLEAN
           /\ a.resets \in Nat /\ a.pending \in Nat /\ a.clean \in BOOLEAN
           /\ a.appliedReset \in Nat
           /\ \A l \in Lanes : a.lanes[l] \in LaneStates
  BY DEF Authorities

\* The fields of a lane.
LEMMA LaneFields ==
    ASSUME NEW x \in LaneStates
    PROVE  /\ x.lives \in Nat /\ x.life \in Nat /\ x.running \in BOOLEAN
           /\ x.requested \in Stamps /\ x.applied \in Nat /\ x.started \in Stamps
           /\ x.provenance \in Stamps /\ x.cut \in Stamps
  BY DEF LaneStates

\* Replacing one lane leaves everything else alone.
LEMMA LaneSet ==
    ASSUME NEW a \in Authorities, NEW l \in Lanes, NEW x \in LaneStates
    PROVE  LET b == [a EXCEPT !.lanes[l] = x] IN
           /\ b \in Authorities /\ b.lanes[l] = x
           /\ \A k \in Lanes : k # l => b.lanes[k] = a.lanes[k]
           /\ b.closed = a.closed /\ b.token = a.token /\ b.held = a.held
           /\ b.poisoned = a.poisoned /\ b.resets = a.resets /\ b.pending = a.pending
           /\ b.clean = a.clean /\ b.appliedReset = a.appliedReset
<1>1. [a.lanes EXCEPT ![l] = x] \in [Lanes -> LaneStates]
  BY Fields
<1>2. [a EXCEPT !.lanes[l] = x] = [a EXCEPT !.lanes = [a.lanes EXCEPT ![l] = x]]
  BY DEF Authorities
<1>3. QED
  BY <1>1, <1>2 DEF Authorities

\* A lane nobody owns is one.
LEMMA NoOwnerTyped ==
    ASSUME NEW n \in Nat, NEW c \in Stamps
    PROVE  NoOwner(n, c) \in LaneStates
  BY Stamp0 DEF NoOwner, LaneStates

\* The authority at the start.
LEMMA NewTyped ==
    /\ NewAuthority \in Authorities /\ ~NewAuthority.held /\ ~NewAuthority.closed
    /\ \A l \in Lanes : NewAuthority.lanes[l].life = 0
<1>1. NoOwner(0, NoOperation) \in LaneStates /\ NoOwner(0, NoOperation).life = 0
  BY NoOwnerTyped, Stamp0 DEF NoOwner
<1>2. QED
  BY <1>1 DEF NewAuthority, Authorities

-----------------------------------------------------------------------------
(* The token *)

\* Advances may be chained, and a step that calls nothing advances.
LEMMA Chain ==
    ASSUME NEW a \in Authorities, NEW b, NEW c, Advances(a, b), Advances(b, c)
    PROVE  Advances(a, c)
  BY Fields DEF Advances
\* A call that does nothing advances, and keeps every lifetime.
LEMMA Stays == ASSUME NEW a \in Authorities PROVE Advances(a, a) /\ SameLives(a, a)
  BY Fields DEF Advances, SameLives

\* A revocation takes the token out of every hand.
LEMMA RevokeFacts ==
    ASSUME NEW a \in Authorities
    PROVE  /\ Revoke(a) \in Authorities /\ ~Revoke(a).held
           /\ a.token <= Revoke(a).token
           /\ Revoke(a).token = a.token => ~a.held
           /\ Revoke(a).lanes = a.lanes /\ Revoke(a).closed = a.closed
           /\ Revoke(a).poisoned = a.poisoned /\ Revoke(a).pending = a.pending
           /\ Revoke(a).resets = a.resets /\ Revoke(a).clean = a.clean
           /\ Revoke(a).appliedReset = a.appliedReset
<1>1. CASE a.held
  <2> DEFINE t == a.token + 1
  <2>1. t \in Nat \ {0} /\ t > a.token /\ a.token \in Nat
    BY Fields
  <2>2. Revoke(a) = [a EXCEPT !.token = t, !.held = FALSE]
    BY <1>1 DEF Revoke, Authorities
  <2> HIDE DEF t
  <2>3. /\ Revoke(a) \in Authorities /\ ~Revoke(a).held /\ Revoke(a).token = t
        /\ Revoke(a).lanes = a.lanes /\ Revoke(a).closed = a.closed
        /\ Revoke(a).poisoned = a.poisoned /\ Revoke(a).pending = a.pending
        /\ Revoke(a).resets = a.resets /\ Revoke(a).clean = a.clean
        /\ Revoke(a).appliedReset = a.appliedReset
    BY <2>1, <2>2 DEF Authorities
  <2>4. QED
    BY <2>1, <2>3
<1>2. CASE ~a.held
  BY <1>2, Fields DEF Revoke
<1>3. QED
  BY <1>1, <1>2

\* Whatever else a method does, if it revokes the token advances.
LEMMA Revoking ==
    ASSUME NEW a \in Authorities, NEW b \in Authorities,
           b.token = a.token, b.held = a.held, a.closed => b.closed
    PROVE  Advances(a, Revoke(b))
  BY RevokeFacts, Fields DEF Advances, Guarded

\* A method that does not revoke may not touch what makes a token current.
LEMMA Keeping ==
    ASSUME NEW a \in Authorities, NEW b \in Authorities,
           b.token = a.token, b.held = a.held, b.closed = a.closed,
           b.poisoned = a.poisoned, b.pending = a.pending,
           a.held /\ Complete(a) => Complete(b)
    PROVE  Advances(a, b)
  BY Fields DEF Advances, Guarded, Captures, Current

-----------------------------------------------------------------------------
(* The producers *)

\* One more receipt of a lane.
LEMMA ReserveLockedFacts ==
    ASSUME NEW a \in Authorities, NEW l \in Lanes
    PROVE  /\ Advances(a, ReserveLocked(a, l)) /\ SameLives(a, ReserveLocked(a, l))
           /\ ReserveLocked(a, l).closed = a.closed /\ ~ReserveLocked(a, l).held
           /\ ReserveLocked(a, l).lanes[l].requested.life = a.lanes[l].life
           /\ \A k \in Lanes : ReserveLocked(a, l).lanes[k].running = a.lanes[k].running
<1> DEFINE r == [life |-> a.lanes[l].life, order |-> a.lanes[l].requested.order + 1]
           x == [a.lanes[l] EXCEPT !.requested = r]
           b == [a EXCEPT !.lanes[l] = x]
<1>1. r \in Stamps
  BY Fields, LaneFields DEF Stamps
<1>2. x \in LaneStates /\ x.life = a.lanes[l].life /\ x.running = a.lanes[l].running
      /\ x.requested = r
  BY <1>1, Fields DEF LaneStates
<1>3. ReserveLocked(a, l) = Revoke(b)
  BY DEF ReserveLocked, Authorities
<1>4. /\ b \in Authorities /\ b.lanes[l] = x
      /\ \A k \in Lanes : k # l => b.lanes[k] = a.lanes[k]
      /\ b.token = a.token /\ b.held = a.held /\ b.closed = a.closed
  BY <1>2, LaneSet
<1> HIDE DEF b, x
<1>5. Advances(a, Revoke(b))
  BY <1>4, Revoking
<1>6. Revoke(b).lanes = b.lanes /\ Revoke(b).closed = b.closed /\ ~Revoke(b).held
  BY <1>4, RevokeFacts
<1>7. QED
  BY <1>2, <1>3, <1>4, <1>5, <1>6 DEF SameLives

\* A reservation for an owner is that receipt, for anybody else it is nothing.
LEMMA ReserveFacts ==
    ASSUME NEW a \in Authorities, NEW l \in Lanes, NEW life
    PROVE  /\ Advances(a, Reserve(a, l, life)) /\ SameLives(a, Reserve(a, l, life))
           /\ Reserve(a, l, life).closed = a.closed
           /\ Owns(a, l, life) =>
                 Reserve(a, l, life).lanes[l].requested.life = a.lanes[l].life
           /\ \A k \in Lanes : Reserve(a, l, life).lanes[k].running = a.lanes[k].running
  BY ReserveLockedFacts, Stays DEF Reserve

\* A new lifetime of a lane, unless the authority is closed.
LEMMA BeginFacts ==
    ASSUME NEW a \in Authorities, NEW l \in Lanes
    PROVE  /\ Advances(a, Begin(a, l)) /\ Begin(a, l).closed = a.closed
           /\ \A k \in Lanes : k # l => /\ Begin(a, l).lanes[k].life = a.lanes[k].life
                                        /\ Begin(a, l).lanes[k].running = a.lanes[k].running
           /\ a.closed => Begin(a, l) = a
           /\ ~a.closed => /\ Begin(a, l).lanes[l].life # 0 /\ Begin(a, l).lanes[l].running
                           /\ Begin(a, l).lanes[l].requested.life = Begin(a, l).lanes[l].life
<1> DEFINE x == a.lanes[l]
           y == NoOwner(x.lives + 1, x.cut)
           z == [y EXCEPT !.life = x.lives + 1, !.running = TRUE]
           b == [a EXCEPT !.lanes[l] = z]
<1>1. CASE a.closed
  BY <1>1, Stays DEF Begin
<1>2. CASE ~a.closed
  <2>1. x.lives + 1 \in Nat /\ x.lives + 1 # 0 /\ y \in LaneStates
    BY Fields, LaneFields, NoOwnerTyped
  <2>2. z \in LaneStates /\ z.life # 0 /\ z.running
    BY <2>1 DEF LaneStates
  <2>3. /\ b \in Authorities /\ b.lanes[l] = z
        /\ \A k \in Lanes : k # l => b.lanes[k] = a.lanes[k]
        /\ b.token = a.token /\ b.held = a.held /\ b.closed = a.closed
        /\ b.poisoned = a.poisoned /\ b.pending = a.pending
    BY <2>2, LaneSet
  <2>4. Begin(a, l) = ReserveLocked(b, l)
    BY <1>2 DEF Begin
  <2> HIDE DEF b, z
  <2>5. /\ Advances(b, ReserveLocked(b, l)) /\ SameLives(b, ReserveLocked(b, l))
        /\ ReserveLocked(b, l).closed = b.closed
        /\ ReserveLocked(b, l).lanes[l].requested.life = b.lanes[l].life
        /\ \A k \in Lanes : ReserveLocked(b, l).lanes[k].running = b.lanes[k].running
    BY <2>3, ReserveLockedFacts
  <2>6. Advances(a, ReserveLocked(b, l))
    BY <2>3, <2>5, ReserveLockedFacts, Fields DEF Advances, Guarded
  <2>7. QED
    BY <1>2, <2>2, <2>3, <2>4, <2>5, <2>6 DEF SameLives
<1>3. QED
  BY <1>1, <1>2

\* Once it is told to stop a lane is not running, and only its owner stops it.
LEMMA StopFacts ==
    ASSUME NEW a \in Authorities, NEW l \in Lanes, NEW life
    PROVE  /\ Advances(a, Stop(a, l, life)) /\ SameLives(a, Stop(a, l, life))
           /\ Stop(a, l, life).closed = a.closed
           /\ life = a.lanes[l].life => ~Stop(a, l, life).lanes[l].running
           /\ \A k \in Lanes : Stop(a, l, life).lanes[k].running => a.lanes[k].running
<1> DEFINE x == [a.lanes[l] EXCEPT !.running = FALSE]
           b == [a EXCEPT !.lanes[l] = x]
<1>1. CASE a.lanes[l].life = life /\ a.lanes[l].running
  <2>1. x \in LaneStates /\ x.life = a.lanes[l].life /\ ~x.running
    BY Fields DEF LaneStates
  <2>2. Stop(a, l, life) = Revoke(b)
    BY <1>1 DEF Stop, Authorities
  <2> HIDE DEF x
  <2>3. /\ b \in Authorities /\ b.lanes[l] = x
        /\ \A k \in Lanes : k # l => b.lanes[k] = a.lanes[k]
        /\ b.token = a.token /\ b.held = a.held /\ b.closed = a.closed
    BY <2>1, LaneSet
  <2> HIDE DEF b
  <2>4. Advances(a, Revoke(b)) /\ Revoke(b).lanes = b.lanes /\ Revoke(b).closed = b.closed
    BY <2>3, Revoking, RevokeFacts
  <2>5. QED
    BY <2>1, <2>2, <2>3, <2>4 DEF SameLives
<1>2. CASE ~(a.lanes[l].life = life /\ a.lanes[l].running)
  BY <1>2, Stays DEF Stop
<1>3. QED
  BY <1>1, <1>2

\* A lane that has stopped is freed, and no ticket depended on it.
LEMMA StoppedFacts ==
    ASSUME NEW a \in Authorities, NEW l \in Lanes, NEW life
    PROVE  /\ Advances(a, Stopped(a, l, life)) /\ Stopped(a, l, life).closed = a.closed
           /\ \A k \in Lanes : k # l => Stopped(a, l, life).lanes[k] = a.lanes[k]
           /\ life = a.lanes[l].life /\ ~a.lanes[l].running =>
                 Stopped(a, l, life).lanes[l].life = 0
<1> DEFINE x == NoOwner(a.lanes[l].lives, a.lanes[l].cut)
           b == [a EXCEPT !.lanes[l] = x]
<1>1. CASE a.lanes[l].life = life /\ ~a.lanes[l].running
  <2>1. x \in LaneStates /\ x.life = 0
    BY Fields, LaneFields, NoOwnerTyped DEF NoOwner
  <2>2. Stopped(a, l, life) = b
    BY <1>1 DEF Stopped
  <2>3. /\ b \in Authorities /\ b.lanes[l] = x
        /\ \A k \in Lanes : k # l => b.lanes[k] = a.lanes[k]
        /\ b.token = a.token /\ b.held = a.held /\ b.closed = a.closed
        /\ b.poisoned = a.poisoned /\ b.pending = a.pending
    BY <2>1, LaneSet
  <2>4. ~Complete(a)
    BY <1>1 DEF Complete
  <2> HIDE DEF b, x
  <2>5. Advances(a, b)
    BY <2>3, <2>4, Keeping
  <2>6. QED
    BY <2>1, <2>2, <2>3, <2>5
<1>2. CASE ~(a.lanes[l].life = life /\ ~a.lanes[l].running)
  BY <1>2, Stays DEF Stopped
<1>3. QED
  BY <1>1, <1>2

\* What a lane needs to be complete is left as it is by an update of its other fields.
LaneKept(x, y) ==
    /\ y \in LaneStates /\ y.life = x.life /\ y.running = x.running
    /\ y.requested = x.requested
    /\ x.applied = x.requested.order => y.applied = y.requested.order

\* Such an update advances, and keeps every lifetime.
LEMMA LaneKeeping ==
    ASSUME NEW a \in Authorities, NEW l \in Lanes, NEW x, LaneKept(a.lanes[l], x)
    PROVE  LET b == [a EXCEPT !.lanes[l] = x] IN
           /\ Advances(a, b) /\ SameLives(a, b) /\ b.closed = a.closed
           /\ \A k \in Lanes : b.lanes[k].running = a.lanes[k].running
<1> DEFINE b == [a EXCEPT !.lanes[l] = x]
<1>1. /\ b \in Authorities /\ b.lanes[l] = x
      /\ \A k \in Lanes : k # l => b.lanes[k] = a.lanes[k]
      /\ b.token = a.token /\ b.held = a.held /\ b.closed = a.closed
      /\ b.poisoned = a.poisoned /\ b.pending = a.pending
  BY LaneSet DEF LaneKept
<1> HIDE DEF b
<1>2. Complete(a) => Complete(b)
  BY <1>1 DEF Complete, LaneKept
<1>3. Advances(a, b)
  BY <1>1, <1>2, Keeping
<1>4. SameLives(a, b) /\ \A k \in Lanes : b.lanes[k].running = a.lanes[k].running
  BY <1>1 DEF SameLives, LaneKept
<1>5. QED
  BY <1>1, <1>3, <1>4 DEF b

\* Operations are numbered, and nothing else.
LEMMA StartOperationFacts ==
    ASSUME NEW a \in Authorities, NEW l \in Lanes, NEW life \in Nat
    PROVE  /\ Advances(a, StartOperation(a, l, life)) /\ SameLives(a, StartOperation(a, l, life))
           /\ StartOperation(a, l, life).closed = a.closed
           /\ \A k \in Lanes : StartOperation(a, l, life).lanes[k].running = a.lanes[k].running
           /\ Started(a, l, life) \in Stamps
<1> DEFINE r == [life |-> life, order |-> a.lanes[l].started.order + 1]
           x == [a.lanes[l] EXCEPT !.started = r]
<1>1. Started(a, l, life) \in Stamps
  BY Stamp0, Fields, LaneFields DEF Started
<1>2. CASE Owns(a, l, life)
  <2>1. r \in Stamps
    BY Fields, LaneFields DEF Stamps
  <2>2. LaneKept(a.lanes[l], x)
    BY <2>1, Fields DEF LaneKept, LaneStates
  <2>3. StartOperation(a, l, life) = [a EXCEPT !.lanes[l] = x]
    BY <1>2 DEF StartOperation, Authorities
  <2> HIDE DEF x
  <2>4. QED
    BY <1>1, <2>2, <2>3, LaneKeeping
<1>3. CASE ~Owns(a, l, life)
  BY <1>1, <1>3, Stays DEF StartOperation
<1>4. QED
  BY <1>2, <1>3

-----------------------------------------------------------------------------
(* The dispatcher *)

\* Poison withholds everything and revokes.
LEMMA PoisonFacts ==
    ASSUME NEW a \in Authorities
    PROVE  /\ Advances(a, Poison(a)) /\ SameLives(a, Poison(a)) /\ Poison(a).closed = a.closed
           /\ Poison(a).lanes = a.lanes
           /\ \A k \in Lanes : Poison(a).lanes[k].running = a.lanes[k].running
<1> DEFINE b == [a EXCEPT !.poisoned = TRUE, !.clean = FALSE]
<1>1. /\ b \in Authorities /\ b.lanes = a.lanes /\ b.token = a.token /\ b.held = a.held
      /\ b.closed = a.closed
  BY DEF Authorities
<1>2. Poison(a) = Revoke(b)
  BY DEF Poison
<1> HIDE DEF b
<1>3. QED
  BY <1>1, <1>2, Revoking, RevokeFacts DEF SameLives

\* An application is recorded, and poisons if it is obsolete.
LEMMA RecordFacts ==
    ASSUME NEW a \in Authorities, NEW l \in Lanes, NEW op \in Stamps
    PROVE  /\ Advances(a, RecordApplication(a, l, op))
           /\ SameLives(a, RecordApplication(a, l, op))
           /\ RecordApplication(a, l, op).closed = a.closed
           /\ \A k \in Lanes :
                 RecordApplication(a, l, op).lanes[k].running = a.lanes[k].running
<1>1. CASE a.closed
  BY <1>1, Stays DEF RecordApplication
<1>2. CASE ~a.closed
  <2> DEFINE b == IF Obsolete(a, l, op) THEN Poison(a) ELSE a
             x == [b.lanes[l] EXCEPT !.provenance = op]
             c == [b EXCEPT !.lanes[l] = x]
  <2>1. /\ b \in Authorities /\ Advances(a, b) /\ SameLives(a, b) /\ b.closed = a.closed
        /\ \A k \in Lanes : b.lanes[k].running = a.lanes[k].running
    BY PoisonFacts, Stays DEF Advances
  <2>2. RecordApplication(a, l, op) = [b EXCEPT !.lanes[l].provenance = op]
    BY <1>2 DEF RecordApplication
  <2> HIDE DEF b
  <2>3. RecordApplication(a, l, op) = c
    BY <2>1, <2>2 DEF Authorities
  <2>4. LaneKept(b.lanes[l], x)
    BY <2>1, Fields DEF LaneKept, LaneStates
  <2> HIDE DEF x
  <2>5. /\ Advances(b, c) /\ SameLives(b, c) /\ c.closed = b.closed
        /\ \A k \in Lanes : c.lanes[k].running = b.lanes[k].running
    BY <2>1, <2>4, LaneKeeping
  <2> HIDE DEF c
  <2>6. Advances(a, c)
    BY <2>1, <2>5, Chain
  <2>7. QED
    BY <2>1, <2>3, <2>5, <2>6 DEF SameLives
<1>3. QED
  BY <1>1, <1>2

\* An acknowledgement never takes a complete lane back.
LEMMA AppliedFacts ==
    ASSUME NEW a \in Authorities, NEW l \in Lanes, NEW receipt \in Stamps
    PROVE  /\ Advances(a, Applied(a, l, receipt)) /\ SameLives(a, Applied(a, l, receipt))
           /\ Applied(a, l, receipt).closed = a.closed
           /\ \A k \in Lanes : Applied(a, l, receipt).lanes[k].running = a.lanes[k].running
<1>1. CASE Acknowledges(a, l, receipt)
  <2> DEFINE x == [a.lanes[l] EXCEPT !.applied = receipt.order]
  <2>1. /\ receipt.order \in Nat /\ a.lanes[l] \in LaneStates
        /\ a.lanes[l].applied \in Nat /\ a.lanes[l].requested.order \in Nat
        /\ a.lanes[l].applied < receipt.order /\ receipt.order <= a.lanes[l].requested.order
    BY <1>1, Fields, LaneFields DEF Stamps, Acknowledges
  <2>2. LaneKept(a.lanes[l], x)
    BY <2>1 DEF LaneKept, LaneStates
  <2>3. Applied(a, l, receipt) = [a EXCEPT !.lanes[l] = x]
    BY <1>1 DEF Applied, Authorities
  <2> HIDE DEF x
  <2>4. QED
    BY <2>2, <2>3, LaneKeeping
<1>2. CASE ~Acknowledges(a, l, receipt)
  BY <1>2, Stays DEF Applied
<1>3. QED
  BY <1>1, <1>2

\* A reset revokes, and names its boundary.
LEMMA ResetStartedFacts ==
    ASSUME NEW a \in Authorities
    PROVE  /\ Advances(a, ResetStarted(a)) /\ SameLives(a, ResetStarted(a))
           /\ ResetStarted(a).closed = a.closed
           /\ ResetStarted(a).lanes = a.lanes
           /\ Boundary(ResetStarted(a)) \in Nat
<1> DEFINE b == [a EXCEPT !.resets = a.resets + 1, !.pending = a.resets + 1, !.clean = TRUE]
<1>1. CASE a.closed
  BY <1>1, Stays, Fields DEF ResetStarted, Boundary
<1>2. CASE ~a.closed
  <2>1. a.resets + 1 \in Nat
    BY Fields
  <2>2. /\ b \in Authorities /\ b.lanes = a.lanes /\ b.token = a.token /\ b.held = a.held
        /\ b.closed = a.closed /\ b.pending \in Nat
    BY <2>1 DEF Authorities
  <2>3. ResetStarted(a) = Revoke(b)
    BY <1>2 DEF ResetStarted, Authorities
  <2> HIDE DEF b
  <2>4. QED
    BY <2>2, <2>3, Revoking, RevokeFacts DEF SameLives, Boundary
<1>3. QED
  BY <1>1, <1>2

\* The cut of an applied reset changes only what was provenance.
LEMMA ResetAppliedFacts ==
    ASSUME NEW a \in Authorities, NEW boundary
    PROVE  /\ Advances(a, ResetApplied(a, boundary)) /\ SameLives(a, ResetApplied(a, boundary))
           /\ ResetApplied(a, boundary).closed = a.closed
           /\ \A k \in Lanes :
                 ResetApplied(a, boundary).lanes[k].running = a.lanes[k].running
<1>1. CASE a.closed \/ ~ResetAccepted(a, boundary)
  BY <1>1, Stays, PoisonFacts DEF ResetApplied
<1>2. CASE ~a.closed /\ ResetAccepted(a, boundary)
  <2> DEFINE new == [l \in Lanes |-> [a.lanes[l] EXCEPT !.cut = a.lanes[l].started,
                                                        !.provenance = NoOperation]]
             b == [a EXCEPT !.appliedReset = boundary, !.lanes = new]
  <2>1. \A l \in Lanes : LaneKept(a.lanes[l], new[l])
    BY Stamp0, Fields DEF LaneKept, LaneStates
  <2>2. new \in [Lanes -> LaneStates] /\ boundary \in Nat
    BY <1>2, <2>1, Fields DEF LaneKept, ResetAccepted
  <2>3. ResetApplied(a, boundary) = b
    BY <1>2 DEF ResetApplied
  <2> HIDE DEF new
  <2>4. /\ b \in Authorities /\ b.lanes = new /\ b.token = a.token /\ b.held = a.held
        /\ b.closed = a.closed /\ b.poisoned = a.poisoned /\ b.pending = a.pending
    BY <2>2 DEF Authorities
  <2> HIDE DEF b
  <2>5. Complete(a) => Complete(b)
    BY <2>1, <2>4 DEF Complete, LaneKept
  <2>6. Advances(a, b)
    BY <2>4, <2>5, Keeping
  <2>7. QED
    BY <2>1, <2>3, <2>4, <2>6 DEF SameLives, LaneKept
<1>3. QED
  BY <1>1, <1>2

\* A restatement acknowledges, within what was requested.
LEMMA RestatedFacts ==
    ASSUME NEW a \in Authorities, NEW boundary, NEW l \in Lanes, NEW d \in Deliveries
    PROVE  /\ Advances(a, Restated(a, boundary, l, d)) /\ SameLives(a, Restated(a, boundary, l, d))
           /\ Restated(a, boundary, l, d).closed = a.closed
           /\ \A k \in Lanes : Restated(a, boundary, l, d).lanes[k].running = a.lanes[k].running
<1>1. CASE CanRestate(a, boundary, l, d)
  <2> DEFINE x == [a.lanes[l] EXCEPT !.applied = d.receipt.order]
  <2>1. /\ d.receipt.order \in Nat /\ a.lanes[l] \in LaneStates
        /\ a.lanes[l].applied \in Nat /\ a.lanes[l].requested.order \in Nat
        /\ a.lanes[l].applied <= d.receipt.order
        /\ d.receipt.order <= a.lanes[l].requested.order
    BY <1>1, Fields, LaneFields DEF Stamps, Deliveries, CanRestate
  <2>2. LaneKept(a.lanes[l], x)
    BY <2>1 DEF LaneKept, LaneStates
  <2>3. Restated(a, boundary, l, d) = [a EXCEPT !.lanes[l] = x]
    BY <1>1 DEF Restated, Authorities
  <2> HIDE DEF x
  <2>4. QED
    BY <2>2, <2>3, LaneKeeping
<1>2. CASE ~CanRestate(a, boundary, l, d)
  BY <1>2, Stays DEF Restated
<1>3. QED
  BY <1>1, <1>2

\* The end of a recovery makes a new token current.
LEMMA ReseededFacts ==
    ASSUME NEW a \in Authorities, NEW boundary
    PROVE  /\ Advances(a, Reseeded(a, boundary)) /\ SameLives(a, Reseeded(a, boundary))
           /\ Reseeded(a, boundary).closed = a.closed
           /\ \A k \in Lanes : Reseeded(a, boundary).lanes[k].running = a.lanes[k].running
<1> DEFINE b == [a EXCEPT !.pending = 0, !.poisoned = FALSE]
<1>1. CASE CanReseed(a, boundary)
  <2>1. /\ b \in Authorities /\ b.lanes = a.lanes /\ b.token = a.token /\ b.held = a.held
        /\ b.closed = a.closed
    BY DEF Authorities
  <2>2. Reseeded(a, boundary) = Revoke(b)
    BY <1>1 DEF Reseeded
  <2> HIDE DEF b
  <2>3. QED
    BY <2>1, <2>2, Revoking, RevokeFacts DEF SameLives
<1>2. CASE ~CanReseed(a, boundary)
  BY <1>2, Stays DEF Reseeded
<1>3. QED
  BY <1>1, <1>2

-----------------------------------------------------------------------------
(* Tickets *)

\* A token is captured only while it is current, and from then on it is held.
LEMMA HoldFacts ==
    ASSUME NEW a \in Authorities
    PROVE  /\ Advances(a, Hold(a)) /\ SameLives(a, Hold(a)) /\ Hold(a).token = a.token
           /\ Hold(a).closed = a.closed /\ Hold(a).lanes = a.lanes
           /\ Captures(a) => Hold(a).held
<1>1. CASE Captures(a)
  <2>1. Hold(a) = [a EXCEPT !.held = TRUE]
    BY <1>1 DEF Hold
  <2>2. /\ Hold(a) \in Authorities /\ Hold(a).held /\ Hold(a).token = a.token
        /\ Hold(a).lanes = a.lanes /\ Hold(a).closed = a.closed
        /\ Hold(a).poisoned = a.poisoned /\ Hold(a).pending = a.pending
    BY <2>1 DEF Authorities
  <2>3. Captures(Hold(a))
    BY <1>1, <2>2 DEF Captures, Current, Complete
  <2>4. QED
    BY <1>1, <2>2, <2>3, Fields DEF Advances, Guarded, SameLives
<1>2. CASE ~Captures(a)
  BY <1>2, Stays DEF Hold
<1>3. QED
  BY <1>1, <1>2

\* A frontier is the token and what was applied.
LEMMA FrontierTyped ==
    ASSUME NEW a \in Authorities
    PROVE  /\ Frontier(a) \in [token : Nat, provenance : [Lanes -> Stamps]]
           /\ Frontier(a).token = a.token
           /\ NoFrontier \in [token : Nat, provenance : [Lanes -> Stamps]]
<1>1. [l \in Lanes |-> a.lanes[l].provenance] \in [Lanes -> Stamps]
  BY Fields, LaneFields
<1>2. QED
  BY <1>1, Stamp0, Fields DEF Frontier, NoFrontier

\* Closing is for good.
LEMMA CloseFacts ==
    ASSUME NEW a \in Authorities
    PROVE  /\ Advances(a, Close(a)) /\ SameLives(a, Close(a)) /\ Close(a).closed
           /\ Close(a).lanes = a.lanes
<1> DEFINE b == [a EXCEPT !.closed = TRUE]
<1>1. /\ b \in Authorities /\ b.lanes = a.lanes /\ b.token = a.token /\ b.held = a.held
      /\ b.closed
  BY DEF Authorities
<1>2. Close(a) = Revoke(b)
  BY DEF Close
<1> HIDE DEF b
<1>3. QED
  BY <1>1, <1>2, Revoking, RevokeFacts DEF SameLives

-----------------------------------------------------------------------------
(* All of it in one relation, for steps that call several methods *)

Steady(a, b) ==
    /\ Advances(a, b) /\ SameLives(a, b) /\ b.closed = a.closed
    /\ \A k \in Lanes : b.lanes[k].running => a.lanes[k].running

\* Steady calls may be chained.
LEMMA SteadyChain ==
    ASSUME NEW a \in Authorities, NEW b, NEW c, Steady(a, b), Steady(b, c)
    PROVE  Steady(a, c)
  BY Chain DEF Steady, SameLives

\* Every method but those that begin, end or close a lifetime is steady.
LEMMA Methods ==
    ASSUME NEW a \in Authorities, NEW l \in Lanes
    PROVE  /\ Steady(a, a) /\ Steady(a, Poison(a)) /\ Steady(a, ResetStarted(a))
           /\ Steady(a, Hold(a)) /\ Steady(a, ReserveLocked(a, l))
           /\ \A life \in Nat : /\ Steady(a, Reserve(a, l, life))
                                /\ Steady(a, Stop(a, l, life))
                                /\ Steady(a, StartOperation(a, l, life))
           /\ \A op \in Stamps : Steady(a, RecordApplication(a, l, op))
           /\ \A r \in Stamps : Steady(a, Applied(a, l, r))
           /\ \A n \in Nat : Steady(a, ResetApplied(a, n)) /\ Steady(a, Reseeded(a, n))
           /\ \A n \in Nat, d \in Deliveries : Steady(a, Restated(a, n, l, d))
<1>1. Steady(a, a)
  BY Stays DEF Steady
<1>2. Steady(a, Poison(a))
  BY PoisonFacts DEF Steady
<1>3. Steady(a, ResetStarted(a))
  BY ResetStartedFacts DEF Steady
<1>4. Steady(a, Hold(a))
  BY HoldFacts DEF Steady
<1>5. Steady(a, ReserveLocked(a, l))
  BY ReserveLockedFacts DEF Steady
<1>6. ASSUME NEW life \in Nat
      PROVE  /\ Steady(a, Reserve(a, l, life)) /\ Steady(a, Stop(a, l, life))
             /\ Steady(a, StartOperation(a, l, life))
  <2>1. Steady(a, Reserve(a, l, life))
    BY ReserveFacts DEF Steady
  <2>2. Steady(a, Stop(a, l, life))
    BY StopFacts DEF Steady
  <2>3. Steady(a, StartOperation(a, l, life))
    BY StartOperationFacts DEF Steady
  <2>4. QED
    BY <2>1, <2>2, <2>3
<1>7. ASSUME NEW op \in Stamps PROVE Steady(a, RecordApplication(a, l, op))
  BY RecordFacts DEF Steady
<1>8. ASSUME NEW r \in Stamps PROVE Steady(a, Applied(a, l, r))
  BY AppliedFacts DEF Steady
<1>9. ASSUME NEW n \in Nat PROVE Steady(a, ResetApplied(a, n)) /\ Steady(a, Reseeded(a, n))
  <2>1. Steady(a, ResetApplied(a, n))
    BY ResetAppliedFacts DEF Steady
  <2>2. Steady(a, Reseeded(a, n))
    BY ReseededFacts DEF Steady
  <2>3. QED
    BY <2>1, <2>2
<1>10. ASSUME NEW n \in Nat, NEW d \in Deliveries PROVE Steady(a, Restated(a, n, l, d))
  BY RestatedFacts DEF Steady
<1>11. QED
  BY <1>1, <1>2, <1>3, <1>4, <1>5, <1>6, <1>7, <1>8, <1>9, <1>10

-----------------------------------------------------------------------------

(* The types of the variables, each under a name of its own *)

DiscS == [worker : BOOLEAN, stopping : BOOLEAN, pc : {"idle", "scan", "deliver"},
          session : Nat, seen : Nat, gen : Nat, receipt : Stamps, op : Stamps,
          latest : Deliveries]
StreamS == [worker : BOOLEAN, stopping : BOOLEAN, pc : {"idle", "work", "drain"},
            tracked : Nat, gens : Nat, receipt : Stamps, d : Deliveries, fifo : Seq(Items),
            drainer : {"none", "worker", "disp"}, carried : Items]
Frontiers == [token : Nat, provenance : [Lanes -> Stamps]]
DispS == [worker : BOOLEAN, stopping : BOOLEAN,
          pc : {"idle", "reset", "prime", "republish", "askAll", "askOne", "draining", "seal"},
          item : Items, active : BOOLEAN, activation : Nat, rosterGen : Nat,
          complete : BOOLEAN, known : Nat, boundary : Nat, restated : SUBSET Lanes,
          asked : BOOLEAN, asks : Nat, session : Nat, source : Nat, frontier : Frontiers]
Completions == [id : Nat, gen : Nat, st : {"none", "open", "ready", "failed"}]
CoS == [requested : BOOLEAN, reqGen : Nat, control : Stamps, completion : Completions,
        completions : Nat, discOn : BOOLEAN, discSub : BOOLEAN, folder : 0..Folders,
        streamSub : BOOLEAN]
PassS == [pc : {"idle", "dispatcher", "await", "disc", "discJoin", "startDisc", "stream",
                "streamJoin", "awaitRefresh", "startStream", "end", "dispJoin"},
          fleet : BOOLEAN, previews : BOOLEAN, disc : BOOLEAN, folder : 0..Folders,
          refresh : Deliveries]
Tickets == [token : Nat, session : Nat, source : Nat, activation : Nat]

Typed ==
    /\ auth \in Authorities /\ queue \in Seq(Items) /\ disc \in DiscS
    /\ stream \in StreamS /\ disp \in DispS /\ co \in CoS /\ pass \in PassS
    /\ ticket \in Tickets /\ tally \in 0..MaxEvents

\* Whoever owns delivery is at it, and has something to deliver.
DrainInv ==
    /\ (stream.drainer = "worker") = (stream.pc = "drain")
    /\ (stream.drainer = "disp") = (disp.pc = "draining")
    /\ stream.drainer # "none" => stream.fifo # <<>> \/ stream.carried # NoItem

\* Each thread's receipt is that of its lane's lifetime, and a lane that a pass
\* begins, or waits to be freed, is not running.
LifeInv ==
    /\ disc.receipt.life = auth.lanes["roster"].life
    /\ stream.receipt.life = auth.lanes["stream"].life
    /\ co.control.life = auth.lanes["control"].life
    /\ co.folder = 0 => auth.lanes["stream"].life = 0
    /\ pass.pc = "discJoin" => ~auth.lanes["roster"].running
    /\ pass.pc = "streamJoin" => ~auth.lanes["stream"].running

\* Where a pass stands: what it wants, what it has unsubscribed and who serves.
Serving == disp.worker /\ ~disp.stopping
Subscribed(c) == /\ c.discSub => c.discOn
                 /\ c.streamSub => c.folder # 0
Wants(p) == p.disc \/ p.folder # 0 => p.fleet \/ p.previews
Underway == {"await", "disc", "discJoin", "startDisc", "stream", "streamJoin",
             "awaitRefresh", "startStream"}
PastDisc == {"discJoin", "startDisc", "stream", "streamJoin", "awaitRefresh",
             "startStream", "end", "dispJoin"}
Flow(c, p, serving) ==
    /\ p.pc # "idle" => Wants(p)
    /\ p.pc \in Underway /\ (p.fleet \/ p.previews) => serving
    /\ p.pc = "startDisc" => p.disc
    /\ p.pc = "startStream" => p.folder # 0 /\ c.folder = 0
    /\ p.pc \in {"await", "awaitRefresh"} => p.fleet
    /\ p.pc = "awaitRefresh" => p.folder # 0
    /\ p.pc = "discJoin" => ~c.discSub
    /\ p.pc = "streamJoin" => ~c.streamSub
    /\ p.pc \in PastDisc /\ ~p.disc => ~c.discSub
    /\ p.pc \in {"end", "dispJoin"} /\ p.folder = 0 => ~c.streamSub
    /\ p.pc \in {"end", "dispJoin"} => ~p.fleet /\ ~p.previews
FlowInv ==
    /\ Subscribed(co) /\ (co.discSub \/ co.streamSub => Serving)
    /\ Flow(co, pass, Serving)

\* A token that is held is current; no ticket, and no frontier to be sealed, has a
\* token of the future, and one that has the token of now holds it.
Handed(token) == token <= auth.token /\ (token = auth.token => auth.held)
TicketInv ==
    /\ Guarded(auth)
    /\ Handed(ticket.token) /\ Handed(disp.frontier.token)

IInv == Typed /\ DrainInv /\ LifeInv /\ FlowInv /\ TicketInv

-----------------------------------------------------------------------------
USE AdmissionBounds

(* Data *)

\* The lanes, and that numbers of events and folders are numbers.
LEMMA Names ==
    /\ "roster" \in Lanes /\ "stream" \in Lanes /\ "control" \in Lanes
    /\ Folders \in Nat /\ MaxEvents \in Nat /\ 0 \in 0..Folders /\ 0 \in 0..MaxEvents
  BY DEF Lanes

\* An item put together from its parts is one, and so is no item.
LEMMA ItemTyped ==
    /\ \A kind \in Kinds, gen \in Nat, value \in Nat, d \in Deliveries, id \in Nat :
          Item(kind, gen, value, d, id) \in Items
    /\ NoItem \in Items
  BY Stamp0 DEF Item, NoItem, Items, Kinds

\* The fields of an item.
LEMMA ItemFields ==
    ASSUME NEW i \in Items
    PROVE  /\ i.kind \in Kinds /\ i.gen \in Nat /\ i.value \in Nat /\ i.id \in Nat
           /\ i.d \in Deliveries /\ i.d.op \in Stamps /\ i.d.receipt \in Stamps
           /\ i.d.reset \in Nat /\ i.d.invalidates \in BOOLEAN
  BY DEF Items, Deliveries

\* The fields of the threads' records that their steps read.
LEMMA Parts ==
    ASSUME Typed
    PROVE  /\ disc.session \in Nat /\ disc.seen \in Nat /\ disc.gen \in Nat
           /\ disc.receipt \in Stamps /\ disc.op \in Stamps /\ disc.latest \in Deliveries
           /\ disc.receipt.life \in Nat /\ disc.op.life \in Nat
           /\ stream.tracked \in Nat /\ stream.gens \in Nat /\ stream.receipt \in Stamps
           /\ stream.receipt.life \in Nat /\ stream.d \in Deliveries
           /\ stream.d.op \in Stamps /\ stream.fifo \in Seq(Items) /\ stream.carried \in Items
           /\ disp.item \in Items /\ disp.boundary \in Nat /\ disp.asks \in Nat
           /\ co.control \in Stamps /\ co.control.life \in Nat /\ co.completion \in Completions
           /\ co.reqGen \in Nat /\ co.completions \in Nat /\ co.folder \in 0..Folders
           /\ pass.folder \in 0..Folders /\ pass.refresh \in Deliveries
<1>1. disc \in DiscS /\ stream \in StreamS /\ disp \in DispS /\ co \in CoS /\ pass \in PassS
  BY DEF Typed
<1>2. \A s \in Stamps : s.life \in Nat
  BY DEF Stamps
<1>3. \A d \in Deliveries : d.op \in Stamps
  BY DEF Deliveries
<1>4. QED
  BY <1>1, <1>2, <1>3 DEF DiscS, StreamS, DispS, CoS, PassS

\* A queue that is not empty has a first item and a rest; appending keeps the type.
LEMMA Queues ==
    ASSUME NEW s \in Seq(Items)
    PROVE  /\ s # <<>> => Head(s) \in Items /\ Tail(s) \in Seq(Items)
           /\ \A i \in Items : Append(s, i) \in Seq(Items) /\ Append(s, i) # <<>>
           /\ <<>> \in Seq(Items)
<1>1. s # <<>> => Head(s) \in Items /\ Tail(s) \in Seq(Items)
  BY HeadTailProperties
<1>2. \A i \in Items : Append(s, i) \in Seq(Items) /\ Append(s, i) # <<>>
  BY AppendProperties
<1>3. QED
  BY <1>1, <1>2

\* An operation of the stream, as a delivery.
LEMMA OperationTyped ==
    ASSUME NEW a \in Authorities, NEW r \in Stamps, NEW n \in Nat
    PROVE  OperationOf(a, r, n) \in Deliveries
<1>1. r.life \in Nat
  BY DEF Stamps
<1>2. Started(a, "stream", r.life) \in Stamps
  BY <1>1, StartOperationFacts, Names
<1>3. QED
  BY <1>2, DeliveryTyped, Stamp0 DEF OperationOf

-----------------------------------------------------------------------------
(* Steps aside from the pass *)

\* All that the workers, the queue of deliveries and the dispatcher may do to what a
\* pass relies on.
Aside ==
    /\ Typed' /\ DrainInv' /\ Steady(auth, auth') /\ UNCHANGED pass
    /\ co'.discOn = co.discOn /\ co'.discSub = co.discSub /\ co'.folder = co.folder
    /\ co'.streamSub = co.streamSub /\ co'.control = co.control
    /\ disp'.worker = disp.worker /\ disp'.stopping = disp.stopping
    /\ disc'.receipt.life = auth.lanes["roster"].life
    /\ stream'.receipt.life = auth.lanes["stream"].life

\* A step that keeps the ticket and the frontier to be sealed.
Kept == UNCHANGED ticket /\ disp'.frontier = disp.frontier

\* Steps aside keep where the pass stands and whose lifetimes the lanes are.
LEMMA AsideKeeps ==
    ASSUME LifeInv, FlowInv, Aside
    PROVE  Typed' /\ DrainInv' /\ LifeInv' /\ FlowInv' /\ Advances(auth, auth')
<1>1. LifeInv'
  BY Names DEF LifeInv, Aside, Steady, SameLives
<1>2. Flow(co, pass, Serving)' /\ Subscribed(co)' /\ Serving' = Serving
  BY DEF FlowInv, Flow, Subscribed, Serving, Aside, Wants
<1>3. FlowInv'
  BY <1>2 DEF FlowInv, Aside
<1>4. QED
  BY <1>1, <1>3 DEF Aside, Steady

\* Discovery: a scan that begins takes an operation.
LEMMA ScanBeginStep ==
    ASSUME Typed, DrainInv, LifeInv, ScanBegin
    PROVE  Aside /\ Kept
<1>0. auth' = StartOperation(auth, "roster", disc.receipt.life) /\ disc.receipt.life \in Nat
      /\ auth \in Authorities
  BY Parts DEF ScanBegin, Typed
<1>1. Steady(auth, auth')
  BY <1>0, Names, Methods
<1>2. auth' \in Authorities
  BY <1>1 DEF Steady, Advances
<1>3. /\ Steady(auth, auth') /\ auth' \in Authorities
      /\ Started(auth', "roster", disc.receipt.life) \in Stamps
  BY <1>0, <1>1, <1>2, Names, StartOperationFacts
<1>4. tally' \in 0..MaxEvents
  BY Names DEF ScanBegin, Typed
<1>5. disc' \in DiscS /\ disc'.receipt = disc.receipt
  BY <1>3 DEF ScanBegin, Typed, DiscS
<1>6. Typed'
  BY <1>3, <1>4, <1>5 DEF ScanBegin, Typed
<1>7. QED
  BY <1>3, <1>5, <1>6 DEF Aside, Kept, ScanBegin, DrainInv, LifeInv

\* A scan that found a change has reserved first; the receipt is its lane's.
LEMMA ScanCommitStep ==
    ASSUME Typed, DrainInv, LifeInv, ScanCommit
    PROVE  Aside /\ Kept
<1>0. auth \in Authorities /\ disc \in DiscS
  BY DEF Typed
<1>1. CASE disc' = [disc EXCEPT !.pc = "idle", !.op = NoOperation] /\ UNCHANGED auth
  <2>1. disc' \in DiscS /\ disc'.receipt = disc.receipt
    BY <1>0, <1>1, Stamp0 DEF DiscS
  <2>2. Steady(auth, auth')
    BY <1>0, <1>1, Names, Methods
  <2>3. QED
    BY <1>1, <2>1, <2>2 DEF Aside, Kept, ScanCommit, Typed, DrainInv, LifeInv
<1>2. ASSUME NEW s \in {disc.session, 0, disc.seen + 1},
             LET reserves == /\ s # disc.session
                             /\ disc.op # NoOperation
                             /\ Owns(auth, "roster", disc.op.life)
                 receipt == IF reserves THEN Granted(auth', "roster") ELSE disc.receipt
             IN  /\ auth' = IF reserves THEN ReserveLocked(auth, "roster") ELSE auth
                 /\ disc' = [disc EXCEPT
                        !.pc = IF co.discSub THEN "deliver" ELSE "idle",
                        !.session = s, !.gen = @ + 1,
                        !.seen = IF s > @ THEN s ELSE @,
                        !.receipt = receipt, !.op = NoOperation,
                        !.latest = IF disc.op = NoOperation \/ receipt = NoReceipt
                                   THEN NoDelivery
                                   ELSE Delivery(disc.op, receipt, 0, FALSE)]
      PROVE  Aside /\ Kept
  <2> DEFINE reserves == /\ s # disc.session /\ disc.op # NoOperation
                         /\ Owns(auth, "roster", disc.op.life)
             receipt == IF reserves THEN Granted(auth', "roster") ELSE disc.receipt
             latest == IF disc.op = NoOperation \/ receipt = NoReceipt
                       THEN NoDelivery ELSE Delivery(disc.op, receipt, 0, FALSE)
  <2>1. auth' = IF reserves THEN ReserveLocked(auth, "roster") ELSE auth
    BY <1>2
  <2>2. Steady(auth, auth') /\ auth' \in Authorities
    BY <1>0, <2>1, Names, Methods DEF Steady, Advances
  <2>3. receipt \in Stamps /\ receipt.life = auth.lanes["roster"].life
    <3>1. CASE reserves
      <4>1. receipt = auth'.lanes["roster"].requested
        BY <1>0, <2>1, <3>1, ReserveLockedFacts, Names DEF Granted, Owns
      <4>2. QED
        BY <1>0, <2>1, <2>2, <3>1, <4>1, ReserveLockedFacts, Names, Fields, LaneFields
    <3>2. QED
      BY <3>1, Parts DEF LifeInv
  <2>4. latest \in Deliveries
    BY <2>3, Parts, Stamp0, DeliveryTyped
  <2>5. disc' = [disc EXCEPT !.pc = IF co.discSub THEN "deliver" ELSE "idle",
                    !.session = s, !.gen = disc.gen + 1,
                    !.seen = IF s > disc.seen THEN s ELSE disc.seen,
                    !.receipt = receipt, !.op = NoOperation, !.latest = latest]
    BY <1>2
  <2>6. s \in Nat /\ disc.gen + 1 \in Nat /\ disc.seen \in Nat
    <3> HIDE DEF receipt, latest, reserves
    <3>1. disc.session \in Nat /\ disc.gen \in Nat /\ disc.seen \in Nat
      BY Parts
    <3>2. QED
      BY <3>1
  <2> HIDE DEF receipt, latest, reserves
  <2>7. disc' \in DiscS /\ disc'.receipt = receipt
    BY <1>0, <2>3, <2>4, <2>5, <2>6, Stamp0 DEF DiscS
  <2>8. QED
    BY <2>2, <2>3, <2>7 DEF Aside, Kept, ScanCommit, Typed, DrainInv, LifeInv
<1>3. QED
  BY <1>1, <1>2 DEF ScanCommit

\* The callback only puts a roster in the queue.
LEMMA ScanDeliverStep ==
    ASSUME Typed, DrainInv, LifeInv, ScanDeliver
    PROVE  Aside /\ Kept
<1>1. disc' \in DiscS /\ disc'.receipt = disc.receipt
  BY DEF ScanDeliver, Typed, DiscS
<1>2. Item("roster", disc.gen, disc.session, disc.latest, 0) \in Items
  BY Parts, ItemTyped DEF Kinds
<1>3. queue' \in Seq(Items)
  BY <1>2, Queues DEF ScanDeliver, Typed
<1>4. Steady(auth, auth')
  BY Methods, Names DEF ScanDeliver, Typed
<1>5. QED
  BY <1>1, <1>3, <1>4 DEF Aside, Kept, ScanDeliver, Typed, DrainInv, LifeInv

\* A batch that carries an operation of its own.
LEMMA WorkBeginStep ==
    ASSUME Typed, DrainInv, LifeInv, WorkBegin
    PROVE  Aside /\ Kept
<1>1. auth' = StartOperation(auth, "stream", stream.receipt.life)
      /\ stream.receipt.life \in Nat /\ stream.receipt \in Stamps /\ auth \in Authorities
  BY Parts DEF WorkBegin, Typed
<1>2. Steady(auth, auth')
  BY <1>1, Names, Methods
<1>3. auth' \in Authorities
  BY <1>2 DEF Steady, Advances
<1>4. OperationOf(auth', stream.receipt, 0) \in Deliveries
  BY <1>1, <1>3, OperationTyped
<1>5. stream' \in StreamS /\ stream'.receipt = stream.receipt /\ stream'.pc = "work"
      /\ stream'.drainer = stream.drainer /\ stream'.fifo = stream.fifo
      /\ stream'.carried = stream.carried /\ stream.pc = "idle"
  BY <1>4 DEF WorkBegin, Typed, StreamS
<1>6. tally' \in 0..MaxEvents
  BY Names DEF WorkBegin, Typed
<1>7. Typed'
  BY <1>3, <1>5, <1>6 DEF WorkBegin, Typed
<1>8. DrainInv'
  BY <1>5 DEF DrainInv, WorkBegin
<1>9. QED
  BY <1>2, <1>5, <1>7, <1>8 DEF Aside, Kept, WorkBegin, LifeInv

\* The end of an operation of the log worker: it delivers unless another thread does.
LEMMA WorkDoneFacts ==
    ASSUME NEW st \in StreamS, st.pc = "work", st.drainer # "worker"
    PROVE  /\ WorkDone(st) \in StreamS /\ WorkDone(st).receipt = st.receipt
           /\ WorkDone(st).fifo = st.fifo /\ WorkDone(st).carried = st.carried
           /\ (WorkDone(st).drainer = "worker") = (WorkDone(st).pc = "drain")
           /\ (WorkDone(st).drainer = "disp") = (st.drainer = "disp")
           /\ WorkDone(st).drainer # "none" => st.drainer # "none" \/ st.fifo # <<>>
<1> DEFINE u == [st EXCEPT !.d = NoDelivery]
           c == Claimed(u, "worker")
<1>1. /\ u \in StreamS /\ u.receipt = st.receipt /\ u.fifo = st.fifo
      /\ u.carried = st.carried /\ u.drainer = st.drainer /\ u.pc = "work"
  BY Stamp0 DEF StreamS
<1> HIDE DEF u
<1>2. /\ c \in StreamS /\ c.receipt = u.receipt /\ c.fifo = u.fifo /\ c.carried = u.carried
      /\ (c.drainer = "disp") = (u.drainer = "disp")
      /\ c.drainer # "none" => u.drainer # "none" \/ u.fifo # <<>>
  BY <1>1 DEF Claimed, StreamS
<1>3. WorkDone(st) = [c EXCEPT !.pc = IF c.drainer = "worker" THEN "drain" ELSE "idle"]
  BY DEF WorkDone, u
<1> HIDE DEF c
<1>4. QED
  BY <1>1, <1>2, <1>3 DEF StreamS

\* An operation of the log worker reserves before it mutates, and leaves a batch.
LEMMA MutateFacts ==
    ASSUME Typed, LifeInv, NEW g \in Nat
    PROVE  /\ Steady(auth, Mutate(g).auth) /\ Mutate(g).stream \in StreamS
           /\ Mutate(g).stream.receipt.life = auth.lanes["stream"].life
           /\ Mutate(g).stream.pc = stream.pc /\ Mutate(g).stream.drainer = stream.drainer
           /\ Mutate(g).stream.fifo # <<>>
<1> DEFINE a == IF Invalidates THEN ReserveLocked(auth, "stream") ELSE auth
           r == IF Invalidates THEN Granted(a, "stream") ELSE stream.receipt
           d == IF Invalidates THEN Delivery(stream.d.op, r, 0, TRUE) ELSE stream.d
           i == Item("source", 0, g, d, 0)
           t == [stream EXCEPT !.tracked = g, !.gens = IF g > stream.gens THEN g ELSE stream.gens,
                               !.receipt = r, !.fifo = Append(stream.fifo, i)]
<1>0. auth \in Authorities /\ stream \in StreamS
  BY DEF Typed
<1>1. Steady(auth, a)
  BY <1>0, Names, Methods
<1>2. a \in Authorities
  BY <1>1 DEF Steady, Advances
<1>3. r \in Stamps /\ r.life = auth.lanes["stream"].life
  <2>1. CASE Invalidates
    <3>1. r = ReserveLocked(auth, "stream").lanes["stream"].requested
      BY <1>0, <2>1, ReserveLockedFacts, Names DEF Granted, Invalidates, Owns
    <3>2. ReserveLocked(auth, "stream") \in Authorities
      BY <1>2, <2>1
    <3>3. QED
      BY <1>0, <3>1, <3>2, ReserveLockedFacts, Names, Fields, LaneFields
  <2>2. QED
    BY <2>1, Parts DEF LifeInv
<1>4. d \in Deliveries
  BY <1>3, Parts, DeliveryTyped
<1>5. i \in Items
  BY <1>4, ItemTyped DEF Kinds
<1>6. Append(stream.fifo, i) \in Seq(Items) /\ Append(stream.fifo, i) # <<>>
  BY <1>5, Parts, Queues
<1>7. Mutate(g).auth = a /\ Mutate(g).stream = t
  BY DEF Mutate
<1>8. stream.gens \in Nat
  BY Parts
<1> HIDE DEF a, r, d, i
<1>9. /\ t \in StreamS /\ t.receipt = r /\ t.pc = stream.pc /\ t.drainer = stream.drainer
      /\ t.fifo = Append(stream.fifo, i)
  BY <1>0, <1>3, <1>6, <1>8 DEF StreamS
<1> HIDE DEF t
<1>10. QED
  BY <1>1, <1>3, <1>6, <1>7, <1>9

\* Finding, losing or reading a log.
LEMMA WorkStep ==
    ASSUME Typed, DrainInv, LifeInv, Work
    PROVE  Aside /\ Kept
<1>0. auth \in Authorities /\ stream \in StreamS /\ stream.pc = "work"
  BY DEF Typed, Work
<1>1. ASSUME NEW st \in StreamS, st.pc = "work", st.drainer = stream.drainer,
             st.receipt.life = auth.lanes["stream"].life, Steady(auth, auth'),
             st.drainer # "none" => st.fifo # <<>> \/ st.carried # NoItem,
             stream' = WorkDone(st)
      PROVE  Aside /\ Kept
  <2>1. st.drainer # "worker"
    BY <1>0, <1>1 DEF DrainInv
  <2>2. /\ stream' \in StreamS /\ stream'.receipt = st.receipt /\ stream'.fifo = st.fifo
        /\ stream'.carried = st.carried
        /\ (stream'.drainer = "worker") = (stream'.pc = "drain")
        /\ (stream'.drainer = "disp") = (st.drainer = "disp")
        /\ stream'.drainer # "none" => st.drainer # "none" \/ st.fifo # <<>>
    BY <1>1, <2>1, WorkDoneFacts
  <2>3. auth' \in Authorities
    BY <1>1 DEF Steady, Advances
  <2>4. Typed'
    BY <2>2, <2>3 DEF Typed, Work
  <2>5. DrainInv'
    BY <1>1, <2>2 DEF DrainInv, Work
  <2>6. QED
    BY <1>1, <2>2, <2>4, <2>5 DEF Aside, Kept, Work, LifeInv
<1>2. Steady(auth, auth)
  BY <1>0, Names, Methods
<1>3. CASE auth' = auth /\ stream' = WorkDone(stream)
  BY <1>0, <1>1, <1>2, <1>3 DEF DrainInv, LifeInv
<1>4. CASE /\ auth' = auth
           /\ stream' = WorkDone([stream EXCEPT
                           !.fifo = Append(@, Item("facts", 0, 0, stream.d, 0))])
  <2> DEFINE i == Item("facts", 0, 0, stream.d, 0)
             t == [stream EXCEPT !.fifo = Append(stream.fifo, i)]
  <2>1. i \in Items
    BY Parts, ItemTyped DEF Kinds
  <2>2. Append(stream.fifo, i) \in Seq(Items) /\ Append(stream.fifo, i) # <<>>
    BY <2>1, Parts, Queues
  <2>3. stream' = WorkDone(t)
    BY <1>4
  <2> HIDE DEF i
  <2>4. /\ t \in StreamS /\ t.receipt = stream.receipt /\ t.pc = "work"
        /\ t.drainer = stream.drainer /\ t.fifo = Append(stream.fifo, i)
    BY <1>0, <2>2 DEF StreamS
  <2> HIDE DEF t
  <2>5. t.receipt.life = auth.lanes["stream"].life /\ Steady(auth, auth')
    BY <1>2, <1>4, <2>4 DEF LifeInv
  <2>6. QED
    BY <1>1, <2>2, <2>3, <2>4, <2>5
<1>5. ASSUME NEW g \in {0, stream.gens + 1} \ {stream.tracked},
             auth' = Mutate(g).auth, stream' = WorkDone(Mutate(g).stream)
      PROVE  Aside /\ Kept
  <2>1. g \in Nat
    BY Parts
  <2>2. QED
    BY <1>0, <1>1, <1>5, <2>1, MutateFacts
<1>6. QED
  BY <1>3, <1>4, <1>5 DEF Work

\* The owner of delivery leaves when there is nothing left to deliver, and only then.
LEMMA DrainEndsFacts ==
    ASSUME NEW st \in StreamS, (st.drainer = "worker") = (st.pc = "drain"), st.drainer # "none"
    PROVE  LET t == DrainEnds(st) IN
           /\ t \in StreamS /\ t.receipt = st.receipt
           /\ (t.drainer = "worker") = (t.pc = "drain")
           /\ t.drainer = st.drainer \/ t.drainer = "none"
           /\ t.drainer # "none" => t.fifo # <<>> \/ t.carried # NoItem
  BY DEF DrainEnds, StreamS

\* The dispatcher goes on once it is no longer delivering.
LEMMA DrainStep ==
    ASSUME Typed, DrainInv, LifeInv, NEW st \in StreamS, st.receipt = stream.receipt,
           st.drainer = stream.drainer, st.pc = stream.pc, stream.drainer # "none",
           stream' = DrainEnds(st), disp' = DispatcherAfter(stream'), queue' \in Seq(Items),
           UNCHANGED <<auth, disc, co, pass, ticket, tally>>
    PROVE  Aside /\ Kept
<1>0. auth \in Authorities /\ disp \in DispS
  BY DEF Typed
<1>1. /\ stream' \in StreamS /\ stream'.receipt = st.receipt
      /\ (stream'.drainer = "worker") = (stream'.pc = "drain")
      /\ stream'.drainer = st.drainer \/ stream'.drainer = "none"
      /\ stream'.drainer # "none" => stream'.fifo # <<>> \/ stream'.carried # NoItem
  BY DrainEndsFacts DEF DrainInv
<1>2. /\ disp' \in DispS /\ disp'.worker = disp.worker /\ disp'.stopping = disp.stopping
      /\ disp'.frontier = disp.frontier
      /\ disp'.pc = IF disp.pc = "draining" /\ stream'.drainer = "none" THEN "idle" ELSE disp.pc
  BY <1>0 DEF DispatcherAfter, DispS
<1>3. DrainInv'
  BY <1>1, <1>2 DEF DrainInv
<1>4. Typed'
  BY <1>1, <1>2 DEF Typed
<1>5. Steady(auth, auth')
  BY <1>0, Names, Methods
<1>6. QED
  BY <1>1, <1>2, <1>3, <1>4, <1>5 DEF Aside, Kept, LifeInv

\* One batch out of the delivery queue, and into the dispatcher's.
LEMMA DrainTakeStep ==
    ASSUME Typed, DrainInv, LifeInv, DrainTake
    PROVE  Aside /\ Kept
<1> DEFINE c == IF co.streamSub THEN Head(stream.fifo) ELSE NoItem
           t == [stream EXCEPT !.fifo = Tail(stream.fifo), !.carried = c]
<1>0. stream \in StreamS /\ queue \in Seq(Items)
  BY DEF Typed
<1>1. stream.fifo # <<>> /\ stream.drainer # "none"
  BY DEF DrainTake, DrainInv
<1>2. c \in Items /\ Tail(stream.fifo) \in Seq(Items)
  BY <1>1, Parts, Queues, ItemTyped
<1>3. stream' = DrainEnds(t) /\ disp' = DispatcherAfter(stream')
      /\ UNCHANGED <<auth, queue, disc, co, pass, ticket, tally>>
  BY DEF DrainTake
<1> HIDE DEF c
<1>4. t \in StreamS /\ t.receipt = stream.receipt /\ t.drainer = stream.drainer
      /\ t.pc = stream.pc
  BY <1>0, <1>2 DEF StreamS
<1> HIDE DEF t
<1>5. QED
  BY <1>0, <1>1, <1>3, <1>4, DrainStep
\* The batch that was taken goes into the dispatcher's queue.
LEMMA DrainPutStep ==
    ASSUME Typed, DrainInv, LifeInv, DrainPut
    PROVE  Aside /\ Kept
<1> DEFINE t == [stream EXCEPT !.carried = NoItem]
<1>0. stream \in StreamS /\ queue \in Seq(Items) /\ stream.drainer # "none"
  BY DEF Typed, DrainPut
<1>1. queue' \in Seq(Items)
  BY <1>0, Parts, Queues DEF DrainPut
<1>2. stream' = DrainEnds(t) /\ disp' = DispatcherAfter(stream')
      /\ UNCHANGED <<auth, disc, co, pass, ticket, tally>>
  BY DEF DrainPut
<1>3. t \in StreamS /\ t.receipt = stream.receipt /\ t.drainer = stream.drainer
      /\ t.pc = stream.pc
  BY <1>0, ItemTyped DEF StreamS
<1> HIDE DEF t
<1>4. QED
  BY <1>0, <1>1, <1>2, <1>3, DrainStep

-----------------------------------------------------------------------------
(* The dispatcher *)

\* What a step of the dispatcher keeps of its own record.
Same(d, e) == /\ e \in DispS /\ e.worker = d.worker /\ e.stopping = d.stopping
              /\ e.frontier = d.frontier
\* What it may change of the coordinator: the completion.
Signalled(c) == /\ c \in CoS /\ c.discOn = co.discOn /\ c.discSub = co.discSub
                /\ c.folder = co.folder /\ c.streamSub = co.streamSub
                /\ c.control = co.control

\* A step of the dispatcher outside delivery is aside.
LEMMA DispStep ==
    ASSUME Typed, DrainInv, LifeInv, Steady(auth, auth'), Same(disp, disp'),
           disp.pc # "draining", disp'.pc # "draining", Signalled(co'),
           queue' \in Seq(Items), tally' \in 0..MaxEvents,
           UNCHANGED <<disc, stream, pass, ticket>>
    PROVE  Aside /\ Kept
<1>1. auth' \in Authorities
  BY DEF Steady, Advances
<1>2. Typed'
  BY <1>1 DEF Typed, Same, Signalled
<1>3. DrainInv'
  BY DEF DrainInv
<1>4. QED
  BY <1>2, <1>3 DEF Aside, Kept, Same, Signalled, LifeInv

\* What the steps that leave something alone need of it.
LEMMA DispAlone ==
    ASSUME Typed
    PROVE  /\ Same(disp, disp) /\ Signalled(co) /\ queue \in Seq(Items)
           /\ Steady(auth, auth) /\ Steady(auth, Poison(auth)) /\ tally \in 0..MaxEvents
           /\ Failing => Failed \in 0..MaxEvents
<1>1. Steady(auth, auth) /\ Steady(auth, Poison(auth))
  BY Methods, Names DEF Typed
<1>2. Failing => Failed \in 0..MaxEvents
  BY Names DEF Typed, Failing, Failed
<1>3. QED
  BY <1>1, <1>2 DEF Typed, Same, Signalled

\* A completion is signalled, or it is not the one that is waited for.
LEMMA SignalFacts ==
    ASSUME Typed, NEW id, NEW ok \in BOOLEAN
    PROVE  Signalled(Signal(id, ok))
<1>1. co.completion \in Completions /\ co \in CoS
  BY Parts DEF Typed
<1>2. ASSUME NEW st \in {"ready", "failed"}
      PROVE  Signalled([co EXCEPT !.completion.st = st])
  <2>1. [co.completion EXCEPT !.st = st] \in Completions
    BY <1>1 DEF Completions
  <2>2. [co EXCEPT !.completion.st = st]
          = [co EXCEPT !.completion = [co.completion EXCEPT !.st = st]]
    BY <1>1 DEF CoS
  <2>3. QED
    BY <1>1, <2>1, <2>2 DEF Signalled, CoS
<1>3. QED
  BY <1>1, <1>2 DEF Signal, Signalled

\* The item a step takes, and what is left.
LEMMA TakesFacts ==
    ASSUME Typed, NEW item, Takes(item)
    PROVE  item \in Items /\ queue' \in Seq(Items) /\ disp.pc = "idle"
  BY Queues DEF Takes, Typed

\* Fleet Metrics forget a session that is gone.
LEMMA ConsumeFacts ==
    ASSUME Typed, NEW n \in Nat
    PROVE  /\ Same(disp, ConsumeRoster(n)) /\ ConsumeRoster(n).pc = disp.pc
           /\ Same(disp, ConsumeSource(n)) /\ ConsumeSource(n).pc = disp.pc
  BY DEF Typed, Same, ConsumeRoster, ConsumeSource, DispS

\* The calls for one applied batch, one after the other.
LEMMA FinishFacts ==
    ASSUME NEW a \in Authorities, NEW d \in DispS, NEW item \in Items
    PROVE  /\ Steady(a, Finish(a, d, item).auth)
           /\ Same(d, Finish(a, d, item).disp) /\ Finish(a, d, item).disp.pc = d.pc
<1> DEFINE lane == IF Roster(item) THEN "roster" ELSE "stream"
           b == RecordApplication(a, lane, item.d.op)
           c == IF Roster(item) \/ item.d.invalidates
                THEN Applied(b, lane, item.d.receipt) ELSE b
           ok == CanRestate(c, d.boundary, lane, item.d)
           e == IF Restates(item) THEN Restated(c, d.boundary, lane, item.d) ELSE c
           restated == IF ~Restates(item) THEN d.restated
                       ELSE IF ok THEN d.restated \cup {lane} ELSE d.restated \ {lane}
           reseeds == d.boundary # 0 /\ restated = Lanes
           over == reseeds /\ CanReseed(e, d.boundary)
           t == [d EXCEPT !.restated = restated,
                          !.boundary = IF over THEN 0 ELSE d.boundary]
<1>1. lane \in Lanes /\ d.boundary \in Nat /\ d.restated \in SUBSET Lanes
  BY DEF Lanes, DispS
<1>2. item.d \in Deliveries /\ item.d.op \in Stamps /\ item.d.receipt \in Stamps
  BY ItemFields
<1> HIDE DEF lane
<1>3. Steady(a, b)
  BY <1>1, <1>2, Methods
<1>4. b \in Authorities
  BY <1>3 DEF Steady, Advances
<1> HIDE DEF b
<1>5. Steady(b, c)
  BY <1>1, <1>2, <1>4, Methods
<1>6. c \in Authorities
  BY <1>5 DEF Steady, Advances
<1> HIDE DEF c
<1>7. Steady(c, e)
  BY <1>1, <1>2, <1>6, Methods
<1>8. e \in Authorities
  BY <1>7 DEF Steady, Advances
<1> HIDE DEF e
<1>9. Steady(e, e) /\ Steady(e, Reseeded(e, d.boundary))
  BY <1>1, <1>8, Methods
<1>10. Steady(a, e) /\ Steady(a, Reseeded(e, d.boundary))
  BY <1>3, <1>4, <1>5, <1>6, <1>7, <1>8, <1>9, SteadyChain
<1>11. restated \in SUBSET Lanes
  BY <1>1
<1> HIDE DEF ok
<1>12. Finish(a, d, item) =
          IF item.d.op = NoOperation
          THEN [auth |-> IF Roster(item) THEN a ELSE Poison(a), disp |-> d]
          ELSE [auth |-> IF reseeds THEN Reseeded(e, d.boundary) ELSE e, disp |-> t]
  BY DEF Finish, lane, b, c, e, ok
<1> HIDE DEF restated
<1>13. Same(d, t) /\ t.pc = d.pc
  BY <1>1, <1>11 DEF Same, DispS
<1> HIDE DEF t, reseeds
<1>14. Steady(a, a) /\ Steady(a, Poison(a)) /\ Same(d, d)
  BY <1>1, Methods DEF Same
<1>15. QED
  BY <1>10, <1>12, <1>13, <1>14

\* A roster is applied whole: then its sources are asked for.
LEMMA ApplyRosterFacts ==
    ASSUME Typed, NEW a, Steady(auth, a), NEW item \in Items, ApplyRoster(a, item)
    PROVE  Steady(auth, auth') /\ Same(disp, disp') /\ disp'.pc = "republish"
<1> DEFINE f == Finish(a, ConsumeRoster(item.value), item)
<1>1. a \in Authorities /\ auth \in Authorities
  BY DEF Steady, Advances, Typed
<1>2. item.value \in Nat /\ item.gen \in Nat
  BY ItemFields
<1>3. Same(disp, ConsumeRoster(item.value)) /\ ConsumeRoster(item.value) \in DispS
  BY <1>2, ConsumeFacts DEF Same
<1>4. Steady(a, f.auth) /\ Same(ConsumeRoster(item.value), f.disp)
  BY <1>1, <1>3, FinishFacts
<1>5. auth' = f.auth /\ disp' = [f.disp EXCEPT !.rosterGen = item.gen, !.complete = TRUE,
                                              !.pc = "republish", !.asks = item.value]
  BY DEF ApplyRoster
<1> HIDE DEF f
<1>6. Steady(auth, auth')
  BY <1>1, <1>4, <1>5, SteadyChain
<1>7. Same(f.disp, disp') /\ disp'.pc = "republish"
  BY <1>2, <1>4, <1>5 DEF Same, DispS
<1>8. QED
  BY <1>3, <1>4, <1>6, <1>7 DEF Same

\* A roster out of the queue: an old one is passed over, one that fails poisons.
LEMMA TakeRosterStep ==
    ASSUME Typed, DrainInv, LifeInv, TakeRoster
    PROVE  Aside /\ Kept
<1>1. PICK item : /\ Takes(item)
                  /\ \/ ~NewRoster(item) /\ UNCHANGED <<auth, disp, tally>>
                     \/ NewRoster(item) /\ ApplyRoster(auth, item) /\ UNCHANGED tally
                     \/ /\ NewRoster(item) /\ Failing
                        /\ auth' = Poison(auth) /\ tally' = Failed
                        /\ UNCHANGED disp
                  /\ UNCHANGED <<disc, stream, co, pass, ticket>>
  BY DEF TakeRoster
<1>2. item \in Items /\ queue' \in Seq(Items) /\ disp.pc = "idle"
  BY <1>1, TakesFacts
<1>3. CASE ~NewRoster(item) /\ UNCHANGED <<auth, disp, tally>>
  BY <1>1, <1>2, <1>3, DispStep, DispAlone
<1>4. CASE NewRoster(item) /\ ApplyRoster(auth, item) /\ UNCHANGED tally
  <2>1. Steady(auth, auth') /\ Same(disp, disp') /\ disp'.pc = "republish"
    BY <1>2, <1>4, ApplyRosterFacts, DispAlone
  <2>2. QED
    BY <1>1, <1>2, <1>4, <2>1, DispStep, DispAlone
<1>5. CASE NewRoster(item) /\ Failing /\ auth' = Poison(auth) /\ tally' = Failed /\ UNCHANGED disp
  BY <1>1, <1>2, <1>5, DispStep, DispAlone
<1>6. QED
  BY <1>1, <1>3, <1>4, <1>5

\* A source or facts out of the queue.
LEMMA TakeBatchStep ==
    ASSUME Typed, DrainInv, LifeInv, TakeBatch
    PROVE  Aside /\ Kept
<1>1. PICK item :
        LET d == IF item.kind = "source" THEN ConsumeSource(item.value) ELSE disp
            f == Finish(auth, d, item)
        IN  /\ Takes(item)
            /\ \/ UNCHANGED <<auth, disp, tally>>
               \/ auth' = f.auth /\ disp' = f.disp /\ UNCHANGED tally
               \/ Failing /\ auth' = Poison(auth) /\ tally' = Failed /\ UNCHANGED disp
            /\ UNCHANGED <<disc, stream, co, pass, ticket>>
  BY DEF TakeBatch
<1> DEFINE d == IF item.kind = "source" THEN ConsumeSource(item.value) ELSE disp
           f == Finish(auth, d, item)
<1>2. item \in Items /\ queue' \in Seq(Items) /\ disp.pc = "idle" /\ item.value \in Nat
  BY <1>1, TakesFacts, ItemFields
<1>3. Same(disp, d) /\ d.pc = disp.pc /\ d \in DispS /\ auth \in Authorities
  BY <1>2, ConsumeFacts, DispAlone DEF Same, Typed
<1> HIDE DEF d
<1>4. Steady(auth, f.auth) /\ Same(d, f.disp) /\ f.disp.pc = d.pc
  BY <1>2, <1>3, FinishFacts
<1>5. Same(disp, f.disp)
  BY <1>3, <1>4 DEF Same
<1> USE DEF d
<1>6. UNCHANGED <<disc, stream, co, pass, ticket>>
  BY <1>1
<1> HIDE DEF f, d
<1>7. CASE UNCHANGED <<auth, disp, tally>>
  BY <1>2, <1>6, <1>7, DispStep, DispAlone
<1>8. CASE auth' = f.auth /\ disp' = f.disp /\ UNCHANGED tally
  BY <1>2, <1>3, <1>4, <1>5, <1>6, <1>8, DispStep, DispAlone
<1>9. CASE Failing /\ auth' = Poison(auth) /\ tally' = Failed /\ UNCHANGED disp
  BY <1>2, <1>6, <1>9, DispStep, DispAlone
<1>10. QED
  BY <1>1, <1>7, <1>8, <1>9 DEF f, d

\* A mode, a refresh or the news that the stream runs.
LEMMA TakeControlStep ==
    ASSUME Typed, DrainInv, LifeInv, TakeControl
    PROVE  Aside /\ Kept
<1>1. PICK item :
        LET on == item.value = 1
            resets == IF item.kind = "mode" THEN on # disp.active ELSE disp.active
        IN  /\ Takes(item)
            /\ \/ /\ disp' = [disp EXCEPT !.pc = "reset", !.item = item,
                           !.active = IF item.kind = "mode" THEN on ELSE @,
                           !.activation = CASE item.kind = "refresh" -> @
                                            [] item.kind # "refresh" /\ on -> item.gen
                                            [] OTHER -> 0]
                  /\ item.kind \in {"mode", "refresh"}
                  /\ UNCHANGED co
               \/ /\ disp' = [disp EXCEPT !.activation =
                                 IF item.kind = "mode" /\ on THEN item.gen ELSE @]
                  /\ co' = Signal(item.id, FALSE)
               \/ /\ disp' = [disp EXCEPT !.asked = @ \/ Reseeds,
                                 !.pc = IF Reseeds THEN "askAll" ELSE "idle"]
                  /\ UNCHANGED co
            /\ UNCHANGED <<auth, disc, stream, pass, ticket, tally>>
  BY DEF TakeControl
<1> DEFINE on == item.value = 1
           act == CASE item.kind = "refresh" -> disp.activation
                    [] item.kind # "refresh" /\ on -> item.gen
                    [] OTHER -> 0
           was == IF item.kind = "mode" THEN on ELSE disp.active
           gen == IF item.kind = "mode" /\ on THEN item.gen ELSE disp.activation
<1>2. /\ item \in Items /\ queue' \in Seq(Items) /\ disp.pc = "idle" /\ item.gen \in Nat
      /\ disp \in DispS
  BY <1>1, TakesFacts, ItemFields DEF Typed
<1>3. act \in Nat /\ gen \in Nat /\ was \in BOOLEAN
  <2>1. disp.activation \in Nat /\ disp.active \in BOOLEAN
    BY <1>2 DEF DispS
  <2>2. QED
    BY <1>2, <2>1
<1>4. UNCHANGED <<auth, disc, stream, pass, ticket, tally>>
  BY <1>1
<1>5. \/ /\ disp' = [disp EXCEPT !.pc = "reset", !.item = item, !.active = was,
                                 !.activation = act]
         /\ UNCHANGED co
      \/ /\ disp' = [disp EXCEPT !.activation = gen]
         /\ co' = Signal(item.id, FALSE)
      \/ /\ disp' = [disp EXCEPT !.asked = disp.asked \/ Reseeds,
                                 !.pc = IF Reseeds THEN "askAll" ELSE "idle"]
         /\ UNCHANGED co
  BY <1>1
<1> HIDE DEF act, was, gen
<1>6. Same(disp, disp') /\ disp'.pc # "draining"
  <2>2. (disp.asked \/ Reseeds) \in BOOLEAN
    OBVIOUS
  <2>3. CASE disp' = [disp EXCEPT !.pc = "reset", !.item = item, !.active = was,
                                 !.activation = act]
    BY <1>2, <1>3, <2>3 DEF Same, DispS
  <2>4. CASE disp' = [disp EXCEPT !.activation = gen]
    BY <1>2, <1>3, <2>4 DEF Same, DispS
  <2>5. CASE disp' = [disp EXCEPT !.asked = disp.asked \/ Reseeds,
                                 !.pc = IF Reseeds THEN "askAll" ELSE "idle"]
    BY <1>2, <2>2, <2>5 DEF Same, DispS
  <2>6. QED
    BY <1>5, <2>3, <2>4, <2>5
<1>7. Signalled(co')
  BY <1>5, SignalFacts, DispAlone DEF Signalled
<1>8. QED
  BY <1>2, <1>4, <1>6, <1>7, DispStep, DispAlone

\* A reset that is under way: the record, and the authority from call to call.
LEMMA ResetStep ==
    ASSUME Typed, DrainInv, LifeInv, Reset
    PROVE  Aside /\ Kept
<1> DEFINE item == disp.item
           a == ResetStarted(auth)
           b == Cut(a)
           receipt == item.d.receipt
           restates == item.d # NoDelivery /\ Owns(b, "control", receipt.life)
           c == StartOperation(b, "control", receipt.life)
           op == Started(c, "control", receipt.life)
           d == Delivery(op, receipt, 0, FALSE)
           e == RecordApplication(c, "control", op)
           some == IF restates /\ CanRestate(e, Boundary(a), "control", d)
                   THEN {"control"} ELSE {}
           over == [Cleared(ResetOf(a, disp)) EXCEPT
                      !.restated = some, !.known = 0, !.rosterGen = 0, !.complete = FALSE,
                      !.item = NoItem, !.pc = IF Primes(item) THEN "prime" ELSE "idle"]
<1>0. auth \in Authorities /\ disp \in DispS /\ item \in Items /\ disp.pc = "reset"
  BY Parts DEF Typed, Reset
<1>1. \/ /\ auth' = IF restates THEN Restated(e, Boundary(a), "control", d) ELSE b
         /\ disp' = over /\ co' = Signal(item.id, TRUE) /\ UNCHANGED tally
      \/ /\ Failing
         /\ auth' = Poison(a) /\ tally' = Failed
         /\ disp' = [ResetOf(a, disp) EXCEPT !.pc = "idle", !.item = NoItem]
         /\ co' = Signal(item.id, FALSE)
  BY DEF Reset
<1>2. UNCHANGED <<queue, disc, stream, pass, ticket>>
  BY DEF Reset
<1>3. item.d \in Deliveries /\ receipt \in Stamps /\ receipt.life \in Nat
  BY <1>0, ItemFields DEF Stamps
<1>4. Steady(auth, a) /\ a \in Authorities /\ Boundary(a) \in Nat
  BY <1>0, Methods, Names, ResetStartedFacts DEF Steady, Advances
<1> HIDE DEF item, receipt, a
<1>5. Steady(a, b)
  <2>1. a.pending \in Nat /\ Steady(a, a)
    BY <1>4, Fields, Methods, Names
  <2>2. Steady(a, ResetApplied(a, a.pending))
    BY <1>4, <2>1, Methods, Names
  <2>3. QED
    BY <2>1, <2>2 DEF Cut
<1>6. b \in Authorities
  BY <1>5 DEF Steady, Advances
<1> HIDE DEF b
<1>7. Steady(b, c)
  BY <1>3, <1>6, Methods, Names
<1>8. c \in Authorities
  BY <1>7 DEF Steady, Advances
<1> HIDE DEF c
<1>9. op \in Stamps
  BY <1>3, <1>8, StartOperationFacts, Names
<1> HIDE DEF op
<1>10. Steady(c, e) /\ d \in Deliveries
  BY <1>3, <1>8, <1>9, Methods, Names, DeliveryTyped
<1>11. e \in Authorities
  BY <1>10 DEF Steady, Advances
<1> HIDE DEF d, e
<1>12. Steady(e, Restated(e, Boundary(a), "control", d))
  BY <1>4, <1>10, <1>11, Methods, Names
<1>13. Steady(auth, b) /\ Steady(auth, Restated(e, Boundary(a), "control", d))
  <2>1. Steady(auth, b)
    BY <1>0, <1>4, <1>5, SteadyChain
  <2>2. Steady(auth, e)
    BY <1>0, <1>7, <1>10, <2>1, <1>6, SteadyChain
  <2>3. QED
    BY <1>0, <1>12, <2>1, <2>2, SteadyChain
<1>14. Steady(auth, Poison(a))
  BY <1>0, <1>4, Methods, Names, SteadyChain
<1>15. /\ ResetOf(a, disp) \in DispS /\ Same(disp, ResetOf(a, disp))
       /\ Same(disp, Cleared(ResetOf(a, disp)))
  BY <1>0, <1>4 DEF ResetOf, Cleared, Same, DispS
<1>16. some \in SUBSET Lanes
  BY Names
<1> HIDE DEF some
<1>17. Same(disp, over) /\ over.pc # "draining"
  BY <1>15, <1>16, ItemTyped DEF Same, DispS
<1> HIDE DEF over
<1>18. /\ Same(disp, [ResetOf(a, disp) EXCEPT !.pc = "idle", !.item = NoItem])
       /\ [ResetOf(a, disp) EXCEPT !.pc = "idle", !.item = NoItem].pc # "draining"
  BY <1>15, ItemTyped DEF Same, DispS
<1>19. Steady(auth, auth') /\ Same(disp, disp') /\ disp'.pc # "draining"
  BY <1>1, <1>13, <1>14, <1>17, <1>18
<1>20. Signalled(co') /\ tally' \in 0..MaxEvents
  BY <1>1, SignalFacts, DispAlone
<1>21. QED
  BY <1>0, <1>2, <1>19, <1>20, DispStep, DispAlone

\* A priming takes an operation of the roster for what it samples.
LEMMA PrimeStep ==
    ASSUME Typed, DrainInv, LifeInv, Prime
    PROVE  Aside /\ Kept
<1> DEFINE d == PrimeDelivery(auth)
           item == Item("prime", disc.gen, disc.session, d, 0)
           started == StartOperation(auth, "roster", disc.receipt.life)
           a == IF d = NoDelivery THEN auth ELSE started
           idle == [disp EXCEPT !.pc = "idle"]
<1>0. auth \in Authorities /\ disp \in DispS /\ disp.pc = "prime"
  BY DEF Typed, Prime
<1>1. UNCHANGED <<queue, disc, stream, co, pass, ticket>>
  BY DEF Prime
<1>2. \/ auth' = a /\ disp' = idle /\ UNCHANGED tally
      \/ ApplyRoster(a, item) /\ UNCHANGED tally
      \/ Failing /\ auth' = Poison(a) /\ tally' = Failed /\ disp' = idle
  BY DEF Prime
<1>3. Steady(auth, started) /\ Steady(auth, auth)
  BY <1>0, Parts, Methods, Names
<1>4. started \in Authorities
  BY <1>3 DEF Steady, Advances
<1>5. d \in Deliveries
  <2>1. Started(started, "roster", disc.receipt.life) \in Stamps
    BY <1>4, Parts, StartOperationFacts, Names
  <2> HIDE DEF started
  <2>2. Delivery(Started(started, "roster", disc.receipt.life), disc.receipt, 0, FALSE)
           \in Deliveries
    BY <2>1, Parts, DeliveryTyped
  <2>3. QED
    BY <2>2, Stamp0 DEF PrimeDelivery, started
<1>6. Steady(auth, a) /\ a \in Authorities
  BY <1>0, <1>3, <1>4
<1> HIDE DEF d
<1>7. item \in Items
  BY <1>5, Parts, ItemTyped DEF Kinds
<1> HIDE DEF a, item
<1>8. Same(disp, idle) /\ idle.pc = "idle"
  BY <1>0 DEF Same, DispS
<1>9. Steady(auth, Poison(a))
  BY <1>0, <1>6, Methods, Names, SteadyChain
<1>10. Steady(auth, auth') /\ Same(disp, disp') /\ disp'.pc # "draining"
  <2>1. CASE ApplyRoster(a, item)
    BY <1>6, <1>7, <2>1, ApplyRosterFacts
  <2>2. QED
    BY <1>2, <1>6, <1>8, <1>9, <2>1
<1>11. tally' \in 0..MaxEvents
  BY <1>2, DispAlone
<1>12. QED
  BY <1>0, <1>1, <1>10, <1>11, DispStep, DispAlone

\* The dispatcher asks for the sources of the roster it has.
LEMMA RepublishStep ==
    ASSUME Typed, DrainInv, LifeInv, Republish
    PROVE  Aside /\ Kept
<1> DEFINE pc == CASE Reseeds -> "askAll"
                   [] ~Reseeds /\ co.folder # 0 /\ disp.asks # 0 /\ disp.asks # disp.known
                        -> "askOne"
                   [] OTHER -> "idle"
           asked == disp.asked \/ Reseeds
<1>1. disp \in DispS /\ disp.asks \in Nat /\ disp.pc = "republish"
  BY Parts DEF Typed, Republish
<1>2. pc \in {"askAll", "askOne", "idle"} /\ asked \in BOOLEAN
  OBVIOUS
<1>3. disp' = [disp EXCEPT !.known = disp.asks, !.asks = 0, !.asked = asked, !.pc = pc]
      /\ UNCHANGED <<auth, queue, disc, stream, co, pass, ticket, tally>>
  BY DEF Republish
<1> HIDE DEF pc, asked
<1>4. Same(disp, disp') /\ disp'.pc # "draining"
  BY <1>1, <1>2, <1>3 DEF Same, DispS
<1>5. QED
  BY <1>1, <1>3, <1>4, DispStep, DispAlone

\* The dispatcher leaves a batch with the stream, and delivers it if nobody else does.
LEMMA AskStreamStep ==
    ASSUME Typed, DrainInv, LifeInv, AskStream
    PROVE  Aside /\ Kept
<1> DEFINE reset == IF disp.pc = "askAll" THEN disp.boundary ELSE 0
           d == OperationOf(auth', stream.receipt, reset)
           item == Item("source", 0, stream.tracked, d, 0)
           t == [stream EXCEPT !.fifo = Append(stream.fifo, item)]
<1>0. /\ auth \in Authorities /\ stream \in StreamS /\ disp \in DispS
      /\ disp.pc \in {"askAll", "askOne"}
  BY DEF Typed, AskStream
<1>1. auth' = StartOperation(auth, "stream", stream.receipt.life)
      /\ UNCHANGED <<queue, disc, co, pass, ticket, tally>>
  BY DEF AskStream
<1>2. stream' = Claimed(t, "disp")
      /\ disp' = [disp EXCEPT !.pc = IF stream'.drainer = "disp" THEN "draining" ELSE "idle"]
  BY DEF AskStream
<1>3. Steady(auth, auth')
  BY <1>0, <1>1, Parts, Methods, Names
<1>4. auth' \in Authorities
  BY <1>3 DEF Steady, Advances
<1>5. reset \in Nat /\ d \in Deliveries
  <2>1. reset \in Nat
    BY Parts
  <2>2. QED
    BY <1>4, <2>1, Parts, OperationTyped
<1> HIDE DEF d
<1>6. item \in Items
  BY <1>5, Parts, ItemTyped DEF Kinds
<1> HIDE DEF item
<1>7. Append(stream.fifo, item) \in Seq(Items) /\ Append(stream.fifo, item) # <<>>
  BY <1>6, Parts, Queues
<1>8. t \in StreamS /\ t.receipt = stream.receipt /\ t.pc = stream.pc
      /\ t.drainer = stream.drainer /\ t.fifo # <<>> /\ t.fifo \in Seq(Items)
  BY <1>0, <1>7 DEF StreamS
<1> HIDE DEF t
<1>9. /\ stream' \in StreamS /\ stream'.receipt = t.receipt /\ stream'.pc = t.pc
      /\ stream'.fifo = t.fifo
      /\ stream'.drainer = IF t.drainer = "none" THEN "disp" ELSE t.drainer
  BY <1>2, <1>8 DEF Claimed, StreamS
<1>10. /\ Same(disp, disp')
       /\ disp'.pc = IF stream'.drainer = "disp" THEN "draining" ELSE "idle"
  BY <1>0, <1>2 DEF Same, DispS
<1>11. Typed'
  BY <1>1, <1>4, <1>9, <1>10 DEF Typed, Same
<1>12. DrainInv'
  BY <1>0, <1>8, <1>9, <1>10 DEF DrainInv
<1>13. QED
  BY <1>1, <1>3, <1>8, <1>9, <1>10, <1>11, <1>12 DEF Aside, Kept, LifeInv, Same

\* A frontier is captured while it is current, and is in a hand from then on.
LEMMA PublishCaptureStep ==
    ASSUME Typed, DrainInv, LifeInv, TicketInv, PublishCapture
    PROVE  Aside /\ TicketInv'
<1>1. /\ auth' = Hold(auth) /\ Captures(auth) /\ auth \in Authorities /\ disp \in DispS
      /\ disp' = [disp EXCEPT !.pc = "seal", !.frontier = Frontier(auth)]
      /\ disp.pc = "idle" /\ UNCHANGED <<queue, disc, stream, co, pass, ticket, tally>>
  BY DEF PublishCapture, Typed
<1>2. Frontier(auth) \in Frontiers /\ Frontier(auth).token = auth.token
  BY <1>1, FrontierTyped DEF Frontiers
<1>3. /\ disp' \in DispS /\ disp'.pc = "seal" /\ disp'.frontier = Frontier(auth)
      /\ disp'.worker = disp.worker /\ disp'.stopping = disp.stopping
  BY <1>1, <1>2 DEF DispS
<1>4. Steady(auth, auth')
  BY <1>1, Methods, Names
<1>5. Typed'
  BY <1>1, <1>3, <1>4 DEF Typed, Steady, Advances
<1>6. DrainInv'
  BY <1>1, <1>3 DEF DrainInv
<1>7. Aside
  BY <1>1, <1>3, <1>4, <1>5, <1>6 DEF Aside, LifeInv
<1>8. auth'.held /\ auth'.token = auth.token /\ Guarded(auth')
  BY <1>1, <1>4, HoldFacts DEF Steady, Advances, TicketInv
<1>9. auth.token \in Nat /\ ticket' = ticket
  BY <1>1, Fields
<1>10. TicketInv'
  BY <1>2, <1>3, <1>8, <1>9 DEF TicketInv, Handed
<1>11. QED
  BY <1>7, <1>10

\* What is sealed is the frontier that was captured.
LEMMA PublishSealStep ==
    ASSUME Typed, DrainInv, LifeInv, TicketInv, PublishSeal
    PROVE  Aside /\ TicketInv'
<1>1. /\ ticket' \in {ticket, Sealed} /\ auth \in Authorities /\ disp \in DispS
      /\ disp' = [disp EXCEPT !.pc = "idle", !.frontier = NoFrontier]
      /\ disp.pc = "seal" /\ UNCHANGED <<auth, queue, disc, stream, co, pass, tally>>
  BY DEF PublishSeal, Typed
<1>2. NoFrontier \in Frontiers /\ NoFrontier.token = 0
  BY <1>1, FrontierTyped DEF Frontiers, NoFrontier
<1>3. /\ disp' \in DispS /\ disp'.pc = "idle" /\ disp'.frontier = NoFrontier
      /\ disp'.worker = disp.worker /\ disp'.stopping = disp.stopping
  BY <1>1, <1>2 DEF DispS
<1>4. Steady(auth, auth')
  BY <1>1, Methods, Names
<1>5. Sealed \in Tickets /\ Sealed.token = disp.frontier.token
  BY <1>1 DEF Sealed, Tickets, DispS, Frontiers
<1>6. ticket' \in Tickets
  BY <1>1, <1>5 DEF Typed
<1>7. Typed'
  BY <1>1, <1>3, <1>6 DEF Typed
<1>8. DrainInv'
  BY <1>1, <1>3 DEF DrainInv
<1>9. Aside
  BY <1>1, <1>3, <1>4, <1>7, <1>8 DEF Aside, LifeInv
<1>10. auth' = auth /\ auth.token \in Nat \ {0}
  BY <1>1, Fields
<1>11. TicketInv'
  BY <1>1, <1>2, <1>3, <1>5, <1>10 DEF TicketInv, Handed
<1>12. QED
  BY <1>9, <1>11

-----------------------------------------------------------------------------
(* The pass *)

\* All that a step of the pass keeps.
Moves == /\ Typed' /\ DrainInv' /\ LifeInv' /\ FlowInv'
         /\ Advances(auth, auth') /\ Kept

\* Where a pass goes next, told by what c holds, p wants and whether the dispatcher
\* serves; it never goes straight to a place that waits for a thread.
Heads(c, q, serving) == /\ q \in PassS /\ Flow(c, q, serving)
                        /\ q.pc \notin {"discJoin", "streamJoin"}
Unsubscribed(c, p) == /\ ~p.disc => ~c.discSub
                      /\ p.folder = 0 => ~c.streamSub
Able(p, serving) == Wants(p) /\ (p.fleet \/ p.previews => serving)

\* A pass with another place to be, or none.
LEMMA PassTyped ==
    ASSUME NEW p \in PassS
    PROVE  /\ \A pc \in {"await", "disc", "discJoin", "startDisc", "stream", "streamJoin",
                         "awaitRefresh", "startStream", "end", "dispJoin"} :
                 LET q == [p EXCEPT !.pc = pc] IN
                 /\ q \in PassS /\ q.pc = pc /\ q.fleet = p.fleet /\ q.previews = p.previews
                 /\ q.disc = p.disc /\ q.folder = p.folder
           /\ NoPass \in PassS /\ NoPass.pc = "idle"
           /\ p.fleet \in BOOLEAN /\ p.previews \in BOOLEAN /\ p.disc \in BOOLEAN
           /\ p.folder \in 0..Folders /\ p.refresh \in Deliveries
  BY Names, Stamp0 DEF PassS, NoPass

\* Nowhere to go is no obligation.
LEMMA NoPassHeads ==
    ASSUME NEW c, NEW serving
    PROVE  Heads(c, NoPass, serving)
<1>1. NoPass \in PassS
  BY Names, Stamp0 DEF PassS, NoPass
<1>2. QED
  BY <1>1 DEF Heads, Flow, NoPass, Underway, PastDisc

\* The dispatcher is only stopped when nobody wants it and nothing is subscribed.
LEMMA AtEndFacts ==
    ASSUME NEW c, NEW p \in PassS, NEW serving \in BOOLEAN,
           Able(p, serving), Unsubscribed(c, p)
    PROVE  Heads(c, AtEnd(p), serving)
<1>1. CASE p.fleet \/ p.previews \/ ~disp.worker
  BY <1>1, NoPassHeads DEF AtEnd
<1>2. CASE ~(p.fleet \/ p.previews \/ ~disp.worker)
  <2> DEFINE q == [p EXCEPT !.pc = "end"]
  <2>1. q \in PassS /\ q.pc = "end" /\ q.fleet = p.fleet /\ q.previews = p.previews
        /\ q.disc = p.disc /\ q.folder = p.folder
    BY PassTyped
  <2>2. AtEnd(p) = q
    BY <1>2 DEF AtEnd
  <2> HIDE DEF q
  <2>3. QED
    BY <1>2, <2>1, <2>2 DEF Heads, Flow, Able, Unsubscribed, Wants, Underway, PastDisc
<1>3. QED
  BY <1>1, <1>2

\* A stream starts where there is a folder for it and none runs.
LEMMA AtStartFacts ==
    ASSUME NEW c, NEW p \in PassS, NEW serving \in BOOLEAN,
           Able(p, serving), Unsubscribed(c, p)
    PROVE  Heads(c, AtStart(c, p), serving)
<1>1. CASE p.folder # 0 /\ c.folder = 0
  <2> DEFINE q == [p EXCEPT !.pc = "startStream"]
  <2>1. q \in PassS /\ q.pc = "startStream" /\ q.fleet = p.fleet /\ q.previews = p.previews
        /\ q.disc = p.disc /\ q.folder = p.folder
    BY PassTyped
  <2>2. AtStart(c, p) = q
    BY <1>1 DEF AtStart
  <2> HIDE DEF q
  <2>3. QED
    BY <1>1, <2>1, <2>2 DEF Heads, Flow, Able, Unsubscribed, Wants, Underway, PastDisc
<1>2. CASE ~(p.folder # 0 /\ c.folder = 0)
  BY <1>2, AtEndFacts DEF AtStart
<1>3. QED
  BY <1>1, <1>2

\* A stream that goes on with the folder it has, or none, is not to be stopped.
LEMMA AtStreamFacts ==
    ASSUME NEW c, NEW p \in PassS, NEW serving \in BOOLEAN,
           Able(p, serving), Subscribed(c), ~p.disc => ~c.discSub
    PROVE  Heads(c, AtStream(c, p), serving)
<1>1. CASE StreamStops(c, p)
  <2> DEFINE q == [p EXCEPT !.pc = "stream"]
  <2>1. q \in PassS /\ q.pc = "stream" /\ q.fleet = p.fleet /\ q.previews = p.previews
        /\ q.disc = p.disc /\ q.folder = p.folder
    BY PassTyped
  <2>2. AtStream(c, p) = q
    BY <1>1 DEF AtStream
  <2> HIDE DEF q
  <2>3. QED
    BY <2>1, <2>2 DEF Heads, Flow, Able, Wants, Underway, PastDisc
<1>2. CASE ~StreamStops(c, p)
  <2>1. Unsubscribed(c, p)
    BY <1>2 DEF StreamStops, Subscribed, Unsubscribed
  <2>2. QED
    BY <1>2, <2>1, AtStartFacts DEF AtStream
<1>3. QED
  BY <1>1, <1>2

\* Discovery is stopped if it is not wanted, and started if it is.
LEMMA AtDiscFacts ==
    ASSUME NEW c, NEW p \in PassS, NEW serving \in BOOLEAN, Able(p, serving), Subscribed(c)
    PROVE  Heads(c, AtDisc(c, p), serving)
<1>1. ASSUME NEW pc \in {"disc", "startDisc"}, pc = "startDisc" => p.disc
      PROVE  Heads(c, [p EXCEPT !.pc = pc], serving)
  <2> DEFINE q == [p EXCEPT !.pc = pc]
  <2>1. q \in PassS /\ q.pc = pc /\ q.fleet = p.fleet /\ q.previews = p.previews
        /\ q.disc = p.disc /\ q.folder = p.folder
    BY <1>1 DEF PassS
  <2> HIDE DEF q
  <2>2. Heads(c, q, serving)
    BY <1>1, <2>1 DEF Heads, Flow, Able, Wants, Underway, PastDisc
  <2>3. QED
    BY <2>2 DEF q
<1>2. CASE DiscStops(c, p)
  BY <1>1, <1>2 DEF AtDisc
<1>3. CASE ~DiscStops(c, p) /\ p.disc /\ ~c.discOn
  BY <1>1, <1>3 DEF AtDisc
<1>4. CASE ~DiscStops(c, p) /\ ~(p.disc /\ ~c.discOn)
  <2>1. ~p.disc => ~c.discSub
    BY <1>4 DEF DiscStops, Subscribed
  <2>2. QED
    BY <1>4, <2>1, AtStreamFacts DEF AtDisc
<1>5. QED
  BY <1>2, <1>3, <1>4

\* A pass that wants Fleet waits for the reset of the consumers first.
LEMMA AtAwaitFacts ==
    ASSUME NEW c, NEW p \in PassS, NEW serving \in BOOLEAN, Able(p, serving), Subscribed(c)
    PROVE  Heads(c, AtAwait(c, p), serving)
<1>1. CASE p.fleet /\ Starting(c, p)
  <2> DEFINE q == [p EXCEPT !.pc = "await"]
  <2>1. q \in PassS /\ q.pc = "await" /\ q.fleet = p.fleet /\ q.previews = p.previews
        /\ q.disc = p.disc /\ q.folder = p.folder
    BY PassTyped
  <2>2. AtAwait(c, p) = q
    BY <1>1 DEF AtAwait
  <2> HIDE DEF q
  <2>3. QED
    BY <1>1, <2>1, <2>2 DEF Heads, Flow, Able, Wants, Underway, PastDisc
<1>2. CASE ~(p.fleet /\ Starting(c, p))
  BY <1>2, AtDiscFacts DEF AtAwait
<1>3. QED
  BY <1>1, <1>2

-----------------------------------------------------------------------------
(* What a pass does to the authority and the coordinator *)

\* Control gets a lifetime if it has none, then an operation and a receipt: the other
\* lanes go on.
Control(a, b) == /\ Advances(a, b) /\ b.closed = a.closed
                 /\ \A k \in Lanes : k # "control" =>
                       /\ b.lanes[k].life = a.lanes[k].life
                       /\ b.lanes[k].running => a.lanes[k].running

\* What a pass reserves of control is a receipt of its lifetime.
LEMMA ReserveControlFacts ==
    ASSUME NEW a \in Authorities, NEW receipt \in Stamps,
           receipt.life = a.lanes["control"].life
    PROVE  LET x == ReserveControl(a, receipt) IN
           /\ Control(a, x.auth) /\ x.receipt \in Stamps /\ x.delivery \in Deliveries
           /\ x.receipt.life = x.auth.lanes["control"].life
<1> DEFINE b == IF receipt = NoReceipt THEN Begin(a, "control") ELSE a
           r == IF receipt = NoReceipt THEN Granted(b, "control") ELSE receipt
           c == StartOperation(b, "control", r.life)
           d == Reserve(c, "control", r.life)
           owned == r # NoReceipt /\ Owns(b, "control", r.life)
           t == Delivery(Started(c, "control", r.life), Granted(d, "control"), 0, FALSE)
<1>1. Control(a, b) /\ b \in Authorities
  <2>1. Control(a, a)
    BY Stays DEF Control
  <2>2. Control(a, Begin(a, "control"))
    BY BeginFacts, Names DEF Control
  <2>3. Control(a, b)
    BY <2>1, <2>2
  <2>4. QED
    BY <2>3 DEF Control, Advances
<1>2. r \in Stamps /\ r.life = b.lanes["control"].life /\ r.life \in Nat
  <2>1. CASE receipt = NoReceipt /\ ~a.closed
    <3>1. /\ b.lanes["control"].requested.life = b.lanes["control"].life
          /\ r = b.lanes["control"].requested
      BY <2>1, BeginFacts, Names DEF Granted
    <3>2. r \in Stamps
      BY <1>1, <3>1, Names, Fields, LaneFields
    <3>3. QED
      BY <3>1, <3>2 DEF Stamps
  <2>2. CASE receipt = NoReceipt /\ a.closed
    BY <2>2, Stamp0 DEF Granted, Begin, NoReceipt
  <2>3. CASE receipt # NoReceipt
    BY <2>3 DEF Stamps
  <2>4. QED
    BY <2>1, <2>2, <2>3
<1>3. ReserveControl(a, receipt) =
         IF owned THEN [auth |-> d, receipt |-> Granted(d, "control"), delivery |-> t]
         ELSE [auth |-> b, receipt |-> r, delivery |-> NoDelivery]
  BY DEF ReserveControl
<1> HIDE DEF b, r
<1>4. CASE ~owned
  <2>1. ReserveControl(a, receipt) = [auth |-> b, receipt |-> r, delivery |-> NoDelivery]
    BY <1>3, <1>4
  <2>2. QED
    BY <1>1, <1>2, <2>1, Stamp0
<1>5. CASE owned
  <2>1. Steady(b, c)
    BY <1>1, <1>2, Methods, Names
  <2>2. \A k \in Lanes : c.lanes[k].running = b.lanes[k].running
    BY <1>1, <1>2, StartOperationFacts, Names
  <2>3. /\ Steady(b, c) /\ c \in Authorities
        /\ \A k \in Lanes : c.lanes[k].running = b.lanes[k].running
    BY <2>1, <2>2 DEF Steady, Advances
  <2>4. Owns(c, "control", r.life) /\ ~c.closed
    BY <1>5, <2>3, Names DEF Owns, Steady, SameLives
  <2>5. Started(c, "control", r.life) \in Stamps
    BY <1>2, <2>3, StartOperationFacts, Names
  <2> HIDE DEF c
  <2>6. /\ Steady(c, d) /\ d \in Authorities
        /\ d.lanes["control"].requested.life = c.lanes["control"].life
    BY <1>2, <2>3, <2>4, Methods, ReserveFacts, Names DEF Steady, Advances
  <2>7. d.closed = c.closed /\ d.lanes["control"].life = c.lanes["control"].life
    BY <2>6, Names DEF Steady, SameLives
  <2> HIDE DEF d
  <2>8. Granted(d, "control") = d.lanes["control"].requested
    BY <2>4, <2>7 DEF Granted
  <2>9. Granted(d, "control") \in Stamps
    BY <2>6, <2>8, Names, Fields, LaneFields
  <2>10. Granted(d, "control").life = d.lanes["control"].life
    BY <2>6, <2>7, <2>8
  <2>11. Steady(b, d)
    BY <1>1, <2>3, <2>6, SteadyChain
  <2>12. Control(a, d)
    BY <1>1, <2>11, Chain DEF Control, Steady, SameLives
  <2>13. t \in Deliveries
    BY <2>5, <2>9, DeliveryTyped
  <2> HIDE DEF t
  <2>14. QED
    BY <1>3, <1>5, <2>9, <2>10, <2>12, <2>13
<1>6. QED
  BY <1>4, <1>5

\* What queueing for control may change of the coordinator.
Booked(c, e) == /\ e \in CoS /\ e.discOn = c.discOn /\ e.discSub = c.discSub
                /\ e.folder = c.folder /\ e.streamSub = c.streamSub
                /\ e.control = c.control
\* An item that is queued for control has the number of its completion.
LEMMA AwaitedFacts ==
    ASSUME NEW c \in CoS, NEW item \in Items, NEW gen \in Nat
    PROVE  /\ Booked(c, Awaited(c, item, gen).co)
           /\ Awaited(c, item, gen).item \in Items
<1> DEFINE fresh == (item.kind = "refresh" \/ item.value = 1) /\ ~auth.closed
           id == IF fresh THEN c.completions + 1 ELSE 0
           n == IF fresh THEN c.completions + 1 ELSE c.completions
           m == IF fresh THEN [id |-> id, gen |-> gen, st |-> "open"] ELSE NoCompletion
           e == [c EXCEPT !.completions = n, !.completion = m]
<1>1. n \in Nat /\ id \in Nat
  BY DEF CoS
<1>2. m \in Completions
  BY <1>1 DEF Completions, NoCompletion
<1>3. Awaited(c, item, gen) = [co |-> e, item |-> [item EXCEPT !.id = id]]
  BY DEF Awaited
<1> HIDE DEF n, m, id
<1>4. Booked(c, e)
  BY <1>1, <1>2 DEF Booked, CoS
<1>5. [item EXCEPT !.id = id] \in Items
  BY <1>1 DEF Items
<1>6. QED
  BY <1>3, <1>4, <1>5

\* A dispatcher that is finalized leaves control free, and serves no more.
LEMMA FinalizedFacts ==
    ASSUME Typed, LifeInv
    PROVE  /\ Control(auth, Finalized.auth) /\ Finalized.auth \in Authorities
           /\ Finalized.auth.lanes["control"].life = 0
           /\ Finalized.disp \in DispS /\ Finalized.disp.pc = disp.pc
           /\ Finalized.disp.frontier = disp.frontier
           /\ ~Finalized.disp.worker /\ ~Finalized.disp.stopping
           /\ Finalized.co \in CoS /\ Finalized.co.control = NoReceipt
           /\ Finalized.co.discOn = co.discOn /\ Finalized.co.discSub = co.discSub
           /\ Finalized.co.folder = co.folder /\ Finalized.co.streamSub = co.streamSub
<1> DEFINE a == ResetStarted(auth)
           b == Cut(a)
           life == co.control.life
           c == Stop(b, "control", life)
           e == Stopped(c, "control", life)
           d == [Cleared(disp) EXCEPT
                   !.worker = FALSE, !.stopping = FALSE, !.boundary = Boundary(a),
                   !.restated = {}, !.asked = FALSE, !.known = 0,
                   !.active = FALSE, !.activation = 0, !.rosterGen = 0,
                   !.complete = FALSE]
           k == [co EXCEPT !.completion = NoCompletion, !.control = NoReceipt,
                           !.requested = FALSE]
<1>0. auth \in Authorities /\ disp \in DispS /\ co \in CoS
  BY DEF Typed
<1>1. Finalized = [auth |-> e, disp |-> d, co |-> k]
  BY DEF Finalized
<1>2. Steady(auth, a) /\ a \in Authorities /\ Boundary(a) \in Nat
  BY <1>0, Methods, ResetStartedFacts, Names DEF Steady, Advances
<1>3. d \in DispS /\ d.pc = disp.pc /\ d.frontier = disp.frontier /\ ~d.worker /\ ~d.stopping
  BY <1>0, <1>2 DEF Cleared, DispS
<1>4. NoCompletion \in Completions
  BY DEF NoCompletion, Completions
<1>5. /\ k \in CoS /\ k.control = NoReceipt /\ k.discOn = co.discOn
      /\ k.discSub = co.discSub /\ k.folder = co.folder /\ k.streamSub = co.streamSub
  BY <1>0, <1>4, Stamp0 DEF CoS
<1> HIDE DEF a, d, k
<1>6. Steady(a, b)
  <2>1. a.pending \in Nat /\ Steady(a, a)
    BY <1>2, Fields, Methods, Names
  <2>2. Steady(a, ResetApplied(a, a.pending))
    BY <1>2, <2>1, Methods, Names
  <2>3. QED
    BY <2>1, <2>2 DEF Cut
<1>7. b \in Authorities
  BY <1>6 DEF Steady, Advances
<1> HIDE DEF b
<1>8. Steady(auth, b) /\ life \in Nat
  BY <1>0, <1>2, <1>6, SteadyChain, Parts
<1>9. life = b.lanes["control"].life
  BY <1>8, Names DEF LifeInv, Steady, SameLives
<1> HIDE DEF life
<1>10. Steady(b, c) /\ ~c.lanes["control"].running
  BY <1>7, <1>8, <1>9, Methods, StopFacts, Names
<1>11. c \in Authorities /\ life = c.lanes["control"].life
  BY <1>9, <1>10, Names DEF Steady, Advances, SameLives
<1>12. Steady(auth, c)
  BY <1>0, <1>8, <1>10, SteadyChain
<1> HIDE DEF c
<1>13. /\ Advances(c, e) /\ e.closed = c.closed /\ e.lanes["control"].life = 0
       /\ \A l \in Lanes : l # "control" => e.lanes[l] = c.lanes[l]
  BY <1>10, <1>11, StoppedFacts, Names
<1> HIDE DEF e
<1>14. Control(auth, e) /\ e \in Authorities
  BY <1>0, <1>12, <1>13, Chain DEF Control, Steady, SameLives, Advances
<1>15. QED
  BY <1>1, <1>3, <1>5, <1>13, <1>14

\* One that cannot be finalized is poisoned, and stays as it was.
LEMMA NotFinalizedFacts ==
    ASSUME Typed
    PROVE  Steady(auth, NotFinalized.auth) /\ Same(disp, NotFinalized.disp)
           /\ NotFinalized.disp.pc = disp.pc
<1> DEFINE a == ResetStarted(auth)
           d == [disp EXCEPT !.boundary = Boundary(a), !.restated = {}, !.asked = FALSE]
<1>0. auth \in Authorities /\ disp \in DispS
  BY DEF Typed
<1>1. Steady(auth, a) /\ a \in Authorities /\ Boundary(a) \in Nat
  BY <1>0, Methods, ResetStartedFacts, Names DEF Steady, Advances
<1>2. NotFinalized.auth = Poison(a) /\ NotFinalized.disp = d
  BY DEF NotFinalized
<1> HIDE DEF a
<1>3. Same(disp, d) /\ d.pc = disp.pc
  BY <1>0, <1>1 DEF Same, DispS
<1>4. Steady(auth, Poison(a))
  BY <1>0, <1>1, Methods, Names, SteadyChain
<1>5. QED
  BY <1>2, <1>3, <1>4

-----------------------------------------------------------------------------
(* The steps of a pass *)

\* A step that touches no lane, no thread and no subscription only has to say where
\* the pass goes.
LEMMA OnlyPass ==
    ASSUME Typed, DrainInv, LifeInv, FlowInv, Heads(co, pass', Serving),
           UNCHANGED <<auth, queue, disc, stream, disp, co, ticket, tally>>
    PROVE  Moves
<1>1. Typed' /\ DrainInv' /\ Serving' = Serving
  BY DEF Typed, DrainInv, Heads, Serving
<1>2. LifeInv'
  BY DEF LifeInv, Heads
<1>3. FlowInv'
  BY <1>1 DEF FlowInv, Heads
<1>4. Advances(auth, auth')
  BY Stays DEF Typed
<1>5. QED
  BY <1>1, <1>2, <1>3, <1>4 DEF Moves, Kept

\* What where a pass stands says of what it may do next.
LEMMA Standing ==
    ASSUME Typed, FlowInv
    PROVE  /\ pass \in PassS /\ co \in CoS /\ Serving \in BOOLEAN /\ Subscribed(co)
           /\ pass.pc # "idle" => Wants(pass)
           /\ pass.pc \in Underway => Able(pass, Serving)
           /\ pass.pc \in PastDisc /\ ~pass.disc => ~co.discSub
  BY DEF Typed, FlowInv, Flow, Able, Serving, DispS, Underway

\* A finalization that fails ends the pass.
LEMMA NotFinalizedMoves ==
    ASSUME Typed, DrainInv, LifeInv, FlowInv, Failing, auth' = NotFinalized.auth,
           disp' = NotFinalized.disp, tally' = Failed, pass' = NoPass,
           UNCHANGED <<queue, disc, stream, co, ticket>>
    PROVE  Moves
<1>1. Steady(auth, auth') /\ Same(disp, disp') /\ disp'.pc = disp.pc
  BY NotFinalizedFacts
<1>2. Heads(co, pass', Serving) /\ tally' \in 0..MaxEvents
  BY NoPassHeads, DispAlone
<1>3. Typed'
  BY <1>1, <1>2 DEF Typed, Steady, Advances, Same, Heads
<1>4. DrainInv' /\ Serving' = Serving
  BY <1>1 DEF DrainInv, Serving, Same
<1>5. LifeInv'
  BY <1>1, <1>2, Names DEF LifeInv, Heads, Steady, SameLives
<1>6. FlowInv'
  BY <1>2, <1>4 DEF FlowInv, Heads
<1>7. QED
  BY <1>1, <1>3, <1>4, <1>5, <1>6 DEF Moves, Kept, Steady, Same

\* Preferences are read, and the mode is asked for if it has changed.
LEMMA ReconcileStep ==
    ASSUME Typed, DrainInv, LifeInv, FlowInv, Reconcile
    PROVE  Moves
<1>1. PICK fleet \in FleetChoices, previews \in PreviewChoices,
           folder \in IF co.folder = 0 THEN {1} ELSE 1..Folders :
         LET wanted == fleet \/ previews
             r == ReserveControl(auth, co.control)
             gen == co.reqGen + 1
             w == Awaited([co EXCEPT !.requested = fleet, !.reqGen = gen,
                                     !.control = r.receipt],
                          Item("mode", gen, IF fleet THEN 1 ELSE 0, r.delivery, 0),
                          gen)
             p == [pc |-> "dispatcher", fleet |-> fleet, previews |-> previews,
                   disc |-> wanted, folder |-> IF wanted THEN folder ELSE 0,
                   refresh |-> NoDelivery]
         IN  /\ pass' = IF wanted THEN p ELSE AtDisc(co, p)
             /\ IF fleet = co.requested
                THEN UNCHANGED <<auth, queue, co>>
                ELSE /\ auth' = r.auth
                     /\ co' = w.co
                     /\ queue' = Append(queue, w.item)
  BY DEF Reconcile
<1> DEFINE wanted == fleet \/ previews
           r == ReserveControl(auth, co.control)
           gen == co.reqGen + 1
           m == [co EXCEPT !.requested = fleet, !.reqGen = gen, !.control = r.receipt]
           i == Item("mode", gen, IF fleet THEN 1 ELSE 0, r.delivery, 0)
           w == Awaited(m, i, gen)
           to == IF wanted THEN folder ELSE 0
           p == [pc |-> "dispatcher", fleet |-> fleet, previews |-> previews,
                 disc |-> wanted, folder |-> to, refresh |-> NoDelivery]
<1>2. /\ pass' = IF wanted THEN p ELSE AtDisc(co, p)
      /\ IF fleet = co.requested THEN UNCHANGED <<auth, queue, co>>
         ELSE auth' = r.auth /\ co' = w.co /\ queue' = Append(queue, w.item)
      /\ UNCHANGED <<disc, stream, disp, ticket>> /\ tally' \in 0..MaxEvents
  BY <1>1, Names DEF Reconcile, Typed
<1>3. fleet \in BOOLEAN /\ previews \in BOOLEAN /\ folder \in 0..Folders
      /\ wanted \in BOOLEAN /\ to \in 0..Folders /\ gen \in Nat
  <2>1. fleet \in BOOLEAN /\ previews \in BOOLEAN
    BY <1>1
  <2>2. folder \in 0..Folders /\ 0 \in 0..Folders
    BY <1>1
  <2>3. gen \in Nat
    BY Parts
  <2>4. QED
    BY <2>1, <2>2, <2>3
<1>4. p \in PassS /\ Wants(p) /\ (~wanted => ~p.fleet /\ ~p.previews) /\ p.pc = "dispatcher"
  <2>1. p \in PassS
    BY <1>3, Stamp0 DEF PassS
  <2>2. Wants(p)
    BY DEF Wants
  <2>3. QED
    BY <2>1, <2>2
<1>5. Heads(co, pass', Serving)
  <2>1. CASE wanted
    <3>1. pass' = p
      BY <1>2, <2>1
    <3> HIDE DEF p
    <3>2. QED
      BY <1>4, <3>1 DEF Heads, Flow, Underway, PastDisc
  <2>2. CASE ~wanted
    <3>1. pass' = AtDisc(co, p)
      BY <1>2, <2>2
    <3> HIDE DEF p, wanted
    <3>2. Able(p, Serving)
      BY <1>4, <2>2 DEF Able
    <3>3. QED
      BY <1>4, <3>1, <3>2, Standing, AtDiscFacts
  <2>3. QED
    BY <2>1, <2>2
<1>6. CASE fleet = co.requested
  <2>1. UNCHANGED <<auth, queue, co>>
    BY <1>2, <1>6
  <2>2. Typed' /\ DrainInv' /\ Serving' = Serving
    BY <1>2, <1>5, <2>1 DEF Typed, DrainInv, Heads, Serving
  <2>3. LifeInv' /\ FlowInv'
    BY <1>2, <1>5, <2>1, <2>2 DEF LifeInv, FlowInv, Heads
  <2>4. Advances(auth, auth')
    BY <2>1, Stays DEF Typed
  <2>5. QED
    BY <1>2, <2>2, <2>3, <2>4 DEF Moves, Kept
<1>7. CASE fleet # co.requested
  <2>1. auth \in Authorities /\ co.control \in Stamps /\ co \in CoS /\ queue \in Seq(Items)
    BY Parts DEF Typed
  <2>2. /\ Control(auth, r.auth) /\ r.receipt \in Stamps /\ r.delivery \in Deliveries
        /\ r.receipt.life = r.auth.lanes["control"].life
    BY <2>1, ReserveControlFacts DEF LifeInv
  <2> HIDE DEF r, gen
  <2>3. /\ m \in CoS /\ m.control = r.receipt /\ m.discOn = co.discOn
        /\ m.discSub = co.discSub /\ m.folder = co.folder /\ m.streamSub = co.streamSub
    BY <1>3, <2>1, <2>2 DEF CoS
  <2>4. i \in Items
    BY <1>3, <2>2, ItemTyped DEF Kinds
  <2> HIDE DEF m, i
  <2>5. Booked(m, w.co) /\ w.item \in Items
    BY <1>3, <2>3, <2>4, AwaitedFacts
  <2> HIDE DEF w, p, wanted
  <2>6. auth' = r.auth /\ co' = w.co /\ queue' = Append(queue, w.item)
    BY <1>2, <1>7
  <2>7. queue' \in Seq(Items)
    BY <2>1, <2>5, <2>6, Queues
  <2>8. /\ co' \in CoS /\ co'.discOn = co.discOn /\ co'.discSub = co.discSub
        /\ co'.folder = co.folder /\ co'.streamSub = co.streamSub
        /\ co'.control.life = auth'.lanes["control"].life
    BY <2>2, <2>3, <2>5, <2>6 DEF Booked
  <2>9. Typed'
    BY <1>2, <1>5, <2>2, <2>6, <2>7, <2>8 DEF Typed, Heads, Control, Advances
  <2>10. DrainInv' /\ Serving' = Serving
    BY <1>2 DEF DrainInv, Serving
  <2>11. LifeInv'
    BY <1>2, <1>5, <2>2, <2>6, <2>8, Names DEF LifeInv, Heads, Control
  <2>12. FlowInv'
    BY <1>5, <2>8, <2>10 DEF FlowInv, Heads, Flow, Subscribed
  <2>13. QED
    BY <1>2, <2>2, <2>6, <2>9, <2>10, <2>11, <2>12 DEF Moves, Kept, Control
<1>8. QED
  BY <1>6, <1>7

\* A dispatcher that died is finalized and replaced, one that is not there is started.
LEMMA StartDispatcherStep ==
    ASSUME Typed, DrainInv, LifeInv, FlowInv, StartDispatcher
    PROVE  Moves
<1> DEFINE f == Finalized
           r == ReserveControl(f.auth, NoReceipt)
           m == [f.co EXCEPT !.requested = TRUE, !.control = r.receipt]
           i == Item("mode", co.reqGen, 1, r.delivery, 0)
           w == Awaited(m, i, co.reqGen)
<1>0. /\ auth \in Authorities /\ disp \in DispS /\ co \in CoS /\ pass \in PassS
      /\ pass.pc = "dispatcher" /\ UNCHANGED <<disc, stream, ticket>>
      /\ Wants(pass) /\ Subscribed(co) /\ Serving \in BOOLEAN
  BY Standing DEF Typed, StartDispatcher
<1>1. CASE /\ disp.worker /\ ~disp.stopping /\ pass' = AtAwait(co, pass)
           /\ UNCHANGED <<auth, queue, disp, co, tally>>
  <2>1. Able(pass, Serving)
    BY <1>0, <1>1 DEF Able, Serving
  <2>2. Heads(co, pass', Serving)
    BY <1>0, <1>1, <2>1, AtAwaitFacts
  <2>3. QED
    BY <1>0, <1>1, <2>2, OnlyPass
<1>2. CASE pass' = NoPass /\ UNCHANGED <<auth, queue, disp, co, tally>>
  BY <1>0, <1>2, NoPassHeads, OnlyPass
<1>3. CASE /\ ~disp.worker /\ disp' = NewDispatcher(disp) /\ pass' = AtAwait(co, pass)
           /\ UNCHANGED <<auth, queue, co, tally>>
  <2>1. /\ disp' \in DispS /\ disp'.worker /\ ~disp'.stopping /\ disp'.pc = disp.pc
        /\ disp'.frontier = disp.frontier
    BY <1>0, <1>3 DEF NewDispatcher, DispS
  <2>2. Serving'
    BY <2>1 DEF Serving
  <2>3. Heads(co, pass', TRUE)
    BY <1>0, <1>3, AtAwaitFacts DEF Able
  <2>4. Typed'
    BY <1>0, <1>3, <2>1, <2>3 DEF Typed, Heads
  <2>5. DrainInv'
    BY <1>0, <2>1 DEF DrainInv
  <2>6. LifeInv'
    BY <1>0, <1>3, <2>3 DEF LifeInv, Heads
  <2>7. FlowInv'
    BY <1>0, <1>3, <2>2, <2>3 DEF FlowInv, Heads, Flow
  <2>8. Advances(auth, auth')
    BY <1>0, <1>3, Stays
  <2>9. QED
    BY <1>0, <2>1, <2>4, <2>5, <2>6, <2>7, <2>8 DEF Moves, Kept
<1>4. CASE /\ disp' = NewDispatcher(f.disp)
           /\ \/ auth' = r.auth /\ co' = w.co /\ queue' = <<w.item>>
              \/ auth' = f.auth /\ co' = f.co /\ queue' = <<>>
           /\ pass' = AtAwait(co', pass) /\ UNCHANGED tally
  <2>1. /\ Control(auth, f.auth) /\ f.auth \in Authorities
        /\ f.auth.lanes["control"].life = 0 /\ f.disp \in DispS /\ f.disp.pc = disp.pc
        /\ f.disp.frontier = disp.frontier /\ f.co \in CoS /\ f.co.control = NoReceipt
        /\ f.co.discOn = co.discOn /\ f.co.discSub = co.discSub
        /\ f.co.folder = co.folder /\ f.co.streamSub = co.streamSub
    BY FinalizedFacts
  <2> HIDE DEF f
  <2>2. NoReceipt \in Stamps /\ NoReceipt.life = 0 /\ co.reqGen \in Nat
    BY Stamp0, Parts DEF NoReceipt
  <2>3. /\ Control(f.auth, r.auth) /\ r.receipt \in Stamps /\ r.delivery \in Deliveries
        /\ r.receipt.life = r.auth.lanes["control"].life
    BY <2>1, <2>2, ReserveControlFacts
  <2> HIDE DEF r
  <2>4. /\ m \in CoS /\ m.control = r.receipt /\ m.discOn = co.discOn
        /\ m.discSub = co.discSub /\ m.folder = co.folder /\ m.streamSub = co.streamSub
    BY <2>1, <2>3 DEF CoS
  <2>5. i \in Items
    BY <2>2, <2>3, ItemTyped DEF Kinds
  <2> HIDE DEF m, i
  <2>6. Booked(m, w.co) /\ w.item \in Items
    BY <2>2, <2>4, <2>5, AwaitedFacts
  <2> HIDE DEF w
  <2>7. Control(auth, r.auth)
    BY <1>0, <2>1, <2>3, Chain DEF Control
  <2>8. /\ Control(auth, auth') /\ co' \in CoS /\ co'.discOn = co.discOn
        /\ co'.discSub = co.discSub /\ co'.folder = co.folder
        /\ co'.streamSub = co.streamSub
        /\ co'.control.life = auth'.lanes["control"].life
    BY <1>4, <2>1, <2>2, <2>3, <2>4, <2>6, <2>7 DEF Booked
  <2>9. queue' \in Seq(Items)
    <3> DEFINE x == w.item
    <3>1. x \in Items
      BY <2>6
    <3>2. queue' = <<x>> \/ queue' = <<>>
      BY <1>4
    <3> HIDE DEF x
    <3>3. <<x>> \in Seq(Items)
      BY <3>1
    <3>4. <<>> \in Seq(Items)
      OBVIOUS
    <3>5. QED
      BY <3>2, <3>3, <3>4
  <2>10. /\ disp' \in DispS /\ disp'.worker /\ ~disp'.stopping /\ disp'.pc = disp.pc
         /\ disp'.frontier = disp.frontier
    BY <1>4, <2>1 DEF NewDispatcher, DispS
  <2>11. Serving'
    BY <2>10 DEF Serving
  <2>12. Subscribed(co')
    BY <1>0, <2>8 DEF Subscribed
  <2>13. Heads(co', pass', TRUE)
    BY <1>0, <1>4, <2>12, AtAwaitFacts DEF Able
  <2>14. Typed'
    BY <1>0, <1>4, <2>8, <2>9, <2>10, <2>13 DEF Typed, Heads, Control, Advances
  <2>15. DrainInv'
    BY <1>0, <2>10 DEF DrainInv
  <2>16. LifeInv'
    BY <1>0, <2>8, <2>13, Names DEF LifeInv, Heads, Control
  <2>17. FlowInv'
    BY <2>11, <2>12, <2>13 DEF FlowInv, Heads, Flow
  <2>18. QED
    BY <1>0, <2>8, <2>10, <2>14, <2>15, <2>16, <2>17 DEF Moves, Kept, Control
<1>5. CASE /\ Failing /\ auth' = NotFinalized.auth /\ disp' = NotFinalized.disp
           /\ tally' = Failed /\ pass' = NoPass /\ UNCHANGED <<queue, co>>
  BY <1>0, <1>5, NotFinalizedMoves
<1>6. QED
  BY <1>1, <1>2, <1>3, <1>4, <1>5 DEF StartDispatcher

\* The outcome of a reset, or none in time.
LEMMA AwaitResetStep ==
    ASSUME Typed, DrainInv, LifeInv, FlowInv, AwaitReset
    PROVE  Moves
<1> DEFINE p == [pass EXCEPT !.disc = pass.previews,
                             !.folder = IF pass.previews THEN pass.folder ELSE 0]
<1>1. /\ pass.pc = "await"
      /\ \/ pass' = AtDisc(co, pass)
         \/ pass' = AtDisc(co, p)
         \/ pass' = NoPass
      /\ UNCHANGED <<auth, queue, disc, stream, disp, co, ticket, tally>>
  BY DEF AwaitReset
<1>2. pass \in PassS /\ Serving \in BOOLEAN /\ Subscribed(co) /\ Able(pass, Serving)
  BY <1>1, Standing DEF Underway
<1>3. p \in PassS /\ Able(p, Serving)
  <2>1. p \in PassS /\ p.fleet = pass.fleet /\ p.previews = pass.previews
        /\ p.disc = pass.previews /\ (p.folder # 0 => pass.previews)
    BY <1>2, Names DEF PassS
  <2> HIDE DEF p
  <2>2. QED
    BY <1>2, <2>1 DEF Able, Wants
<1> HIDE DEF p
<1>4. Heads(co, pass', Serving)
  BY <1>1, <1>2, <1>3, AtDiscFacts, NoPassHeads
<1>5. QED
  BY <1>1, <1>4, OnlyPass

\* Discovery is unsubscribed and its lane stopped, before its worker is waited for.
LEMMA StopDiscoveryStep ==
    ASSUME Typed, DrainInv, LifeInv, FlowInv, StopDiscovery
    PROVE  Moves
<1> DEFINE r == ReserveControl(auth, co.control)
<1>0. /\ auth \in Authorities /\ disc \in DiscS /\ co \in CoS /\ pass \in PassS
      /\ co.control \in Stamps /\ disc.receipt.life \in Nat /\ pass.pc = "disc"
      /\ Able(pass, Serving) /\ Subscribed(co)
  BY Standing, Parts DEF Typed, StopDiscovery, Underway
<1>1. /\ auth' = Stop(r.auth, "roster", disc.receipt.life)
      /\ co' = [co EXCEPT !.control = r.receipt, !.discSub = FALSE]
      /\ disc' = [disc EXCEPT !.stopping = TRUE]
      /\ pass' = [pass EXCEPT !.pc = "discJoin"]
      /\ UNCHANGED <<queue, stream, disp, ticket, tally>>
  BY DEF StopDiscovery
<1>2. /\ Control(auth, r.auth) /\ r.auth \in Authorities /\ r.receipt \in Stamps
      /\ r.receipt.life = r.auth.lanes["control"].life
  BY <1>0, ReserveControlFacts DEF LifeInv, Control, Advances
<1> HIDE DEF r
<1>3. disc.receipt.life = r.auth.lanes["roster"].life
  BY <1>2, Names DEF Control, LifeInv
<1>4. Steady(r.auth, auth') /\ ~auth'.lanes["roster"].running
  BY <1>0, <1>1, <1>2, <1>3, Methods, StopFacts, Names
<1>5. Advances(auth, auth')
  BY <1>0, <1>2, <1>4, Chain DEF Control, Steady
<1>6. /\ co' \in CoS /\ co'.control = r.receipt /\ co'.discOn = co.discOn /\ ~co'.discSub
      /\ co'.folder = co.folder /\ co'.streamSub = co.streamSub
  BY <1>0, <1>1, <1>2 DEF CoS
<1>7. /\ pass' \in PassS /\ pass'.pc = "discJoin" /\ pass'.fleet = pass.fleet
      /\ pass'.previews = pass.previews /\ pass'.disc = pass.disc
      /\ pass'.folder = pass.folder
  BY <1>0, <1>1, PassTyped
<1>8. disc' \in DiscS /\ disc'.receipt = disc.receipt
  BY <1>0, <1>1 DEF DiscS
<1>9. Typed'
  BY <1>1, <1>5, <1>6, <1>7, <1>8 DEF Typed, Advances
<1>10. DrainInv' /\ Serving' = Serving
  BY <1>1 DEF DrainInv, Serving
<1>11. LifeInv'
  BY <1>1, <1>2, <1>4, <1>6, <1>7, <1>8, Names DEF LifeInv, Control, Steady, SameLives
<1>12. FlowInv'
  <2>1. Flow(co', pass', Serving)
    BY <1>0, <1>6, <1>7 DEF Flow, Able, Wants, Underway, PastDisc
  <2>2. QED
    BY <1>6, <1>10, <2>1 DEF FlowInv, Subscribed
<1>13. QED
  BY <1>1, <1>5, <1>9, <1>10, <1>11, <1>12 DEF Moves, Kept

\* A worker that has ended frees its lane; one that has not is left for another pass.
LEMMA JoinDiscoveryStep ==
    ASSUME Typed, DrainInv, LifeInv, FlowInv, JoinDiscovery
    PROVE  Moves
<1>0. /\ auth \in Authorities /\ disc \in DiscS /\ co \in CoS /\ pass \in PassS
      /\ pass.pc = "discJoin" /\ Able(pass, Serving) /\ Subscribed(co)
      /\ Serving \in BOOLEAN /\ ~co.discSub /\ ~auth.lanes["roster"].running
      /\ UNCHANGED <<queue, stream, disp, ticket, tally>>
  BY Standing DEF Typed, JoinDiscovery, Underway, LifeInv, FlowInv, Flow
<1>1. CASE ~DiscoveryDead
  <2>1. pass' = AtStream(co, pass) /\ UNCHANGED <<auth, disc, co>>
    BY <1>1 DEF JoinDiscovery
  <2>2. QED
    BY <1>0, <2>1, AtStreamFacts, OnlyPass
<1>2. CASE DiscoveryDead
  <2>1. /\ auth' = Stopped(auth, "roster", disc.receipt.life)
        /\ disc' = [disc EXCEPT !.worker = FALSE, !.stopping = FALSE, !.receipt = NoReceipt]
        /\ co' = [co EXCEPT !.discOn = FALSE]
        /\ pass' = AtDisc(co', pass)
    BY <1>2 DEF JoinDiscovery
  <2>2. disc.receipt.life = auth.lanes["roster"].life
    BY DEF LifeInv
  <2>3. /\ Advances(auth, auth') /\ auth'.lanes["roster"].life = 0
        /\ \A k \in Lanes : k # "roster" => auth'.lanes[k] = auth.lanes[k]
    BY <1>0, <2>1, <2>2, StoppedFacts, Names
  <2>4. disc' \in DiscS /\ disc'.receipt.life = 0
    BY <1>0, <2>1, Stamp0 DEF DiscS, NoReceipt
  <2>5. /\ co' \in CoS /\ co'.control = co.control /\ ~co'.discSub
        /\ co'.folder = co.folder /\ co'.streamSub = co.streamSub
    BY <1>0, <2>1 DEF CoS
  <2>6. Subscribed(co')
    BY <1>0, <2>5 DEF Subscribed
  <2>7. Heads(co', pass', Serving)
    BY <1>0, <2>1, <2>6, AtDiscFacts
  <2>8. Typed'
    BY <1>0, <2>3, <2>4, <2>5, <2>7 DEF Typed, Advances, Heads
  <2>9. DrainInv' /\ Serving' = Serving
    BY <1>0 DEF DrainInv, Serving
  <2>10. LifeInv'
    BY <1>0, <2>3, <2>4, <2>5, <2>7, Names DEF LifeInv, Heads
  <2>11. FlowInv'
    BY <2>5, <2>6, <2>7, <2>9 DEF FlowInv, Heads
  <2>12. QED
    BY <1>0, <2>3, <2>8, <2>9, <2>10, <2>11 DEF Moves, Kept
<1>3. QED
  BY <1>1, <1>2

\* Discovery starts, in a lifetime of its own, where somebody reads what it says.
LEMMA StartDiscoveryStep ==
    ASSUME Typed, DrainInv, LifeInv, FlowInv, StartDiscovery
    PROVE  Moves
<1> DEFINE begins == disc.receipt = NoReceipt
           a == IF begins THEN Begin(auth, "roster") ELSE auth
           s == IF begins THEN Granted(a, "roster") ELSE disc.receipt
<1>0. /\ auth \in Authorities /\ disc \in DiscS /\ co \in CoS /\ pass \in PassS
      /\ pass.pc = "startDisc" /\ Able(pass, Serving) /\ Subscribed(co)
      /\ Serving \in BOOLEAN /\ pass.disc
      /\ UNCHANGED <<queue, stream, disp, ticket, tally>>
      /\ pass' = AtStream(co', pass)
  BY Standing DEF Typed, StartDiscovery, Underway, FlowInv, Flow
<1>1. CASE auth.closed
  <2>1. UNCHANGED <<auth, disc, co>>
    BY <1>1 DEF StartDiscovery
  <2>2. QED
    BY <1>0, <2>1, AtStreamFacts, OnlyPass
<1>2. CASE ~auth.closed
  <2>1. /\ auth' = a
        /\ disc' = [disc EXCEPT !.worker = TRUE, !.receipt = s]
        /\ co' = [co EXCEPT !.discOn = TRUE, !.discSub = TRUE]
    BY <1>2 DEF StartDiscovery
  <2>2. /\ Advances(auth, a)
        /\ \A k \in Lanes : k # "roster" => /\ a.lanes[k].life = auth.lanes[k].life
                                            /\ a.lanes[k].running = auth.lanes[k].running
    BY <1>0, BeginFacts, Stays, Names
  <2>3. s \in Stamps /\ s.life = a.lanes["roster"].life
    <3>1. CASE begins
      <4>1. /\ a.lanes["roster"].requested.life = a.lanes["roster"].life /\ ~a.closed
            /\ a \in Authorities
        BY <1>0, <1>2, <2>2, <3>1, BeginFacts, Names DEF Advances
      <4>2. s = a.lanes["roster"].requested
        BY <3>1, <4>1 DEF Granted
      <4>3. QED
        BY <4>1, <4>2, Names, Fields, LaneFields
    <3>2. CASE ~begins
      BY <3>2, Parts DEF LifeInv
    <3>3. QED
      BY <3>1, <3>2
  <2> HIDE DEF a, s
  <2>4. disc' \in DiscS /\ disc'.receipt = s
    BY <1>0, <2>1, <2>3 DEF DiscS
  <2>5. /\ co' \in CoS /\ co'.control = co.control /\ co'.discOn
        /\ co'.folder = co.folder /\ co'.streamSub = co.streamSub
    BY <1>0, <2>1 DEF CoS
  <2>6. Subscribed(co') /\ Serving
    BY <1>0, <2>5 DEF Subscribed, Able, Wants
  <2>7. Heads(co', pass', Serving)
    BY <1>0, <2>6, AtStreamFacts
  <2>8. Typed'
    BY <1>0, <2>1, <2>2, <2>4, <2>5, <2>7 DEF Typed, Advances, Heads
  <2>9. DrainInv' /\ Serving' = Serving
    BY <1>0 DEF DrainInv, Serving
  <2>10. LifeInv'
    BY <1>0, <2>1, <2>2, <2>3, <2>4, <2>5, <2>7, Names DEF LifeInv, Heads
  <2>11. FlowInv'
    BY <2>6, <2>7, <2>9 DEF FlowInv, Heads
  <2>12. QED
    BY <1>0, <2>1, <2>2, <2>8, <2>9, <2>10, <2>11 DEF Moves, Kept
<1>3. QED
  BY <1>1, <1>2

\* The stream, the same way.
LEMMA StopStreamStep ==
    ASSUME Typed, DrainInv, LifeInv, FlowInv, StopStream
    PROVE  Moves
<1> DEFINE r == ReserveControl(auth, co.control)
<1>0. /\ auth \in Authorities /\ stream \in StreamS /\ co \in CoS /\ pass \in PassS
      /\ co.control \in Stamps /\ stream.receipt.life \in Nat /\ pass.pc = "stream"
      /\ Able(pass, Serving) /\ Subscribed(co) /\ (~pass.disc => ~co.discSub)
  BY Standing, Parts DEF Typed, StopStream, Underway, PastDisc
<1>1. /\ auth' = Stop(r.auth, "stream", stream.receipt.life)
      /\ co' = [co EXCEPT !.control = r.receipt, !.streamSub = FALSE]
      /\ stream' = [stream EXCEPT !.stopping = TRUE]
      /\ pass' = [pass EXCEPT !.pc = "streamJoin", !.refresh = r.delivery]
      /\ UNCHANGED <<queue, disc, disp, ticket, tally>>
  BY DEF StopStream
<1>2. /\ Control(auth, r.auth) /\ r.auth \in Authorities /\ r.receipt \in Stamps
      /\ r.receipt.life = r.auth.lanes["control"].life /\ r.delivery \in Deliveries
  BY <1>0, ReserveControlFacts DEF LifeInv, Control, Advances
<1> HIDE DEF r
<1>3. stream.receipt.life = r.auth.lanes["stream"].life
  BY <1>2, Names DEF Control, LifeInv
<1>4. Steady(r.auth, auth') /\ ~auth'.lanes["stream"].running
  BY <1>0, <1>1, <1>2, <1>3, Methods, StopFacts, Names
<1>5. Advances(auth, auth')
  BY <1>0, <1>2, <1>4, Chain DEF Control, Steady
<1>6. /\ co' \in CoS /\ co'.control = r.receipt /\ co'.discOn = co.discOn
      /\ co'.discSub = co.discSub /\ co'.folder = co.folder /\ ~co'.streamSub
  BY <1>0, <1>1, <1>2 DEF CoS
<1>7. /\ pass' \in PassS /\ pass'.pc = "streamJoin" /\ pass'.fleet = pass.fleet
      /\ pass'.previews = pass.previews /\ pass'.disc = pass.disc
      /\ pass'.folder = pass.folder
  BY <1>0, <1>1, <1>2 DEF PassS
<1>8. /\ stream' \in StreamS /\ stream'.receipt = stream.receipt /\ stream'.pc = stream.pc
      /\ stream'.drainer = stream.drainer /\ stream'.fifo = stream.fifo
      /\ stream'.carried = stream.carried
  BY <1>0, <1>1 DEF StreamS
<1>9. Typed'
  BY <1>1, <1>5, <1>6, <1>7, <1>8 DEF Typed, Advances
<1>10. DrainInv' /\ Serving' = Serving
  BY <1>1, <1>8 DEF DrainInv, Serving
<1>11. LifeInv'
  BY <1>1, <1>2, <1>4, <1>6, <1>7, <1>8, Names DEF LifeInv, Control, Steady, SameLives
<1>12. FlowInv'
  <2>1. Flow(co', pass', Serving)
    BY <1>0, <1>6, <1>7 DEF Flow, Able, Wants, Underway, PastDisc
  <2>2. Subscribed(co') /\ (co'.discSub \/ co'.streamSub => Serving)
    BY <1>0, <1>6 DEF Subscribed, FlowInv
  <2>3. QED
    BY <1>10, <2>1, <2>2 DEF FlowInv
<1>13. QED
  BY <1>1, <1>5, <1>9, <1>10, <1>11, <1>12 DEF Moves, Kept

\* A log worker that has ended frees its lane, and the consumers are refreshed.
LEMMA JoinStreamStep ==
    ASSUME Typed, DrainInv, LifeInv, FlowInv, JoinStream
    PROVE  Moves
<1> DEFINE c == [co EXCEPT !.folder = 0]
           p == [pass EXCEPT !.refresh = NoDelivery]
           i == Item("refresh", 0, 0, pass.refresh, 0)
           w == Awaited(c, i, co.reqGen)
<1>0. /\ auth \in Authorities /\ stream \in StreamS /\ co \in CoS /\ pass \in PassS
      /\ pass.pc = "streamJoin" /\ Able(pass, Serving) /\ Subscribed(co)
      /\ Serving \in BOOLEAN /\ ~co.streamSub /\ ~auth.lanes["stream"].running
      /\ (~pass.disc => ~co.discSub) /\ queue \in Seq(Items)
      /\ UNCHANGED <<disc, disp, ticket, tally>>
  BY Standing DEF Typed, JoinStream, Underway, PastDisc, LifeInv, FlowInv, Flow
<1>1. CASE ~StreamDead
  <2>1. pass' = AtEnd(pass) /\ UNCHANGED <<auth, queue, stream, co>>
    BY <1>1 DEF JoinStream
  <2>2. Unsubscribed(co, pass)
    BY <1>0 DEF Unsubscribed
  <2>3. QED
    BY <1>0, <2>1, <2>2, AtEndFacts, OnlyPass
<1>2. CASE StreamDead
  <2>1. /\ auth' = Stopped(auth, "stream", stream.receipt.life)
        /\ stream' = [stream EXCEPT !.worker = FALSE, !.stopping = FALSE,
                                    !.receipt = NoReceipt]
        /\ \/ co' = w.co /\ queue' = Append(queue, w.item)
           \/ co' = c /\ UNCHANGED queue
        /\ pass' = IF p.folder # 0 /\ WantsMetrics
                   THEN [p EXCEPT !.pc = "awaitRefresh"] ELSE AtStart(c, p)
    BY <1>2 DEF JoinStream
  <2>2. stream.receipt.life = auth.lanes["stream"].life
    BY DEF LifeInv
  <2>3. /\ Advances(auth, auth') /\ auth'.lanes["stream"].life = 0
        /\ \A k \in Lanes : k # "stream" => auth'.lanes[k] = auth.lanes[k]
    BY <1>0, <2>1, <2>2, StoppedFacts, Names
  <2>4. /\ stream' \in StreamS /\ stream'.receipt.life = 0 /\ stream'.pc = stream.pc
        /\ stream'.drainer = stream.drainer /\ stream'.fifo = stream.fifo
        /\ stream'.carried = stream.carried
    BY <1>0, <2>1, Stamp0 DEF StreamS, NoReceipt
  <2>5. /\ c \in CoS /\ c.control = co.control /\ c.discOn = co.discOn /\ c.folder = 0
        /\ c.discSub = co.discSub /\ c.streamSub = co.streamSub
    BY <1>0, Names DEF CoS
  <2>6. i \in Items /\ co.reqGen \in Nat
    BY Parts, ItemTyped DEF Kinds
  <2> HIDE DEF c, i
  <2>7. Booked(c, w.co) /\ w.item \in Items
    BY <2>5, <2>6, AwaitedFacts
  <2> HIDE DEF w
  <2>8. /\ co' \in CoS /\ co'.control = co.control /\ co'.discOn = co.discOn
        /\ co'.folder = 0 /\ co'.discSub = co.discSub /\ ~co'.streamSub
    BY <1>0, <2>1, <2>5, <2>7 DEF Booked
  <2>9. queue' \in Seq(Items)
    BY <1>0, <2>1, <2>7, Queues
  <2>10. Subscribed(co') /\ (co'.discSub => Serving)
    BY <1>0, <2>8 DEF Subscribed, FlowInv
  <2>11. /\ p \in PassS /\ p.fleet = pass.fleet /\ p.previews = pass.previews
         /\ p.disc = pass.disc /\ p.folder = pass.folder
    BY <1>0, Stamp0 DEF PassS
  <2> HIDE DEF p
  <2>12. Able(p, Serving) /\ Unsubscribed(c, p)
    BY <1>0, <2>5, <2>11 DEF Able, Wants, Unsubscribed
  <2>13. Heads(c, pass', Serving)
    <3>1. CASE p.folder # 0 /\ WantsMetrics
      <4> DEFINE q == [p EXCEPT !.pc = "awaitRefresh"]
      <4>1. /\ q \in PassS /\ q.pc = "awaitRefresh" /\ q.fleet = p.fleet
            /\ q.previews = p.previews /\ q.disc = p.disc /\ q.folder = p.folder
        BY <2>11, PassTyped
      <4>2. pass' = q
        BY <2>1, <3>1
      <4> HIDE DEF q
      <4>3. QED
        BY <2>11, <2>12, <3>1, <4>1, <4>2
        DEF Heads, Flow, Able, Unsubscribed, WantsMetrics, Underway, PastDisc, Wants
    <3>2. CASE ~(p.folder # 0 /\ WantsMetrics)
      BY <1>0, <2>1, <2>11, <2>12, <3>2, AtStartFacts
    <3>3. QED
      BY <3>1, <3>2
  <2>14. Heads(co', pass', Serving)
    BY <1>0, <2>5, <2>8, <2>13 DEF Heads, Flow
  <2>15. Typed'
    BY <1>0, <2>3, <2>4, <2>8, <2>9, <2>14 DEF Typed, Advances, Heads
  <2>16. DrainInv' /\ Serving' = Serving
    BY <1>0, <2>4 DEF DrainInv, Serving
  <2>17. LifeInv'
    BY <1>0, <2>3, <2>4, <2>8, <2>14, Names DEF LifeInv, Heads
  <2>18. FlowInv'
    BY <2>8, <2>10, <2>14, <2>16 DEF FlowInv, Heads
  <2>19. QED
    BY <1>0, <2>3, <2>15, <2>16, <2>17, <2>18 DEF Moves, Kept
<1>3. QED
  BY <1>1, <1>2

\* Refreshed, or not in time.
LEMMA AwaitRefreshStep ==
    ASSUME Typed, DrainInv, LifeInv, FlowInv, AwaitRefresh
    PROVE  Moves
<1>1. /\ pass.pc = "awaitRefresh" /\ pass' \in {AtStart(co, pass), AtEnd(pass)}
      /\ UNCHANGED <<auth, queue, disc, stream, disp, co, ticket, tally>>
  BY DEF AwaitRefresh
<1>2. /\ pass \in PassS /\ Serving \in BOOLEAN /\ Able(pass, Serving)
      /\ Unsubscribed(co, pass)
  BY <1>1, Standing DEF Underway, PastDisc, Unsubscribed, FlowInv, Flow
<1>3. Heads(co, pass', Serving)
  BY <1>1, <1>2, AtStartFacts, AtEndFacts
<1>4. QED
  BY <1>1, <1>3, OnlyPass

\* The stream starts, in a lifetime of its own, where somebody reads what it says.
LEMMA StartStreamStep ==
    ASSUME Typed, DrainInv, LifeInv, FlowInv, StartStream
    PROVE  Moves
<1> DEFINE s == Granted(auth', "stream")
           i == Item("ready", 0, 0, NoDelivery, 0)
<1>0. /\ auth \in Authorities /\ stream \in StreamS /\ co \in CoS /\ pass \in PassS
      /\ pass.pc = "startStream" /\ Able(pass, Serving) /\ Subscribed(co)
      /\ Serving \in BOOLEAN /\ pass.folder # 0 /\ (~pass.disc => ~co.discSub)
      /\ queue \in Seq(Items) /\ UNCHANGED <<disc, disp, ticket, tally>>
      /\ pass' = AtEnd(pass) /\ pass.folder \in 0..Folders
  BY Standing, Parts DEF Typed, StartStream, Underway, PastDisc, FlowInv, Flow
<1>1. CASE auth.closed
  <2>1. UNCHANGED <<auth, queue, stream, co>>
    BY <1>1 DEF StartStream
  <2>2. Unsubscribed(co, pass)
    BY <1>0 DEF Unsubscribed
  <2>3. QED
    BY <1>0, <2>1, <2>2, AtEndFacts, OnlyPass
<1>2. CASE ~auth.closed
  <2>1. /\ auth' = Begin(auth, "stream")
        /\ stream' = [stream EXCEPT !.worker = TRUE, !.tracked = 0, !.receipt = s]
        /\ co' = [co EXCEPT !.folder = pass.folder, !.streamSub = TRUE]
        /\ queue' = Append(queue, i)
    BY <1>2 DEF StartStream
  <2>2. /\ Advances(auth, auth') /\ auth' \in Authorities /\ ~auth'.closed
        /\ auth'.lanes["stream"].requested.life = auth'.lanes["stream"].life
        /\ \A k \in Lanes : k # "stream" =>
              /\ auth'.lanes[k].life = auth.lanes[k].life
              /\ auth'.lanes[k].running = auth.lanes[k].running
    BY <1>0, <1>2, <2>1, BeginFacts, Names DEF Advances
  <2>3. s \in Stamps /\ s.life = auth'.lanes["stream"].life
    BY <2>2, Names, Fields, LaneFields DEF Granted
  <2>4. queue' \in Seq(Items)
    <3>1. i \in Items
      BY ItemTyped, Stamp0 DEF Kinds
    <3>2. QED
      BY <1>0, <2>1, <3>1, Queues
  <2> HIDE DEF s
  <2>5. /\ stream' \in StreamS /\ stream'.receipt = s /\ stream'.pc = stream.pc
        /\ stream'.drainer = stream.drainer /\ stream'.fifo = stream.fifo
        /\ stream'.carried = stream.carried
    BY <1>0, <2>1, <2>3 DEF StreamS
  <2>6. /\ co' \in CoS /\ co'.control = co.control /\ co'.discOn = co.discOn
        /\ co'.folder # 0 /\ co'.discSub = co.discSub
    BY <1>0, <2>1 DEF CoS
  <2>7. Subscribed(co') /\ Serving /\ Unsubscribed(co', pass)
    BY <1>0, <2>6 DEF Subscribed, Able, Wants, Unsubscribed
  <2>8. Heads(co', pass', Serving)
    BY <1>0, <2>7, AtEndFacts
  <2>9. Typed'
    BY <1>0, <2>2, <2>4, <2>5, <2>6, <2>8 DEF Typed, Heads
  <2>10. DrainInv' /\ Serving' = Serving
    BY <1>0, <2>5 DEF DrainInv, Serving
  <2>11. LifeInv'
    BY <1>0, <2>2, <2>3, <2>5, <2>6, <2>8, Names DEF LifeInv, Heads
  <2>12. FlowInv'
    BY <2>7, <2>8, <2>10 DEF FlowInv, Heads
  <2>13. QED
    BY <1>0, <2>2, <2>9, <2>10, <2>11, <2>12 DEF Moves, Kept
<1>3. QED
  BY <1>1, <1>2

\* The dispatcher is told to stop once nothing is subscribed.
LEMMA StopDispatcherStep ==
    ASSUME Typed, DrainInv, LifeInv, FlowInv, StopDispatcher
    PROVE  Moves
<1>0. /\ auth \in Authorities /\ disp \in DispS /\ co \in CoS /\ pass \in PassS
      /\ pass.pc = "end" /\ ~co.discSub /\ ~co.streamSub /\ ~pass.fleet /\ ~pass.previews
      /\ ~pass.disc /\ pass.folder = 0
  <2>1. pass.pc = "end" /\ pass \in PassS
    BY DEF StopDispatcher, Typed
  <2>2. ~pass.disc /\ pass.folder = 0 /\ ~pass.fleet /\ ~pass.previews
    BY <2>1, PassTyped DEF FlowInv, Flow, Wants
  <2>3. QED
    BY <2>1, <2>2 DEF Typed, FlowInv, Flow, PastDisc
<1>1. /\ disp' = [disp EXCEPT !.stopping = TRUE]
      /\ pass' = [pass EXCEPT !.pc = "dispJoin"]
      /\ UNCHANGED <<auth, queue, disc, stream, co, ticket, tally>>
  BY DEF StopDispatcher
<1>2. /\ disp' \in DispS /\ disp'.pc = disp.pc /\ disp'.frontier = disp.frontier
      /\ disp'.stopping
  BY <1>0, <1>1 DEF DispS
<1>3. /\ pass' \in PassS /\ pass'.pc = "dispJoin" /\ pass'.fleet = pass.fleet
      /\ pass'.previews = pass.previews /\ pass'.disc = pass.disc
      /\ pass'.folder = pass.folder
  BY <1>0, <1>1, PassTyped
<1>4. Typed'
  BY <1>1, <1>2, <1>3 DEF Typed
<1>5. DrainInv'
  BY <1>1, <1>2 DEF DrainInv
<1>6. LifeInv'
  BY <1>1, <1>3 DEF LifeInv
<1>7. FlowInv'
  <2>1. Flow(co', pass', Serving')
    BY <1>0, <1>1, <1>3 DEF Flow, Wants, Underway, PastDisc
  <2>2. QED
    BY <1>0, <1>1, <2>1 DEF FlowInv, Subscribed
<1>8. Advances(auth, auth')
  BY <1>0, <1>1, Stays
<1>9. QED
  BY <1>1, <1>2, <1>4, <1>5, <1>6, <1>7, <1>8 DEF Moves, Kept

\* A dispatcher that has ended is finalized, one that has not is left for another pass.
LEMMA JoinDispatcherStep ==
    ASSUME Typed, DrainInv, LifeInv, FlowInv, JoinDispatcher
    PROVE  Moves
<1>0. /\ auth \in Authorities /\ disp \in DispS /\ co \in CoS /\ pass \in PassS
      /\ pass.pc = "dispJoin" /\ pass' = NoPass /\ UNCHANGED <<disc, stream, ticket>>
      /\ ~co.discSub /\ ~co.streamSub
  <2>1. pass.pc = "dispJoin" /\ pass \in PassS
    BY DEF JoinDispatcher, Typed
  <2>2. ~pass.disc /\ pass.folder = 0
    BY <2>1, PassTyped DEF FlowInv, Flow, Wants
  <2>3. QED
    BY <2>1, <2>2 DEF Typed, FlowInv, Flow, PastDisc, JoinDispatcher
<1>1. CASE UNCHANGED <<auth, queue, disp, co, tally>>
  BY <1>0, <1>1, NoPassHeads, OnlyPass
<1>2. CASE /\ auth' = Finalized.auth /\ disp' = Finalized.disp
           /\ co' = Finalized.co /\ queue' = <<>> /\ UNCHANGED tally
  <2>1. /\ Control(auth, auth') /\ auth' \in Authorities
        /\ auth'.lanes["control"].life = 0 /\ disp' \in DispS /\ disp'.pc = disp.pc
        /\ disp'.frontier = disp.frontier /\ co' \in CoS /\ co'.control.life = 0
        /\ co'.discOn = co.discOn /\ co'.discSub = co.discSub
        /\ co'.folder = co.folder /\ co'.streamSub = co.streamSub
    BY <1>2, FinalizedFacts DEF NoReceipt
  <2>2. Heads(co', pass', Serving') /\ queue' \in Seq(Items)
    BY <1>0, <1>2, NoPassHeads, Queues
  <2>3. Typed'
    BY <1>0, <1>2, <2>1, <2>2 DEF Typed, Heads
  <2>4. DrainInv'
    BY <1>0, <2>1 DEF DrainInv
  <2>5. LifeInv'
    BY <1>0, <2>1, <2>2, Names DEF LifeInv, Heads, Control
  <2>6. FlowInv'
    BY <1>0, <2>1, <2>2 DEF FlowInv, Heads, Subscribed
  <2>7. QED
    BY <1>0, <2>1, <2>3, <2>4, <2>5, <2>6 DEF Moves, Kept, Control
<1>3. CASE /\ Failing /\ auth' = NotFinalized.auth /\ disp' = NotFinalized.disp
           /\ tally' = Failed /\ UNCHANGED <<queue, co>>
  BY <1>0, <1>3, NotFinalizedMoves
<1>4. QED
  BY <1>1, <1>2, <1>3 DEF JoinDispatcher

\* Admission is closed under whatever is under way.
LEMMA CloseStep ==
    ASSUME Typed, DrainInv, LifeInv, FlowInv, CloseAdmission
    PROVE  Moves
<1>0. auth \in Authorities /\ co \in CoS
  BY DEF Typed
<1>1. /\ auth' = Close(auth) /\ co' = [co EXCEPT !.completion = NoCompletion]
      /\ tally' = MaxEvents /\ UNCHANGED <<queue, disc, stream, disp, pass, ticket>>
  BY DEF CloseAdmission
<1>2. Advances(auth, auth') /\ auth'.lanes = auth.lanes
  BY <1>0, <1>1, CloseFacts
<1>3. NoCompletion \in Completions
  BY DEF NoCompletion, Completions
<1>4. /\ co' \in CoS /\ co'.control = co.control /\ co'.discOn = co.discOn
      /\ co'.discSub = co.discSub /\ co'.folder = co.folder
      /\ co'.streamSub = co.streamSub
  BY <1>0, <1>1, <1>3 DEF CoS
<1>5. Typed'
  BY <1>1, <1>2, <1>4, Names DEF Typed, Advances
<1>6. DrainInv' /\ Serving' = Serving
  BY <1>1 DEF DrainInv, Serving
<1>7. LifeInv'
  BY <1>1, <1>2, <1>4 DEF LifeInv
<1>8. FlowInv'
  BY <1>1, <1>4, <1>6 DEF FlowInv, Flow, Subscribed
<1>9. QED
  BY <1>1, <1>2, <1>5, <1>6, <1>7, <1>8 DEF Moves, Kept

-----------------------------------------------------------------------------
(* The invariant *)

\* Tokens only advance, so what is in a hand stays what it was.
LEMMA TicketsKept ==
    ASSUME Typed, TicketInv, Advances(auth, auth'), Kept
    PROVE  TicketInv'
<1>1. auth.token \in Nat /\ auth'.token \in Nat /\ auth.held \in BOOLEAN
      /\ auth'.held \in BOOLEAN
  BY Fields DEF Typed, Advances
<1>2. ticket.token \in Nat /\ disp.frontier.token \in Nat
  BY DEF Typed, Tickets, DispS, Frontiers
<1>3. \A t \in Nat : Handed(t) => t <= auth'.token /\ (t = auth'.token => auth'.held)
  BY <1>1 DEF Handed, Advances
<1>4. QED
  BY <1>2, <1>3 DEF TicketInv, Handed, Kept, Advances

\* Every step keeps the invariant, and tokens only advance.
LEMMA Steps ==
    ASSUME IInv, Next
    PROVE  IInv' /\ Advances(auth, auth')
<1>0. Typed /\ DrainInv /\ LifeInv /\ FlowInv /\ TicketInv
  BY DEF IInv
<1>1. ASSUME Aside, Kept PROVE IInv' /\ Advances(auth, auth')
  <2>1. Typed' /\ DrainInv' /\ LifeInv' /\ FlowInv' /\ Advances(auth, auth')
    BY <1>0, <1>1, AsideKeeps
  <2>2. TicketInv'
    BY <1>0, <1>1, <2>1, TicketsKept
  <2>3. QED
    BY <2>1, <2>2 DEF IInv
<1>2. ASSUME Aside, TicketInv' PROVE IInv' /\ Advances(auth, auth')
  BY <1>0, <1>2, AsideKeeps DEF IInv
<1>3. ASSUME Moves PROVE IInv' /\ Advances(auth, auth')
  <2>1. TicketInv'
    BY <1>0, <1>3, TicketsKept DEF Moves
  <2>2. QED
    BY <1>3, <2>1 DEF IInv, Moves
<1>4. CASE Discovery
  BY <1>0, <1>1, <1>4, ScanBeginStep, ScanCommitStep, ScanDeliverStep DEF Discovery
<1>5. CASE LogWorker
  BY <1>0, <1>1, <1>5, WorkBeginStep, WorkStep, DrainTakeStep, DrainPutStep DEF LogWorker
<1>6. CASE Dispatcher
  <2>1. CASE TakeRoster \/ TakeBatch \/ TakeControl \/ Reset \/ Prime
    BY <1>0, <1>1, <2>1, TakeRosterStep, TakeBatchStep, TakeControlStep, ResetStep, PrimeStep
  <2>2. CASE Republish \/ AskStream
    BY <1>0, <1>1, <2>2, RepublishStep, AskStreamStep
  <2>3. CASE PublishCapture \/ PublishSeal
    BY <1>0, <1>2, <2>3, PublishCaptureStep, PublishSealStep
  <2>4. QED
    BY <1>6, <2>1, <2>2, <2>3 DEF Dispatcher
<1>7. CASE Pass
  <2>1. CASE Reconcile \/ StartDispatcher \/ AwaitReset
    BY <1>0, <1>3, <2>1, ReconcileStep, StartDispatcherStep, AwaitResetStep
  <2>2. CASE StopDiscovery \/ JoinDiscovery \/ StartDiscovery
    BY <1>0, <1>3, <2>2, StopDiscoveryStep, JoinDiscoveryStep, StartDiscoveryStep
  <2>3. CASE StopStream \/ JoinStream \/ AwaitRefresh \/ StartStream
    BY <1>0, <1>3, <2>3, StopStreamStep, JoinStreamStep, AwaitRefreshStep, StartStreamStep
  <2>4. CASE StopDispatcher \/ JoinDispatcher
    BY <1>0, <1>3, <2>4, StopDispatcherStep, JoinDispatcherStep
  <2>5. QED
    BY <1>7, <2>1, <2>2, <2>3, <2>4 DEF Pass
<1>8. CASE CloseAdmission
  BY <1>0, <1>3, <1>8, CloseStep
<1>9. QED
  BY <1>4, <1>5, <1>6, <1>7, <1>8 DEF Next

\* It holds at the start: discovery has its lifetime, and nothing runs.
LEMMA Begins == Init => IInv
<1> SUFFICES ASSUME Init PROVE IInv
  OBVIOUS
<1>1. /\ NewAuthority \in Authorities /\ ~NewAuthority.held /\ ~NewAuthority.closed
      /\ \A l \in Lanes : NewAuthority.lanes[l].life = 0
  BY NewTyped
<1>2. /\ auth = Begin(NewAuthority, "roster") /\ Advances(NewAuthority, auth)
      /\ auth \in Authorities /\ ~auth.closed
      /\ auth.lanes["roster"].requested.life = auth.lanes["roster"].life
      /\ auth.lanes["stream"].life = 0 /\ auth.lanes["control"].life = 0
  BY <1>1, BeginFacts, Names DEF Init, Advances
<1>3. /\ Granted(auth, "roster") \in Stamps
      /\ Granted(auth, "roster").life = auth.lanes["roster"].life
  BY <1>2, Names, Fields, LaneFields DEF Granted
<1>4. disc \in DiscS /\ disc.receipt.life = auth.lanes["roster"].life
  BY <1>3, Stamp0 DEF Init, DiscS
<1>5. stream \in StreamS /\ stream.receipt.life = 0
  BY Stamp0, ItemTyped, Queues DEF Init, StreamS, NoReceipt
<1>6. disp \in DispS
  BY <1>2, FrontierTyped, ItemTyped DEF Init, DispS, Frontiers
<1>7. co \in CoS /\ co.control.life = 0
  BY Stamp0, Names DEF Init, CoS, NoCompletion, Completions, NoReceipt
<1>8. pass \in PassS /\ pass.pc = "idle"
  BY Stamp0, Names DEF Init, PassS, NoPass
<1>9. ticket \in Tickets /\ tally \in 0..MaxEvents /\ queue \in Seq(Items)
  BY Names DEF Init, NoTicket, Tickets
<1>10. Typed
  BY <1>2, <1>4, <1>5, <1>6, <1>7, <1>8, <1>9 DEF Typed
<1>11. DrainInv
  BY DEF Init, DrainInv
<1>12. LifeInv
  BY <1>2, <1>4, <1>5, <1>7, <1>8 DEF LifeInv
<1>13. FlowInv
  BY <1>8 DEF Init, FlowInv, Flow, Subscribed, Underway, PastDisc
<1>14. TicketInv
  <2>1. Guarded(auth)
    BY <1>1, <1>2 DEF Advances, Guarded
  <2>2. auth.token \in Nat \ {0} /\ ticket.token = 0 /\ disp.frontier.token = 0
    BY <1>2, Fields DEF Init, NoTicket, NoFrontier
  <2>3. QED
    BY <2>1, <2>2 DEF TicketInv, Handed
<1>15. QED
  BY <1>10, <1>11, <1>12, <1>13, <1>14 DEF IInv

\* The invariant holds always, for any number of events and folders and any choices.
THEOREM Invariance == Spec => []IInv
<1>1. IInv /\ [Next]_vars => IInv'
  <2> SUFFICES ASSUME IInv, [Next]_vars PROVE IInv'
    OBVIOUS
  <2>1. CASE Next
    BY <2>1, Steps
  <2>2. CASE UNCHANGED vars
    BY <2>2 DEF IInv, Typed, DrainInv, LifeInv, FlowInv, Flow, Subscribed, Serving,
                TicketInv, Handed, vars
  <2>3. QED
    BY <2>1, <2>2
<1>2. QED
  BY <1>1, Begins, PTL DEF Spec

\* Every variable keeps its type, and delivery has the owner it names (gamelogs.py's
\* _drain_queue and the dispatcher that owns delivery for it).
THEOREM TypeCorrect == Spec => []TypeOK
<1>1. IInv => TypeOK
  BY DEF IInv, Typed, DrainInv, TypeOK, DiscS, StreamS, DispS, CoS, PassS, Tickets,
         Completions, Frontiers
<1>2. QED
  BY <1>1, Invariance, PTL

\* A ticket that is not current never becomes current again (admission.py:390).
THEOREM RevokedForGoodAlways == Spec => RevokedForGood
<1>1. IInv /\ [Next]_vars =>
        [ /\ ticket # NoTicket /\ ~Current(auth, ticket.token)
          /\ ticket'.token = ticket.token
          => ~Current(auth', ticket'.token) ]_vars
  <2> SUFFICES ASSUME IInv, Next, ~Current(auth, ticket.token),
                      ticket'.token = ticket.token
               PROVE  ~Current(auth', ticket'.token)
    OBVIOUS
  <2>1. Advances(auth, auth') /\ auth \in Authorities /\ auth' \in Authorities
    BY Steps DEF IInv, Typed, Advances
  <2>2. auth.token \in Nat /\ auth'.token \in Nat /\ ticket.token \in Nat
    BY <2>1, Fields DEF IInv, Typed, Tickets
  <2>3. ticket.token < auth.token
    <3>1. ticket.token = auth.token => Current(auth, ticket.token)
      BY DEF IInv, TicketInv, Handed, Guarded, Captures
    <3>2. ticket.token <= auth.token
      BY DEF IInv, TicketInv, Handed
    <3>3. QED
      BY <2>2, <3>1, <3>2
  <2>4. ticket'.token # auth'.token
    BY <2>1, <2>2, <2>3 DEF Advances
  <2>5. QED
    BY <2>4 DEF Current
<1>2. QED
  BY <1>1, Invariance, PTL DEF Spec, RevokedForGood

\* A lane is free whenever a pass starts its worker or reserves control
\* (admission.py:138 would raise).
THEOREM BeginNeverRaisesAlways == Spec => []BeginNeverRaises
<1>1. IInv => BeginNeverRaises
  BY DEF IInv, LifeInv, FlowInv, Flow, BeginNeverRaises, CanBegin, NoReceipt
<1>2. QED
  BY <1>1, Invariance, PTL

\* No producer feeds a queue that nobody reads (coordinator.py:490).
THEOREM SubscribersAreServedAlways == Spec => []SubscribersAreServed
<1>1. IInv => SubscribersAreServed
  BY DEF IInv, FlowInv, Serving, SubscribersAreServed
<1>2. QED
  BY <1>1, Invariance, PTL
-----------------------------------------------------------------------------
(* What a step leaves to the lanes it does not concern *)

Watched == {"roster", "stream"}
Alike(x, y) == /\ y.life = x.life /\ y.lives = x.lives
               /\ y.requested = x.requested /\ y.applied = x.applied
\* A lane asks for the receipts of its own lifetime, and acknowledges no other.
LaneSound(x) == /\ x.applied <= x.requested.order /\ x.life <= x.lives
                /\ x.requested.life = x.life
                /\ x.life = 0 => ~x.running /\ x.requested = NoReceipt
Sound(a) == \A l \in Lanes : LaneSound(a.lanes[l])
\* No lane is begun or freed, or gets a receipt, or acknowledges one.
LanesCalm(a, b) ==
    /\ \A l \in Watched : /\ Alike(a.lanes[l], b.lanes[l])
                          /\ b.lanes[l].running => a.lanes[l].running
    /\ a.closed => b.closed
    /\ Sound(a) => Sound(b)
\* Nothing is recovered either.
Calm(a, b) ==
    /\ LanesCalm(a, b)
    /\ ~b.closed => /\ b.pending = a.pending
                    /\ a.poisoned => b.poisoned
                    /\ b.clean => a.clean

\* Calls that are calm may be chained.
LEMMA CalmChain ==
    ASSUME NEW a, NEW b, NEW c, Calm(a, b), Calm(b, c)
    PROVE  Calm(a, c)
  BY DEF Calm, LanesCalm, Alike, Watched

\* Another value for a lane is calm if it is alike.
LEMMA CalmLane ==
    ASSUME NEW a \in Authorities, NEW l \in Lanes, NEW x \in LaneStates,
           LaneSound(a.lanes[l]) => LaneSound(x),
           l \in Watched => Alike(a.lanes[l], x) /\ (x.running => a.lanes[l].running)
    PROVE  Calm(a, [a EXCEPT !.lanes[l] = x]) /\ [a EXCEPT !.lanes[l] = x] \in Authorities
<1> DEFINE b == [a EXCEPT !.lanes[l] = x]
<1>1. /\ b \in Authorities /\ b.lanes[l] = x
      /\ \A k \in Lanes : k # l => b.lanes[k] = a.lanes[k]
      /\ b.closed = a.closed /\ b.poisoned = a.poisoned /\ b.pending = a.pending
      /\ b.clean = a.clean
  BY LaneSet
<1> HIDE DEF b
<1>2. \A k \in Watched : Alike(a.lanes[k], b.lanes[k]) /\ (b.lanes[k].running => a.lanes[k].running)
  <2> TAKE k \in Watched
  <2>1. k \in Lanes
    BY DEF Watched, Lanes
  <2>2. CASE k = l
    BY <1>1, <2>2
  <2>3. CASE k # l
    BY <1>1, <2>1, <2>3 DEF Alike
  <2>4. QED
    BY <2>2, <2>3
<1>3. Sound(a) => Sound(b)
  BY <1>1 DEF Sound
<1>4. Calm(a, b)
  BY <1>1, <1>2, <1>3 DEF Calm, LanesCalm
<1>5. QED
  BY <1>1, <1>4 DEF b

\* A revocation is calm.
LEMMA CalmRevoke ==
    ASSUME NEW a \in Authorities, NEW b \in Authorities, Calm(a, b)
    PROVE  Calm(a, Revoke(b))
<1>1. Calm(b, Revoke(b))
  BY RevokeFacts DEF Calm, LanesCalm, Alike, Sound
<1>2. QED
  BY <1>1, CalmChain

\* The methods that tell nothing new about what a producer holds.
LEMMA CalmMethods ==
    ASSUME NEW a \in Authorities, NEW l \in Lanes
    PROVE  /\ Calm(a, a) /\ Calm(a, Poison(a)) /\ Calm(a, Hold(a)) /\ Calm(a, Close(a))
           /\ \A life \in Nat : Calm(a, StartOperation(a, l, life)) /\ Calm(a, Stop(a, l, life))
           /\ \A op \in Stamps : Calm(a, RecordApplication(a, l, op))
<1>1. Calm(a, a)
  BY DEF Calm, LanesCalm, Alike
<1>2. Calm(a, Poison(a)) /\ Poison(a) \in Authorities /\ Poison(a).lanes = a.lanes
  <2> DEFINE b == [a EXCEPT !.poisoned = TRUE, !.clean = FALSE]
  <2>1. /\ b \in Authorities /\ b.lanes = a.lanes /\ b.closed = a.closed
        /\ b.poisoned /\ ~b.clean /\ b.pending = a.pending
    BY DEF Authorities
  <2>2. Poison(a) = Revoke(b)
    BY DEF Poison
  <2> HIDE DEF b
  <2>3. Calm(a, b)
    BY <2>1 DEF Calm, LanesCalm, Alike, Sound
  <2>4. QED
    BY <2>1, <2>2, <2>3, CalmRevoke, RevokeFacts
<1>3. Calm(a, Hold(a))
  <2>1. [a EXCEPT !.held = TRUE] \in Authorities
    BY DEF Authorities
  <2>2. QED
    BY <1>1, <2>1 DEF Hold, Calm, LanesCalm, Alike, Authorities, Sound
<1>4. Calm(a, Close(a))
  <2> DEFINE b == [a EXCEPT !.closed = TRUE]
  <2>1. b \in Authorities /\ b.lanes = a.lanes /\ b.closed
    BY DEF Authorities
  <2>2. Close(a) = Revoke(b)
    BY DEF Close
  <2> HIDE DEF b
  <2>3. Calm(a, b)
    BY <2>1 DEF Calm, LanesCalm, Alike, Sound
  <2>4. QED
    BY <2>1, <2>2, <2>3, CalmRevoke
<1>5. ASSUME NEW life \in Nat PROVE Calm(a, StartOperation(a, l, life))
  <2> DEFINE x == [a.lanes[l] EXCEPT !.started = [life |-> life,
                                                  order |-> a.lanes[l].started.order + 1]]
  <2>1. a.lanes[l] \in LaneStates /\ a.lanes[l].started.order \in Nat
    BY Fields, LaneFields DEF Stamps
  <2>2. x \in LaneStates /\ Alike(a.lanes[l], x) /\ x.running = a.lanes[l].running
    BY <2>1, <1>5 DEF LaneStates, Stamps, Alike
  <2>5. LaneSound(a.lanes[l]) => LaneSound(x)
    BY <2>2 DEF LaneSound, Alike
  <2>3. StartOperation(a, l, life) = IF Owns(a, l, life) THEN [a EXCEPT !.lanes[l] = x] ELSE a
    BY DEF StartOperation, Authorities
  <2> HIDE DEF x
  <2>4. QED
    BY <1>1, <2>2, <2>3, <2>5, CalmLane
<1>6. ASSUME NEW life \in Nat PROVE Calm(a, Stop(a, l, life))
  <2> DEFINE x == [a.lanes[l] EXCEPT !.running = FALSE]
             b == [a EXCEPT !.lanes[l] = x]
  <2>1. a.lanes[l] \in LaneStates
    BY Fields
  <2>2. x \in LaneStates /\ Alike(a.lanes[l], x) /\ ~x.running
    BY <2>1 DEF LaneStates, Alike
  <2>3. Stop(a, l, life) = IF a.lanes[l].life = life /\ a.lanes[l].running
                           THEN Revoke(b) ELSE a
    BY DEF Stop, Authorities
  <2> HIDE DEF x
  <2>4. LaneSound(a.lanes[l]) => LaneSound(x)
    BY <2>2 DEF LaneSound, Alike
  <2>5. Calm(a, b) /\ b \in Authorities
    BY <2>2, <2>4, CalmLane
  <2> HIDE DEF b
  <2>6. QED
    BY <1>1, <2>3, <2>5, CalmRevoke
<1>7. ASSUME NEW op \in Stamps PROVE Calm(a, RecordApplication(a, l, op))
  <2> DEFINE b == IF Obsolete(a, l, op) THEN Poison(a) ELSE a
             x == [b.lanes[l] EXCEPT !.provenance = op]
  <2>1. Calm(a, b) /\ b \in Authorities
    BY <1>1, <1>2
  <2>2. RecordApplication(a, l, op) = IF a.closed THEN a ELSE [b EXCEPT !.lanes[l] = x]
    BY <2>1 DEF RecordApplication, Authorities
  <2> HIDE DEF b
  <2>3. b.lanes[l] \in LaneStates
    BY <2>1, Fields
  <2>4. x \in LaneStates /\ Alike(b.lanes[l], x) /\ x.running = b.lanes[l].running
    BY <2>3, <1>7 DEF LaneStates, Alike
  <2> HIDE DEF x
  <2>5. LaneSound(b.lanes[l]) => LaneSound(x)
    BY <2>4 DEF LaneSound, Alike
  <2>6. Calm(b, [b EXCEPT !.lanes[l] = x])
    BY <2>1, <2>4, <2>5, CalmLane
  <2>7. QED
    BY <1>1, <2>1, <2>2, <2>6, CalmChain
<1>8. QED
  BY <1>1, <1>2, <1>3, <1>4, <1>5, <1>6, <1>7

\* Another receipt, another lifetime and a freed lane, in full.
Others(a, b, l) == \A k \in Lanes : k # l => b.lanes[k] = a.lanes[k]
SameRest(a, b) == /\ b.closed = a.closed /\ b.pending = a.pending
                  /\ b.poisoned = a.poisoned /\ b.clean = a.clean
\* What reserving a receipt, beginning and freeing a lane do to the lanes.
LEMMA LaneEffects ==
    ASSUME NEW a \in Authorities, NEW l \in Lanes
    PROVE  /\ LET b == ReserveLocked(a, l) IN
              /\ SameRest(a, b) /\ Others(a, b, l)
              /\ b.lanes[l].life = a.lanes[l].life /\ b.lanes[l].lives = a.lanes[l].lives
              /\ b.lanes[l].running = a.lanes[l].running
              /\ b.lanes[l].applied = a.lanes[l].applied
              /\ b.lanes[l].requested = [life |-> a.lanes[l].life,
                                         order |-> a.lanes[l].requested.order + 1]
              /\ a.lanes[l].running /\ Sound(a) => Sound(b)
           /\ LET b == Begin(a, l) IN
              ~a.closed =>
              /\ SameRest(a, b) /\ Others(a, b, l)
              /\ b.lanes[l].life = a.lanes[l].lives + 1
              /\ b.lanes[l].lives = a.lanes[l].lives + 1
              /\ b.lanes[l].running
              /\ b.lanes[l].applied = 0
              /\ b.lanes[l].requested = [life |-> a.lanes[l].lives + 1, order |-> 1]
              /\ Sound(a) => Sound(b)
           /\ \A life \in Nat : LET b == Stopped(a, l, life) IN
              /\ SameRest(a, b) /\ Others(a, b, l)
              /\ life = a.lanes[l].life /\ ~a.lanes[l].running =>
                    /\ b.lanes[l].life = 0 /\ b.lanes[l].lives = a.lanes[l].lives
                    /\ ~b.lanes[l].running /\ b.lanes[l].applied = 0
                    /\ b.lanes[l].requested = NoReceipt
              /\ Sound(a) => Sound(b)
<1>0. a.lanes[l] \in LaneStates
  BY Fields
<1>1. ASSUME NEW c \in Authorities
      PROVE  LET b == ReserveLocked(c, l) IN
              /\ SameRest(c, b) /\ \A k \in Lanes : k # l => b.lanes[k] = c.lanes[k]
              /\ b.lanes[l] = [c.lanes[l] EXCEPT !.requested =
                   [life |-> c.lanes[l].life, order |-> c.lanes[l].requested.order + 1]]
  <2> DEFINE r == [life |-> c.lanes[l].life, order |-> c.lanes[l].requested.order + 1]
             x == [c.lanes[l] EXCEPT !.requested = r]
             b == [c EXCEPT !.lanes[l] = x]
  <2>1. c.lanes[l] \in LaneStates
    BY Fields
  <2>2. r \in Stamps
    BY <2>1, LaneFields DEF Stamps
  <2> HIDE DEF r
  <2>3. x \in LaneStates
    BY <2>1, <2>2 DEF LaneStates
  <2> USE DEF r
  <2>4. ReserveLocked(c, l) = Revoke(b)
    BY DEF ReserveLocked, Authorities
  <2> HIDE DEF x, r
  <2>5. /\ b \in Authorities /\ b.lanes[l] = x
        /\ \A k \in Lanes : k # l => b.lanes[k] = c.lanes[k]
        /\ SameRest(c, b)
    BY <2>3, LaneSet DEF SameRest
  <2> HIDE DEF b
  <2>6. Revoke(b).lanes = b.lanes /\ SameRest(b, Revoke(b))
    BY <2>5, RevokeFacts DEF SameRest
  <2>7. QED
    BY <2>4, <2>5, <2>6 DEF SameRest, x, r
<1>2. LET b == ReserveLocked(a, l) IN
      /\ SameRest(a, b) /\ Others(a, b, l)
      /\ b.lanes[l].life = a.lanes[l].life /\ b.lanes[l].lives = a.lanes[l].lives
      /\ b.lanes[l].running = a.lanes[l].running
      /\ b.lanes[l].applied = a.lanes[l].applied
      /\ b.lanes[l].requested = [life |-> a.lanes[l].life,
                                 order |-> a.lanes[l].requested.order + 1]
      /\ a.lanes[l].running /\ Sound(a) => Sound(b)
  <2> DEFINE b == ReserveLocked(a, l)
             r == [life |-> a.lanes[l].life, order |-> a.lanes[l].requested.order + 1]
  <2>1. /\ SameRest(a, b) /\ Others(a, b, l)
        /\ b.lanes[l] = [a.lanes[l] EXCEPT !.requested = r]
    BY <1>1 DEF Others
  <2> HIDE DEF b
  <2>2. /\ b.lanes[l].life = a.lanes[l].life /\ b.lanes[l].lives = a.lanes[l].lives
        /\ b.lanes[l].running = a.lanes[l].running
        /\ b.lanes[l].applied = a.lanes[l].applied /\ b.lanes[l].requested = r
    BY <1>0, <2>1 DEF LaneStates
  <2>3. a.lanes[l].requested.order \in Nat /\ a.lanes[l].applied \in Nat
    BY <1>0, LaneFields DEF Stamps
  <2>4. a.lanes[l].running /\ LaneSound(a.lanes[l]) => LaneSound(b.lanes[l])
    BY <2>2, <2>3 DEF LaneSound
  <2>5. QED
    BY <2>1, <2>2, <2>4 DEF b, Sound, Others
<1>3. ASSUME ~a.closed
      PROVE  LET b == Begin(a, l) IN
              /\ SameRest(a, b) /\ Others(a, b, l)
              /\ b.lanes[l].life = a.lanes[l].lives + 1
              /\ b.lanes[l].lives = a.lanes[l].lives + 1
              /\ b.lanes[l].running
              /\ b.lanes[l].applied = 0
              /\ b.lanes[l].requested = [life |-> a.lanes[l].lives + 1, order |-> 1]
              /\ Sound(a) => Sound(b)
  <2> DEFINE n == a.lanes[l].lives + 1
             y == NoOwner(n, a.lanes[l].cut)
             z == [y EXCEPT !.life = n, !.running = TRUE]
             c == [a EXCEPT !.lanes[l] = z]
  <2>1. n \in Nat /\ a.lanes[l].cut \in Stamps
    BY <1>0, LaneFields
  <2> HIDE DEF n
  <2>2. /\ z \in LaneStates /\ z.life = n /\ z.lives = n /\ z.running /\ z.applied = 0
        /\ z.requested = NoReceipt
    BY <2>1, NoOwnerTyped, Stamp0 DEF NoOwner, LaneStates
  <2>3. Begin(a, l) = ReserveLocked(c, l)
    BY <1>3 DEF Begin, n, Authorities
  <2> HIDE DEF z
  <2>4. /\ c \in Authorities /\ c.lanes[l] = z
        /\ \A k \in Lanes : k # l => c.lanes[k] = a.lanes[k]
        /\ SameRest(a, c)
    BY <2>2, LaneSet DEF SameRest
  <2> HIDE DEF c
  <2>5. LET b == ReserveLocked(c, l) IN
        /\ SameRest(a, b) /\ Others(a, b, l)
        /\ b.lanes[l] = [z EXCEPT !.requested = [life |-> n, order |-> 1]]
    BY <1>0, <1>1, <2>2, <2>4 DEF SameRest, Others, NoReceipt
  <2>6. [z EXCEPT !.requested = [life |-> n, order |-> 1]].requested
           = [life |-> n, order |-> 1]
    BY <2>2 DEF LaneStates
  <2>7. LET b == ReserveLocked(c, l) IN
        /\ b.lanes[l].life = n /\ b.lanes[l].lives = n /\ b.lanes[l].running
        /\ b.lanes[l].applied = 0 /\ b.lanes[l].requested = [life |-> n, order |-> 1]
    BY <2>2, <2>5, <2>6 DEF LaneStates
  <2>8. LaneSound(ReserveLocked(c, l).lanes[l])
    <3>1. n \in Nat /\ n # 0
      BY <1>0, LaneFields DEF n
    <3>2. QED
      BY <2>7, <3>1 DEF LaneSound
  <2>9. QED
    BY <2>3, <2>5, <2>7, <2>8 DEF n, Sound, Others
<1>4. ASSUME NEW life \in Nat
      PROVE  LET b == Stopped(a, l, life) IN
              /\ SameRest(a, b) /\ Others(a, b, l)
              /\ life = a.lanes[l].life /\ ~a.lanes[l].running =>
                    /\ b.lanes[l].life = 0 /\ b.lanes[l].lives = a.lanes[l].lives
                    /\ ~b.lanes[l].running /\ b.lanes[l].applied = 0
                    /\ b.lanes[l].requested = NoReceipt
              /\ Sound(a) => Sound(b)
  <2> DEFINE x == NoOwner(a.lanes[l].lives, a.lanes[l].cut)
             b == [a EXCEPT !.lanes[l] = x]
  <2>1. x \in LaneStates /\ x.life = 0 /\ x.lives = a.lanes[l].lives /\ ~x.running
        /\ x.applied = 0 /\ x.requested = NoReceipt
    BY <1>0, LaneFields, NoOwnerTyped DEF NoOwner
  <2>2. Stopped(a, l, life) = IF a.lanes[l].life = life /\ ~a.lanes[l].running THEN b ELSE a
    BY DEF Stopped
  <2> HIDE DEF x
  <2>3. /\ b \in Authorities /\ b.lanes[l] = x
        /\ \A k \in Lanes : k # l => b.lanes[k] = a.lanes[k]
        /\ SameRest(a, b)
    <3>1. x \in LaneStates
      BY <2>1
    <3>2. QED
      BY <3>1, LaneSet DEF SameRest
  <2> HIDE DEF b
  <2>4. SameRest(a, a) /\ Others(a, a, l)
    BY DEF SameRest, Others
  <2>5. LaneSound(x)
    BY <2>1, <1>0, LaneFields DEF LaneSound, NoReceipt
  <2>6. QED
    BY <2>1, <2>2, <2>3, <2>4, <2>5 DEF Others, Sound
<1>5. QED
  BY <1>2, <1>3, <1>4

\* Whatever is called for the lane of control is calm for the others.
LEMMA CalmControl ==
    ASSUME NEW a \in Authorities
    PROVE  /\ Calm(a, Begin(a, "control"))
           /\ \A life \in Nat : /\ Calm(a, Reserve(a, "control", life))
                                /\ Calm(a, Stopped(a, "control", life))
<1>1. "control" \in Lanes /\ Calm(a, a)
  BY CalmMethods, Names
<1>2. \A b : /\ Others(a, b, "control") /\ SameRest(a, b) /\ (Sound(a) => Sound(b))
            => Calm(a, b)
  BY DEF Others, SameRest, Calm, LanesCalm, Alike, Watched, Lanes
<1>3. Calm(a, Begin(a, "control"))
  <2>1. CASE a.closed
    BY <1>1, <2>1 DEF Begin
  <2>2. CASE ~a.closed
    BY <1>1, <1>2, <2>2, LaneEffects
  <2>3. QED
    BY <2>1, <2>2
<1>4. ASSUME NEW life \in Nat
      PROVE  Calm(a, Reserve(a, "control", life)) /\ Calm(a, Stopped(a, "control", life))
  <2>1. Calm(a, Stopped(a, "control", life))
    BY <1>1, <1>2, LaneEffects
  <2>2. Owns(a, "control", life) => Calm(a, ReserveLocked(a, "control"))
    BY <1>1, <1>2, LaneEffects DEF Owns
  <2>3. QED
    BY <1>1, <2>1, <2>2 DEF Reserve
<1>5. QED
  BY <1>3, <1>4

\* Reserving a receipt of control is calm.
LEMMA CalmReserveControl ==
    ASSUME NEW a \in Authorities, NEW receipt \in Stamps,
           receipt.life = a.lanes["control"].life
    PROVE  Calm(a, ReserveControl(a, receipt).auth)
<1> DEFINE b == IF receipt = NoReceipt THEN Begin(a, "control") ELSE a
           r == IF receipt = NoReceipt THEN Granted(b, "control") ELSE receipt
           c == StartOperation(b, "control", r.life)
           d == Reserve(c, "control", r.life)
<1>1. Calm(a, b) /\ b \in Authorities
  BY CalmControl, CalmMethods, BeginFacts, Names DEF Advances
<1>2. r \in Stamps /\ r.life \in Nat
  <2>1. r \in Stamps
    BY <1>1, Names, Fields, LaneFields, Stamp0 DEF Granted
  <2>2. QED
    BY <2>1 DEF Stamps
<1>3. ReserveControl(a, receipt).auth
        = IF r # NoReceipt /\ Owns(b, "control", r.life) THEN d ELSE b
  BY DEF ReserveControl
<1> HIDE DEF b, r
<1>4. Calm(b, c) /\ c \in Authorities
  BY <1>1, <1>2, Names, CalmMethods, Methods DEF Steady, Advances
<1> HIDE DEF c
<1>5. Calm(c, d)
  BY <1>2, <1>4, CalmControl
<1> HIDE DEF d
<1>6. QED
  BY <1>1, <1>3, <1>4, <1>5, CalmChain

\* The lanes stay what they were, and a restatement is awaited.
ResetsOnly(a, b) == LanesCalm(a, b) /\ (~b.closed => b.pending # 0)

\* Starting a reset only awaits its restatement, and applying it awaits no other one.
LEMMA ResetEffects ==
    ASSUME NEW a \in Authorities
    PROVE  /\ ResetsOnly(a, ResetStarted(a))
           /\ ~a.closed => Boundary(ResetStarted(a)) = ResetStarted(a).pending
           /\ \A n \in Nat : LET b == ResetApplied(a, n) IN
                 LanesCalm(a, b) /\ b.closed = a.closed /\ b.pending = a.pending
<1>1. CASE a.closed
  BY <1>1 DEF ResetStarted, ResetApplied, ResetsOnly, LanesCalm, Alike
<1>2. CASE ~a.closed
  <2>1. /\ ResetsOnly(a, ResetStarted(a))
        /\ Boundary(ResetStarted(a)) = ResetStarted(a).pending
    <3> DEFINE b == [a EXCEPT !.resets = a.resets + 1, !.pending = a.resets + 1, !.clean = TRUE]
    <3>0. a.resets + 1 \in Nat /\ a.resets + 1 # 0
      BY Fields
    <3>1. /\ b \in Authorities /\ b.lanes = a.lanes /\ b.pending # 0 /\ b.closed = a.closed
      BY <3>0 DEF Authorities
    <3>2. ResetStarted(a) = Revoke(b)
      BY <1>2 DEF ResetStarted, Authorities
    <3> HIDE DEF b
    <3>3. Revoke(b).lanes = a.lanes /\ Revoke(b).pending = b.pending /\ ~Revoke(b).closed
      BY <1>2, <3>1, RevokeFacts
    <3>4. QED
      BY <1>2, <3>1, <3>2, <3>3 DEF ResetsOnly, LanesCalm, Alike, Boundary, Sound
  <2>2. ASSUME NEW n \in Nat
        PROVE LET b == ResetApplied(a, n) IN
              LanesCalm(a, b) /\ b.closed = a.closed /\ b.pending = a.pending
    <3>1. CASE ~ResetAccepted(a, n)
      <4>1. ResetApplied(a, n) = Poison(a)
        BY <1>2, <3>1 DEF ResetApplied
      <4>2. Calm(a, Poison(a)) /\ Poison(a).closed = a.closed
        BY CalmMethods, PoisonFacts, Names
      <4>3. QED
        BY <1>2, <4>1, <4>2 DEF Calm
    <3>2. CASE ResetAccepted(a, n)
      <4> DEFINE new == [l \in Lanes |-> [a.lanes[l] EXCEPT !.cut = a.lanes[l].started,
                                                            !.provenance = NoOperation]]
      <4>1. ResetApplied(a, n) = [a EXCEPT !.appliedReset = n, !.lanes = new]
        BY <1>2, <3>2 DEF ResetApplied
      <4>2. \A l \in Lanes : /\ Alike(a.lanes[l], new[l])
                             /\ new[l].running = a.lanes[l].running
        <5> TAKE l \in Lanes
        <5>1. a.lanes[l] \in LaneStates
          BY Fields
        <5>2. QED
          BY <5>1 DEF Alike, LaneStates
      <4> HIDE DEF new
      <4>3. LET b == [a EXCEPT !.appliedReset = n, !.lanes = new] IN
            b.lanes = new /\ b.closed = a.closed /\ b.pending = a.pending
        BY DEF Authorities
      <4>4. \A l \in Watched : l \in Lanes
        BY DEF Watched, Lanes
      <4>5. Sound(a) => Sound([a EXCEPT !.appliedReset = n, !.lanes = new])
        <5>1. \A l \in Lanes : LaneSound(a.lanes[l]) => LaneSound(new[l])
          BY <4>2 DEF LaneSound, Alike
        <5>2. QED
          BY <4>3, <5>1 DEF Sound
      <4>6. QED
        BY <4>1, <4>2, <4>3, <4>4, <4>5 DEF LanesCalm
    <3>3. QED
      BY <3>1, <3>2
  <2>3. QED
    BY <2>1, <2>2
<1>3. QED
  BY <1>1, <1>2

-----------------------------------------------------------------------------
(* When a lane says all there is *)

\* A lane has acknowledged all it asked for, and nothing that was lost or is being
\* recovered stands against it.
SyncedIn(a, restated, l) ==
    /\ ~a.closed /\ a.lanes[l].running
    /\ a.lanes[l].applied = a.lanes[l].requested.order
    /\ IF a.pending = 0 THEN ~a.poisoned ELSE a.clean /\ l \in restated

\* Lifetimes and receipts stay what they are; acknowledgements may come.
LaneHeld(a, b, l) == /\ b.lanes[l].life = a.lanes[l].life
                     /\ b.lanes[l].lives = a.lanes[l].lives
                     /\ b.lanes[l].requested = a.lanes[l].requested
                     /\ b.lanes[l].running => a.lanes[l].running
                     /\ a.closed => b.closed
LanesHeld(a, b) ==
    /\ LaneHeld(a, b, "roster") /\ LaneHeld(a, b, "stream")
    /\ Sound(a) => Sound(b)

\* What is calm holds the lanes and leaves no lane in sync that was not, what only
\* resets leaves none at all.
LEMMA CalmSynced ==
    ASSUME NEW a, NEW b
    PROVE  /\ LanesCalm(a, b) => LanesHeld(a, b)
           /\ Calm(a, b) => /\ LanesHeld(a, b)
                            /\ ~b.closed => b.pending = a.pending
                            /\ \A R : \A l \in Watched : SyncedIn(b, R, l) => SyncedIn(a, R, l)
           /\ ResetsOnly(a, b) => /\ LanesHeld(a, b)
                                  /\ \A l \in Watched : ~SyncedIn(b, {}, l)
                                  /\ \A l \in Watched : ~SyncedIn(b, {"control"}, l)
<1>1. LanesCalm(a, b) => LanesHeld(a, b)
  BY DEF LanesCalm, LanesHeld, LaneHeld, Alike, Watched
<1>2. \A R : \A l \in Watched : Calm(a, b) /\ SyncedIn(b, R, l) => SyncedIn(a, R, l)
  BY DEF Calm, LanesCalm, SyncedIn, Alike
<1>3. Calm(a, b) => LanesHeld(a, b) /\ (~b.closed => b.pending = a.pending)
  BY <1>1 DEF Calm
<1>4. ResetsOnly(a, b) => LanesHeld(a, b)
  BY <1>1 DEF ResetsOnly
<1>5. ResetsOnly(a, b) => /\ \A l \in Watched : ~SyncedIn(b, {}, l)
                          /\ \A l \in Watched : ~SyncedIn(b, {"control"}, l)
  BY DEF ResetsOnly, SyncedIn, Watched
<1>6. QED
  BY <1>1, <1>2, <1>3, <1>4, <1>5

\* Under a current token every lane is in sync.
LEMMA CurrentSynced ==
    ASSUME NEW a, NEW t, Current(a, t)
    PROVE  \A R : \A l \in Lanes : SyncedIn(a, R, l)
  BY DEF Current, Complete, SyncedIn

\* The receipt of a batch is acknowledged, or nothing is.
Answers(a, b, l, r) ==
    /\ SameRest(a, b) /\ Others(a, b, l)
    /\ b.lanes[l].life = a.lanes[l].life /\ b.lanes[l].lives = a.lanes[l].lives
    /\ b.lanes[l].requested = a.lanes[l].requested
    /\ b.lanes[l].running = a.lanes[l].running
    /\ \/ b.lanes[l].applied = a.lanes[l].applied
       \/ /\ b.lanes[l].applied = r.order /\ r.life = a.lanes[l].life
          /\ r.order <= a.lanes[l].requested.order

\* Answers may be chained, and acknowledge nothing that was not asked for.
LEMMA AnswersChain ==
    ASSUME NEW a, NEW b, NEW c, NEW l \in Lanes, NEW r
    PROVE  /\ Answers(a, a, l, r)
           /\ Answers(a, b, l, r) /\ Answers(b, c, l, r) => Answers(a, c, l, r)
           /\ Answers(a, b, l, r) => LanesHeld(a, b)
<1>1. Answers(a, a, l, r)
  BY DEF Answers, SameRest, Others
<1>2. Answers(a, b, l, r) /\ Answers(b, c, l, r) => Answers(a, c, l, r)
  BY DEF Answers, SameRest, Others
<1>3. ASSUME Answers(a, b, l, r) PROVE LanesHeld(a, b)
  <2>1. Sound(a) => Sound(b)
    BY <1>3 DEF Sound, LaneSound, Answers, Others
  <2>2. QED
    BY <1>3, <2>1 DEF LanesHeld, LaneHeld, Answers, Others, SameRest, Watched, Lanes
<1>4. QED
  BY <1>1, <1>2, <1>3

\* An acknowledgement and a restatement answer.
LEMMA Acknowledging ==
    ASSUME NEW a \in Authorities, NEW l \in Lanes, NEW d \in Deliveries, NEW n
    PROVE  /\ Answers(a, Applied(a, l, d.receipt), l, d.receipt)
           /\ Answers(a, Restated(a, n, l, d), l, d.receipt)
           /\ CanRestate(a, n, l, d) =>
                 /\ Restated(a, n, l, d).lanes[l].applied = d.receipt.order
                 /\ d.receipt.life = a.lanes[l].life
                 /\ d.receipt.order <= a.lanes[l].requested.order
<1> DEFINE x == [a.lanes[l] EXCEPT !.applied = d.receipt.order]
           b == [a EXCEPT !.lanes[l] = x]
<1>1. d.receipt.order \in Nat /\ a.lanes[l] \in LaneStates
  BY Fields DEF Deliveries, Stamps
<1>2. /\ x \in LaneStates /\ x.applied = d.receipt.order
      /\ x.life = a.lanes[l].life /\ x.lives = a.lanes[l].lives
      /\ x.requested = a.lanes[l].requested /\ x.running = a.lanes[l].running
  BY <1>1 DEF LaneStates
<1>3. Applied(a, l, d.receipt) = IF Acknowledges(a, l, d.receipt) THEN b ELSE a
  BY DEF Applied, Authorities
<1>4. Restated(a, n, l, d) = IF CanRestate(a, n, l, d) THEN b ELSE a
  BY DEF Restated, Authorities
<1> HIDE DEF x
<1>5. /\ b \in Authorities /\ b.lanes[l] = x
      /\ \A k \in Lanes : k # l => b.lanes[k] = a.lanes[k]
      /\ SameRest(a, b)
  <2>1. x \in LaneStates
    BY <1>2
  <2>2. QED
    BY <2>1, LaneSet DEF SameRest
<1> HIDE DEF b
<1>6. d.receipt.life = a.lanes[l].life /\ d.receipt.order <= a.lanes[l].requested.order
         => Answers(a, b, l, d.receipt)
  BY <1>2, <1>5 DEF Answers, Others
<1>7. Answers(a, Applied(a, l, d.receipt), l, d.receipt)
  BY <1>3, <1>6, AnswersChain DEF Acknowledges, Owns
<1>8. CanRestate(a, n, l, d) => /\ d.receipt.life = a.lanes[l].life
                                /\ d.receipt.order <= a.lanes[l].requested.order
  BY DEF CanRestate
<1>9. Answers(a, Restated(a, n, l, d), l, d.receipt)
  BY <1>4, <1>6, <1>8, AnswersChain
<1>10. QED
  BY <1>2, <1>4, <1>5, <1>7, <1>8, <1>9

\* An application out of another lifetime poisons.
LEMMA ObsoletePoisons ==
    ASSUME NEW a \in Authorities, NEW l \in Lanes, NEW op \in Stamps
    PROVE  LET b == RecordApplication(a, l, op) IN
           /\ b \in Authorities /\ b.closed = a.closed
           /\ ~a.closed => b.pending = a.pending
           /\ ~a.closed /\ op.life # a.lanes[l].life => b.poisoned /\ ~b.clean
           /\ \A k \in Lanes : b.lanes[k].running = a.lanes[k].running
<1>1. RecordApplication(a, l, op) \in Authorities
  BY RecordFacts DEF Advances
<1>2. ASSUME ~a.closed
      PROVE  LET b == RecordApplication(a, l, op) IN
             /\ b.pending = a.pending
             /\ op.life # a.lanes[l].life => b.poisoned /\ ~b.clean
  <2> DEFINE p == [a EXCEPT !.poisoned = TRUE, !.clean = FALSE]
  <2>1. p \in Authorities /\ p.poisoned /\ ~p.clean /\ p.pending = a.pending
    BY DEF Authorities
  <2>2. Poison(a) = Revoke(p)
    BY DEF Poison
  <2> HIDE DEF p
  <2>3. Poison(a) \in Authorities /\ Poison(a).poisoned /\ ~Poison(a).clean
        /\ Poison(a).pending = a.pending
    BY <2>1, <2>2, RevokeFacts
  <2>4. op.life # a.lanes[l].life => Obsolete(a, l, op)
    BY DEF Obsolete
  <2>5. RecordApplication(a, l, op)
          = [(IF Obsolete(a, l, op) THEN Poison(a) ELSE a) EXCEPT !.lanes[l].provenance = op]
    BY <1>2 DEF RecordApplication
  <2>6. QED
    BY <2>3, <2>4, <2>5 DEF Authorities
<1>3. QED
  BY <1>1, <1>2, RecordFacts

\* The lane a batch answers for.
LaneOf(item) == IF Roster(item) THEN "roster" ELSE "stream"

\* What the calls for one applied batch leave in sync: a lane that was, or the lane
\* of the batch by the receipt that the lane asked for last.
LEMMA FinishEffects ==
    ASSUME NEW a \in Authorities, NEW d \in DispS, NEW item \in Items, Sound(a),
           ~a.closed => d.boundary = a.pending
    PROVE  LET f == Finish(a, d, item)
               l == LaneOf(item)
           IN  /\ LanesHeld(a, f.auth)
               /\ ~f.auth.closed => f.disp.boundary = f.auth.pending
               /\ f.disp.session = d.session /\ f.disp.source = d.source
               /\ f.disp.rosterGen = d.rosterGen /\ f.disp.active = d.active
               /\ f.disp.activation = d.activation /\ f.disp.pc = d.pc
               /\ f.disp.frontier = d.frontier
               /\ \A k \in Watched : k # l /\ SyncedIn(f.auth, f.disp.restated, k)
                     => SyncedIn(a, d.restated, k)
               /\ SyncedIn(f.auth, f.disp.restated, l) =>
                     IF item.d.op = NoOperation
                     THEN Roster(item) /\ SyncedIn(a, d.restated, l)
                     ELSE /\ item.d.op.life = a.lanes[l].life
                          /\ \/ SyncedIn(a, d.restated, l)
                             \/ /\ item.d.receipt = a.lanes[l].requested
                                /\ Roster(item) \/ item.d.invalidates \/ item.d.reset # 0
<1> DEFINE l == LaneOf(item)
           b == RecordApplication(a, l, item.d.op)
           c == IF Roster(item) \/ item.d.invalidates
                THEN Applied(b, l, item.d.receipt) ELSE b
           ok == CanRestate(c, d.boundary, l, item.d)
           e == IF Restates(item) THEN Restated(c, d.boundary, l, item.d) ELSE c
           restated == IF ~Restates(item) THEN d.restated
                       ELSE IF ok THEN d.restated \cup {l} ELSE d.restated \ {l}
           reseeds == d.boundary # 0 /\ restated = Lanes
           over == reseeds /\ CanReseed(e, d.boundary)
           t == [d EXCEPT !.restated = restated,
                          !.boundary = IF over THEN 0 ELSE d.boundary]
           g == IF reseeds THEN Reseeded(e, d.boundary) ELSE e
           f == Finish(a, d, item)
<1>1. /\ l \in Lanes /\ l \in Watched /\ \A k \in Watched : k \in Lanes
      /\ d.boundary \in Nat /\ d.restated \in SUBSET Lanes
  BY DEF Lanes, DispS, Watched, LaneOf
<1>2. item.d \in Deliveries /\ item.d.op \in Stamps /\ item.d.receipt \in Stamps
  BY ItemFields
<1>3. f = IF item.d.op = NoOperation
          THEN [auth |-> IF Roster(item) THEN a ELSE Poison(a), disp |-> d]
          ELSE [auth |-> g, disp |-> t]
  BY DEF Finish, LaneOf
<1> HIDE DEF f, l
<1>4. CASE item.d.op = NoOperation
  <2>1. CASE Roster(item)
    <3>1. f.auth = a /\ f.disp = d
      BY <1>3, <1>4, <2>1
    <3>2. LanesHeld(a, a)
      BY CalmMethods, CalmSynced, <1>1
    <3>3. QED
      BY <1>1, <1>4, <2>1, <3>1, <3>2 DEF f, l
  <2>2. CASE ~Roster(item)
    <3>1. f.auth = Poison(a) /\ f.disp = d
      BY <1>3, <1>4, <2>2
    <3>2. Calm(a, Poison(a))
      BY <1>1, CalmMethods
    <3>3. \A k \in Watched : ~SyncedIn(Poison(a), d.restated, k)
      <4> DEFINE p == [a EXCEPT !.poisoned = TRUE, !.clean = FALSE]
      <4>1. p \in Authorities /\ p.poisoned /\ ~p.clean
        BY DEF Authorities
      <4>2. Poison(a) = Revoke(p)
        BY DEF Poison
      <4> HIDE DEF p
      <4>3. Poison(a).poisoned /\ ~Poison(a).clean
        BY <4>1, <4>2, RevokeFacts
      <4>4. QED
        BY <4>3 DEF SyncedIn
    <3>4. LanesHeld(a, Poison(a)) /\ (~Poison(a).closed => Poison(a).pending = a.pending)
      BY <3>2, CalmSynced
    <3>5. ~Poison(a).closed => d.boundary = Poison(a).pending
      BY <3>4 DEF LanesHeld, LaneHeld
    <3>6. QED
      BY <1>1, <3>1, <3>3, <3>4, <3>5 DEF f, l
  <2>3. QED
    BY <2>1, <2>2
<1>5. CASE item.d.op # NoOperation
  <2>1. /\ Calm(a, b) /\ b \in Authorities /\ b.closed = a.closed
        /\ ~a.closed => b.pending = a.pending
        /\ ~a.closed /\ item.d.op.life # a.lanes[l].life => b.poisoned /\ ~b.clean
        /\ \A k \in Lanes : b.lanes[k].running = a.lanes[k].running
    BY <1>1, <1>2, CalmMethods, ObsoletePoisons
  <2> HIDE DEF b
  <2>2. Answers(b, c, l, item.d.receipt) /\ c \in Authorities
    <3>1. Applied(b, l, item.d.receipt) \in Authorities
      BY <1>1, <1>2, <2>1, AppliedFacts DEF Advances
    <3>2. QED
      BY <1>1, <1>2, <2>1, <3>1, Acknowledging, AnswersChain
  <2>3. c # b => Roster(item) \/ item.d.invalidates
    OBVIOUS
  <2> HIDE DEF c
  <2>4. /\ Answers(c, e, l, item.d.receipt) /\ e \in Authorities
        /\ e # c => Restates(item)
        /\ Restates(item) /\ ok =>
             /\ e.lanes[l].applied = item.d.receipt.order
             /\ item.d.receipt.life = c.lanes[l].life
             /\ item.d.receipt.order <= c.lanes[l].requested.order
    <3>1. Restated(c, d.boundary, l, item.d) \in Authorities
      BY <1>1, <1>2, <2>2, RestatedFacts DEF Advances
    <3>2. QED
      BY <1>1, <1>2, <2>2, <3>1, Acknowledging, AnswersChain
  <2>5. /\ restated \in SUBSET Lanes
        /\ \A k \in Lanes : k # l /\ k \in restated => k \in d.restated
        /\ l \in restated => l \in d.restated \/ (Restates(item) /\ ok)
        /\ l \in restated /\ Restates(item) => ok
    BY <1>1
  <2>6. Restates(item) => Roster(item) \/ item.d.reset # 0
    BY <1>1, ItemFields DEF Restates
  <2>7. Answers(b, e, l, item.d.receipt)
    BY <1>1, <2>2, <2>4, AnswersChain
  <2> HIDE DEF e, ok
  <2>8. /\ CanReseed(e, d.boundary) => e.clean /\ ~e.closed /\ d.boundary = e.pending
        /\ Reseeded(e, d.boundary).lanes = e.lanes
        /\ Reseeded(e, d.boundary).closed = e.closed
        /\ ~CanReseed(e, d.boundary) => Reseeded(e, d.boundary) = e
        /\ CanReseed(e, d.boundary) => Reseeded(e, d.boundary).pending = 0
    <3> DEFINE r == [e EXCEPT !.pending = 0, !.poisoned = FALSE]
    <3>1. r \in Authorities /\ r.lanes = e.lanes /\ r.closed = e.closed /\ r.pending = 0
      BY <2>4 DEF Authorities
    <3>2. Reseeded(e, d.boundary) = IF CanReseed(e, d.boundary) THEN Revoke(r) ELSE e
      BY DEF Reseeded
    <3> HIDE DEF r
    <3>3. CanReseed(e, d.boundary) => e.clean /\ ~e.closed /\ d.boundary = e.pending
      BY DEF CanReseed, Recovering
    <3>4. QED
      BY <3>1, <3>2, <3>3, RevokeFacts
  <2> HIDE DEF restated
  <2>9. /\ t.restated = restated /\ t.boundary = (IF over THEN 0 ELSE d.boundary)
        /\ t.session = d.session /\ t.source = d.source
        /\ t.rosterGen = d.rosterGen /\ t.active = d.active
        /\ t.activation = d.activation /\ t.pc = d.pc /\ t.frontier = d.frontier
    BY DEF DispS
  <2>10. /\ g.lanes = e.lanes /\ g.closed = e.closed
         /\ over => g.pending = 0 /\ e.clean /\ ~e.closed /\ d.boundary = e.pending
                    /\ d.boundary # 0 /\ restated = Lanes
         /\ ~over => g = e
    BY <2>8
  <2> HIDE DEF t, over, g, reseeds
  <2>11. f.auth = g /\ f.disp = t
    BY <1>3, <1>5
  <2>12. e.closed = a.closed /\ (~a.closed => e.pending = a.pending)
    BY <2>1, <2>7 DEF Answers, SameRest
  <2>13. LanesHeld(a, g)
    <3>1. LanesHeld(a, b) /\ LanesHeld(b, e)
      BY <1>1, <2>1, <2>7, CalmSynced, AnswersChain
    <3>2. QED
      BY <2>10, <3>1 DEF LanesHeld, LaneHeld, Sound
  <2>14. ~g.closed => t.boundary = g.pending
    BY <2>9, <2>10, <2>12
  <2>15. ASSUME NEW k \in Watched, SyncedIn(g, restated, k)
         PROVE  /\ ~a.closed /\ a.lanes[k].running
                /\ e.lanes[k].applied = e.lanes[k].requested.order
                /\ IF a.pending = 0 THEN ~b.poisoned /\ ~a.poisoned
                   ELSE a.clean /\ b.clean /\ k \in restated
    <3>1. /\ ~g.closed /\ g.lanes[k].running
          /\ g.lanes[k].applied = g.lanes[k].requested.order
          /\ IF g.pending = 0 THEN ~g.poisoned ELSE g.clean /\ k \in restated
      BY <2>15 DEF SyncedIn
    <3>2. ~a.closed /\ e.pending = a.pending /\ a.lanes[k].running
          /\ e.lanes[k].applied = e.lanes[k].requested.order
      BY <2>10, <2>12, <2>13, <3>1 DEF LanesHeld, LaneHeld, Watched
    <3>3. IF a.pending = 0 THEN ~e.poisoned ELSE e.clean /\ k \in restated
      BY <1>1, <2>10, <3>1, <3>2
    <3>4. /\ b.clean = e.clean /\ b.poisoned = e.poisoned
          /\ b.clean => a.clean
          /\ a.poisoned => b.poisoned
      BY <2>1, <2>7, <3>2 DEF Answers, SameRest, Calm
    <3>5. QED
      BY <3>2, <3>3, <3>4
  <2>16. ASSUME NEW k \in Watched, k # l, SyncedIn(g, restated, k)
         PROVE  SyncedIn(a, d.restated, k)
    <3>1. e.lanes[k] = b.lanes[k] /\ Alike(a.lanes[k], b.lanes[k])
      BY <1>1, <2>1, <2>7, <2>16 DEF Answers, Others, Calm, LanesCalm
    <3>2. k \in restated => k \in d.restated
      BY <1>1, <2>5, <2>16
    <3>3. QED
      BY <2>15, <2>16, <3>1, <3>2 DEF SyncedIn, Alike
  <2>17. ASSUME SyncedIn(g, restated, l)
         PROVE  /\ item.d.op.life = a.lanes[l].life
                /\ \/ SyncedIn(a, d.restated, l)
                   \/ /\ item.d.receipt = a.lanes[l].requested
                      /\ Roster(item) \/ item.d.invalidates \/ item.d.reset # 0
    <3>1. /\ ~a.closed /\ a.lanes[l].running
          /\ e.lanes[l].applied = e.lanes[l].requested.order
          /\ IF a.pending = 0 THEN ~b.poisoned /\ ~a.poisoned
             ELSE a.clean /\ b.clean /\ l \in restated
      BY <1>1, <2>15, <2>17
    <3>2. item.d.op.life = a.lanes[l].life
      BY <2>1, <3>1
    <3>3. /\ Alike(a.lanes[l], b.lanes[l])
          /\ e.lanes[l].requested = b.lanes[l].requested
          /\ c.lanes[l].life = b.lanes[l].life
      BY <1>1, <2>1, <2>2, <2>7 DEF Answers, Calm, LanesCalm
    <3>4. a.lanes[l].requested \in Stamps /\ a.lanes[l].requested.life = a.lanes[l].life
      BY <1>1, Fields, LaneFields DEF Sound, LaneSound
    <3>5. /\ item.d.receipt.life = a.lanes[l].life
          /\ item.d.receipt.order = a.lanes[l].requested.order
          => item.d.receipt = a.lanes[l].requested
      BY <1>2, <3>4 DEF Stamps
    <3>6. CASE e.lanes[l].applied # b.lanes[l].applied
      <4>1. item.d.receipt.life = b.lanes[l].life /\ e.lanes[l].applied = item.d.receipt.order
        BY <2>7, <3>6 DEF Answers
      <4>2. e # b
        BY <3>6
      <4>3. Roster(item) \/ item.d.invalidates \/ item.d.reset # 0
        BY <2>3, <2>4, <2>6, <4>2
      <4>4. QED
        BY <3>1, <3>2, <3>3, <3>5, <4>1, <4>3 DEF Alike
    <3>7. CASE e.lanes[l].applied = b.lanes[l].applied
      <4>1. a.pending = 0 \/ l \in d.restated => SyncedIn(a, d.restated, l)
        BY <3>1, <3>3, <3>7 DEF SyncedIn, Alike
      <4>2. CASE Restates(item) /\ ok
        BY <2>4, <2>6, <3>1, <3>2, <3>3, <3>5, <4>2 DEF Alike
      <4>3. CASE ~(Restates(item) /\ ok)
        BY <2>5, <3>1, <3>2, <4>1, <4>3
      <4>4. QED
        BY <4>2, <4>3
    <3>8. QED
      BY <3>6, <3>7
  <2>18. QED
    BY <1>5, <2>9, <2>11, <2>13, <2>14, <2>16, <2>17 DEF f, l
<1>6. QED
  BY <1>4, <1>5

-----------------------------------------------------------------------------
(* Where a batch is *)

Holds(s, x) == \E i \in DOMAIN s : s[i] = x
Orders(s, x, y) == \E i, j \in DOMAIN s : i <= j /\ s[i] = x /\ s[j] = y

\* The dispatcher's queue q comes first, then the batch c that the owner of delivery
\* carries, then the queue f of deliveries: x is y, or comes before it.
Batch(x) == x.kind \in {"source", "facts"}
Ahead(q, c, f, x, y) ==
    /\ Batch(x) /\ Batch(y)
    /\ \/ Orders(q, x, y) \/ Orders(f, x, y)
       \/ (Holds(q, x) \/ x = c) /\ (Holds(f, y) \/ y = c)

\* What a sequence holds, and in which order, after its ends have changed.
LEMMA Ends ==
    ASSUME NEW s \in Seq(Items), NEW x \in Items, NEW y \in Items
    PROVE  /\ ~Holds(<<>>, x) /\ ~Orders(<<>>, x, y)
           /\ Holds(s, x) => Orders(s, x, x)
           /\ Orders(s, x, y) => Holds(s, x) /\ Holds(s, y)
           /\ \A i \in Items : Holds(<<i>>, x) => x = i
           /\ \A i \in Items : Orders(<<i>>, x, y) => x = i /\ y = i
           /\ \A i \in Items : Holds(Append(s, i), x) => Holds(s, x) \/ x = i
           /\ \A i \in Items : Orders(Append(s, i), x, y) =>
                 Orders(s, x, y) \/ (y = i /\ (Holds(s, x) \/ x = i))
           /\ s # <<>> => /\ Holds(s, Head(s))
                          /\ Holds(Tail(s), x) => Holds(s, x) /\ Orders(s, Head(s), x)
                          /\ Orders(Tail(s), x, y) => Orders(s, x, y)
<1>1. ~Holds(<<>>, x) /\ ~Orders(<<>>, x, y)
  BY DEF Holds, Orders
<1>2. \A i \in DOMAIN s : i \in Nat /\ i <= Len(s) /\ i > 0
  OBVIOUS
<1>3. Holds(s, x) => Orders(s, x, x)
  BY <1>2 DEF Holds, Orders
<1>4. Orders(s, x, y) => Holds(s, x) /\ Holds(s, y)
  BY DEF Holds, Orders
<1>5. ASSUME NEW i \in Items
      PROVE  /\ Holds(<<i>>, x) => x = i
             /\ Orders(<<i>>, x, y) => x = i /\ y = i
  BY DEF Holds, Orders
<1>6. ASSUME NEW i \in Items
      PROVE  /\ Holds(Append(s, i), x) => Holds(s, x) \/ x = i
             /\ Orders(Append(s, i), x, y) =>
                   Orders(s, x, y) \/ (y = i /\ (Holds(s, x) \/ x = i))
  <2>1. /\ DOMAIN Append(s, i) = DOMAIN s \cup {Len(s) + 1}
        /\ \A j \in DOMAIN s : Append(s, i)[j] = s[j]
        /\ Append(s, i)[Len(s) + 1] = i
        /\ Len(s) \in Nat
    OBVIOUS
  <2>2. QED
    BY <1>2, <2>1 DEF Holds, Orders
<1>7. ASSUME s # <<>>
      PROVE  /\ Holds(s, Head(s))
             /\ Holds(Tail(s), x) => Holds(s, x) /\ Orders(s, Head(s), x)
             /\ Orders(Tail(s), x, y) => Orders(s, x, y)
  <2>1. /\ 1 \in DOMAIN s /\ Head(s) = s[1]
        /\ \A j \in DOMAIN Tail(s) : j \in Nat /\ j + 1 \in DOMAIN s /\ Tail(s)[j] = s[j + 1]
    BY <1>7
  <2>2. QED
    BY <2>1 DEF Holds, Orders
<1>8. QED
  BY <1>1, <1>3, <1>4, <1>5, <1>6, <1>7

\* Nothing that leaves the dispatcher's queue, and nothing but a batch that joins
\* it, changes which batch is ahead of which.
LEMMA QueueOrder ==
    ASSUME NEW q \in Seq(Items), NEW c \in Items, NEW f \in Seq(Items),
           NEW x \in Items, NEW y \in Items
    PROVE  /\ Ahead(q, c, f, x, y) => Ahead(q, c, f, x, x) /\ Ahead(q, c, f, y, y)
           /\ Ahead(<<>>, c, f, x, y) => Ahead(q, c, f, x, y)
           /\ \A i \in Items : ~Batch(i) =>
                 /\ Ahead(<<i>>, c, f, x, y) => Ahead(q, c, f, x, y)
                 /\ Ahead(Append(q, i), c, f, x, y) => Ahead(q, c, f, x, y)
           /\ q # <<>> =>
                 /\ Ahead(Tail(q), c, f, x, y) => Ahead(q, c, f, x, y)
                 /\ Batch(Head(q)) =>
                       /\ Ahead(q, c, f, Head(q), Head(q))
                       /\ Ahead(Tail(q), c, f, x, x) => Ahead(q, c, f, Head(q), x)
<1>1. q # <<>> => Head(q) \in Items /\ Tail(q) \in Seq(Items)
  BY Queues
<1>2. <<>> \in Seq(Items)
  BY Queues
<1>3. Ahead(q, c, f, x, y) => Ahead(q, c, f, x, x) /\ Ahead(q, c, f, y, y)
  BY Ends DEF Ahead
<1>4. Ahead(<<>>, c, f, x, y) => Ahead(q, c, f, x, y)
  BY Ends DEF Ahead
<1>5. ASSUME NEW i \in Items, ~Batch(i)
      PROVE  /\ Ahead(<<i>>, c, f, x, y) => Ahead(q, c, f, x, y)
             /\ Ahead(Append(q, i), c, f, x, y) => Ahead(q, c, f, x, y)
  BY <1>5, Ends DEF Ahead
<1>6. ASSUME q # <<>>
      PROVE  /\ Ahead(Tail(q), c, f, x, y) => Ahead(q, c, f, x, y)
             /\ Batch(Head(q)) =>
                   /\ Ahead(q, c, f, Head(q), Head(q))
                   /\ Ahead(Tail(q), c, f, x, x) => Ahead(q, c, f, Head(q), x)
  <2>1. Holds(q, Head(q)) /\ Orders(q, Head(q), Head(q))
    BY <1>1, <1>6, Ends
  <2>2. Ahead(Tail(q), c, f, x, y) => Ahead(q, c, f, x, y)
    BY <1>1, <1>6, Ends DEF Ahead
  <2>3. Orders(Tail(q), x, x) => Holds(Tail(q), x)
    BY <1>1, <1>6, Ends
  <2>4. QED
    BY <1>1, <1>6, <2>1, <2>2, <2>3, Ends DEF Ahead
<1>7. QED
  BY <1>3, <1>4, <1>5, <1>6

\* Nor does the owner of delivery, who keeps the order; a new batch comes last.
LEMMA DeliveryOrder ==
    ASSUME NEW q \in Seq(Items), NEW c \in Items, NEW f \in Seq(Items),
           NEW x \in Items, NEW y \in Items
    PROVE  /\ f # <<>> =>
                 /\ Ahead(q, Head(f), Tail(f), x, y) => Ahead(q, c, f, x, y)
                 /\ Ahead(q, NoItem, Tail(f), x, y) => Ahead(q, c, f, x, y)
           /\ Ahead(Append(q, c), NoItem, f, x, y) => Ahead(q, c, f, x, y)
           /\ \A i \in Items : Ahead(q, c, Append(f, i), x, y) =>
                 \/ Ahead(q, c, f, x, y)
                 \/ y = i /\ (x = i \/ Ahead(q, c, f, x, x))
<1>1. ~Batch(NoItem)
  BY DEF Batch, NoItem, Item
<1>2. f # <<>> => Head(f) \in Items /\ Tail(f) \in Seq(Items)
  BY Queues
<1>3. ASSUME f # <<>>
      PROVE  /\ Ahead(q, Head(f), Tail(f), x, y) => Ahead(q, c, f, x, y)
             /\ Ahead(q, NoItem, Tail(f), x, y) => Ahead(q, c, f, x, y)
  <2>1. Holds(f, Head(f)) /\ Orders(f, Head(f), Head(f))
    BY <1>2, <1>3, Ends
  <2>2. QED
    BY <1>1, <1>2, <1>3, <2>1, Ends DEF Ahead
<1>4. Ahead(Append(q, c), NoItem, f, x, y) => Ahead(q, c, f, x, y)
  BY <1>1, Ends DEF Ahead
<1>5. ASSUME NEW i \in Items
      PROVE  Ahead(q, c, Append(f, i), x, y) =>
                 \/ Ahead(q, c, f, x, y)
                 \/ y = i /\ (x = i \/ Ahead(q, c, f, x, x))
  BY Ends DEF Ahead
<1>6. QED
  BY <1>3, <1>4, <1>5
=============================================================================
