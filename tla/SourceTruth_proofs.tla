------------------------- MODULE SourceTruth_proofs -------------------------
(***************************************************************************)
(* A subscriber whose ticket is current sees the session and the           *)
(* activation of now, and the log of now or a none that is about to be     *)
(* corrected; and when all threads rest nothing that Fleet waits for was   *)
(* forgotten; for any number of events, folders and choices.               *)
(*                                                                         *)
(* The first is only seen when a ticket is captured, long after news left  *)
(* its producer, so the invariant (Facts) is about the news on its way:    *)
(* where each roster, batch and mode is, which receipt it answers, and     *)
(* that what comes after an answer to the last receipt is true as well.    *)
(* That a none is corrected needs an invariant of its own (HeardInv): the  *)
(* dispatcher knows the log of now, is about to ask for it, or a batch on  *)
(* its way to it says so.                                                  *)
(* A step of a thread is then Calm for the lanes it leaves alone, Aloof    *)
(* when it brings no news, or brings the one news its lemma follows.       *)
(*                                                                         *)
(* The second is only seen at rest, so its invariant (RestInv) is about    *)
(* what is owed: while Fleet is on and nothing withholds it, each receipt  *)
(* that was not acknowledged is on its way, and whatever could have lost   *)
(* one has a reset before it that will be obeyed.                          *)
(***************************************************************************)
EXTENDS SourceAdmission_proofs
USE AdmissionBounds
-----------------------------------------------------------------------------
(* What is known of the producers *)

\* The threads hold the receipts of their lanes, and the dispatcher the boundary.
LaneTruth ==
    /\ Sound(auth)
    /\ disc.receipt = auth.lanes["roster"].requested
    /\ stream.receipt = auth.lanes["stream"].requested
    /\ ~auth.closed => disp.boundary = auth.pending

\* Only a worker works, in a lifetime; its operation, if it got one, is of that
\* lifetime, else the lifetime is over.
DiscoveryTruth ==
    /\ disc.pc # "idle" => disc.worker
    /\ disc.worker => disc.receipt.life # 0
    /\ disc.pc = "scan" =>
          IF disc.op = NoOperation THEN ~Owns(auth, "roster", disc.receipt.life)
          ELSE disc.op.life = disc.receipt.life
StreamTruth ==
    /\ stream.pc # "idle" => stream.worker
    /\ stream.worker => stream.receipt.life # 0
    /\ stream.pc = "work" =>
          /\ stream.d.reset = 0 /\ ~stream.d.invalidates
          /\ IF stream.d = NoDelivery THEN ~Owns(auth, "stream", stream.receipt.life)
             ELSE stream.d.op.life = stream.receipt.life /\ stream.d.receipt = stream.receipt

\* A receipt that was given, and none after the last one.
Issued(r, lane, last) == /\ r.life <= lane.lives
                         /\ r.life = 0 => r.order = 0
                         /\ r.life = last.life => r.order <= last.order

\* Rosters, those under way and the one discovery has: later ones are truer, and one
\* with the last receipt is true, as are all that come after it.
Latest == Item("roster", disc.gen, disc.session, disc.latest, 0)
Told(x) == x = Latest \/ (Holds(queue, x) /\ x.kind = "roster")
InSync(l) == SyncedIn(auth, disp.restated, l)
Dated(x) == /\ x.gen <= disc.gen
            /\ x.gen = disc.gen => x.value = disc.session
            /\ Issued(x.d.receipt, auth.lanes["roster"], disc.receipt)
LaterRosters(gen) == \A y \in Items : Told(y) /\ gen < y.gen => y.value = disc.session
RosterTruth ==
    /\ \A x \in Items : Told(x) => Dated(x)
    /\ ~auth.closed /\ auth.lanes["roster"].running =>
          \A x, y \in Items : Told(x) /\ Told(y) /\ x.d.receipt = disc.receipt /\ x.gen <= y.gen
                              => y.value = disc.session
    /\ InSync("roster") => disp.session = disc.session /\ LaterRosters(disp.rosterGen)

\* Batches under way: one with the last receipt tells the truth, as do all that
\* come after it.
Flies(x, y) == Ahead(queue, stream.carried, stream.fifo, x, y)
Past(x) == /\ x.d.op.life <= auth.lanes["stream"].lives
           /\ Issued(x.d.receipt, auth.lanes["stream"], stream.receipt)
           /\ x.kind = "facts" => ~x.d.invalidates /\ x.d.reset = 0
Speaks(x) == x.d.op.life = stream.receipt.life /\ x.d.receipt = stream.receipt
Tells(x) == x.kind = "source" /\ x.d.op.life = stream.receipt.life => x.value = stream.tracked
AllTell == \A x \in Items : Flies(x, x) => Tells(x)
OnlyBatches == /\ \A x \in Items : Holds(stream.fifo, x) => Batch(x)
               /\ stream.carried = NoItem \/ Batch(stream.carried)
SourceTruth ==
    /\ OnlyBatches
    /\ \A x \in Items : Flies(x, x) => Past(x)
    /\ ~auth.closed /\ auth.lanes["stream"].running =>
          \A x, y \in Items : Flies(x, y) /\ Speaks(x) => Tells(x) /\ Tells(y)
    /\ InSync("stream") => disp.source \in {0, stream.tracked} /\ AllTell

\* Modes under way: the last one is the one that was asked for last, and that one is
\* active or under way.
Lately(q, gen) == \A i \in DOMAIN q : q[i].kind = "mode" =>
                     \E j \in DOMAIN q : i <= j /\ q[j].kind = "mode" /\ q[j].gen = gen
Awaits(q, gen) == \E j \in DOMAIN q : q[j].kind = "mode" /\ q[j].gen = gen
ModeTruth ==
    /\ Lately(queue, co.reqGen)
    /\ disp.active => disp.activation = co.reqGen \/ Awaits(queue, co.reqGen)

Facts == LaneTruth /\ DiscoveryTruth /\ StreamTruth /\ RosterTruth /\ SourceTruth /\ ModeTruth

-----------------------------------------------------------------------------
(* What most steps leave as it is *)

CoreKept ==
    /\ disc'.gen = disc.gen /\ disc'.session = disc.session /\ disc'.receipt = disc.receipt
    /\ disc'.latest = disc.latest
    /\ stream'.tracked = stream.tracked /\ stream'.receipt = stream.receipt
FlightKept ==
    /\ OnlyBatches'
    /\ \A x, y \in Items : Flies(x, y)' => Flies(x, y)
    /\ \A x \in Items : Holds(queue', x) /\ x.kind = "roster" => Told(x)

\* The truth about rosters stays if discovery does and the dispatcher is no surer.
LEMMA RosterKept ==
    ASSUME RosterTruth, LaneHeld(auth, auth', "roster"),
           disc'.gen = disc.gen, disc'.session = disc.session, disc'.receipt = disc.receipt,
           disc'.latest = disc.latest,
           \A x \in Items : Holds(queue', x) /\ x.kind = "roster" => Told(x),
           InSync("roster")' =>
              \/ /\ InSync("roster") /\ disp'.session = disp.session
                 /\ disp'.rosterGen = disp.rosterGen
              \/ disp'.session = disc.session /\ LaterRosters(disp'.rosterGen)
    PROVE  RosterTruth'
<1>1. \A x \in Items : Told(x)' => Told(x)
  BY DEF Told, Latest
<1>2. /\ auth'.lanes["roster"].lives = auth.lanes["roster"].lives
      /\ auth'.lanes["roster"].running => auth.lanes["roster"].running
      /\ auth.closed => auth'.closed
  BY DEF LaneHeld
<1>3. \A x \in Items : Dated(x) => Dated(x)'
  BY <1>2 DEF Dated, Issued
<1>4. \A gen : LaterRosters(gen) => \A y \in Items : Told(y)' /\ gen < y.gen => y.value = disc'.session
  BY <1>1 DEF LaterRosters
<1>5. InSync("roster")' => disp'.session = disc'.session /\ LaterRosters(disp'.rosterGen)
  BY DEF RosterTruth
<1>6. InSync("roster")' => /\ disp'.session = disc'.session
                           /\ \A y \in Items : Told(y)' /\ disp'.rosterGen < y.gen
                                => y.value = disc'.session
  BY <1>4, <1>5
<1>7. ~auth'.closed /\ auth'.lanes["roster"].running =>
          \A x, y \in Items : Told(x)' /\ Told(y)' /\ x.d.receipt = disc'.receipt /\ x.gen <= y.gen
                              => y.value = disc'.session
  BY <1>1, <1>2 DEF RosterTruth
<1>8. \A x \in Items : Told(x)' => Dated(x)'
  BY <1>1, <1>3 DEF RosterTruth
<1>9. QED
  BY <1>6, <1>7, <1>8 DEF RosterTruth, LaterRosters

\* The same for sources.
LEMMA SourceKept ==
    ASSUME SourceTruth, LaneHeld(auth, auth', "stream"), FlightKept,
           stream'.tracked = stream.tracked, stream'.receipt = stream.receipt,
           InSync("stream")' =>
              /\ disp'.source \in {0, stream.tracked}
              /\ InSync("stream") \/ AllTell
    PROVE  SourceTruth'
<1>1. /\ auth'.lanes["stream"].lives = auth.lanes["stream"].lives
      /\ auth'.lanes["stream"].running => auth.lanes["stream"].running
      /\ auth.closed => auth'.closed
  BY DEF LaneHeld
<1>2. \A x \in Items : /\ Past(x) => Past(x)'
                       /\ Speaks(x)' => Speaks(x)
                       /\ Tells(x) => Tells(x)'
  BY <1>1 DEF Past, Issued, Speaks, Tells
<1>3. \A x \in Items : Flies(x, x)' => Past(x)'
  BY <1>2 DEF FlightKept, SourceTruth
<1>4. ~auth'.closed /\ auth'.lanes["stream"].running =>
          \A x, y \in Items : Flies(x, y)' /\ Speaks(x)' => Tells(x)' /\ Tells(y)'
  BY <1>1, <1>2 DEF FlightKept, SourceTruth
<1>5. InSync("stream")' => AllTell
  BY DEF SourceTruth
<1>6. InSync("stream")' => disp'.source \in {0, stream'.tracked} /\ \A x \in Items : Flies(x, x)' => Tells(x)'
  BY <1>2, <1>5 DEF FlightKept, AllTell
<1>7. QED
  BY <1>3, <1>4, <1>6 DEF SourceTruth, FlightKept, AllTell

\* What a thread works on stays true while nobody begins its lane.
LEMMA WorkersKept ==
    /\ /\ DiscoveryTruth /\ LaneHeld(auth, auth', "roster")
       /\ disc'.receipt = disc.receipt /\ disc'.worker = disc.worker
       /\ \/ disc'.pc = disc.pc /\ disc'.op = disc.op
          \/ disc'.pc = "idle"
       => DiscoveryTruth'
    /\ /\ StreamTruth /\ LaneHeld(auth, auth', "stream")
       /\ stream'.receipt = stream.receipt /\ stream'.worker = stream.worker
       /\ \/ stream'.pc = stream.pc /\ stream'.d = stream.d
          \/ stream'.pc = "idle"
          \/ stream'.pc = "drain" /\ stream.pc # "idle"
       => StreamTruth'
<1>1. \A life : /\ LaneHeld(auth, auth', "roster") /\ Owns(auth', "roster", life)
                     => Owns(auth, "roster", life)
                /\ LaneHeld(auth, auth', "stream") /\ Owns(auth', "stream", life)
                     => Owns(auth, "stream", life)
  BY DEF LaneHeld, Owns
<1>2. QED
  BY <1>1 DEF DiscoveryTruth, StreamTruth

\* Receipts stay those of their lanes.
LEMMA LanesKept ==
    ASSUME LaneTruth, LanesHeld(auth, auth'), CoreKept,
           ~auth'.closed => disp'.boundary = auth'.pending
    PROVE  LaneTruth'
  BY DEF LaneTruth, LanesHeld, LaneHeld, CoreKept, Watched

\* What is neither a batch nor a roster that discovery does not have.
Joins(i) == i \in Items /\ ~Batch(i) /\ (i.kind = "roster" => i = Latest)

\* Whatever leaves the dispatcher's queue, and such an item that joins it, puts no news
\* in flight.
LEMMA QueueKept ==
    ASSUME Typed, OnlyBatches, stream'.carried = stream.carried, stream'.fifo = stream.fifo,
           \/ queue' = queue
           \/ queue # <<>> /\ queue' = Tail(queue)
           \/ queue' = <<>>
           \/ \E i : Joins(i) /\ (queue' = Append(queue, i) \/ queue' = <<i>>)
    PROVE  FlightKept
<1> DEFINE c == stream.carried
           f == stream.fifo
<1>0. queue \in Seq(Items) /\ c \in Items /\ f \in Seq(Items)
  BY Parts DEF Typed
<1>1. OnlyBatches'
  BY DEF OnlyBatches
<1>2. \A x \in Items, y \in Items : Ahead(queue', c, f, x, y) => Flies(x, y)
  <2> TAKE x \in Items, y \in Items
  <2> HIDE DEF c, f
  <2>1. /\ Ahead(<<>>, c, f, x, y) => Ahead(queue, c, f, x, y)
        /\ \A i \in Items : ~Batch(i) =>
              /\ Ahead(<<i>>, c, f, x, y) => Ahead(queue, c, f, x, y)
              /\ Ahead(Append(queue, i), c, f, x, y) => Ahead(queue, c, f, x, y)
        /\ queue # <<>> /\ Ahead(Tail(queue), c, f, x, y) => Ahead(queue, c, f, x, y)
    BY <1>0, QueueOrder
  <2>2. Ahead(queue', c, f, x, y) => Ahead(queue, c, f, x, y)
    BY <2>1 DEF Joins
  <2>3. QED
    BY <2>2 DEF Flies, c, f
<1>3. \A x \in Items, y \in Items : Flies(x, y)' => Flies(x, y)
  BY <1>2 DEF Flies
<1>4. ASSUME NEW x \in Items, Holds(queue', x), x.kind = "roster"
      PROVE  Told(x)
  <2>1. /\ ~Holds(<<>>, x)
        /\ \A i \in Items : Holds(<<i>>, x) => x = i
        /\ \A i \in Items : Holds(Append(queue, i), x) => Holds(queue, x) \/ x = i
        /\ queue # <<>> /\ Holds(Tail(queue), x) => Holds(queue, x)
    BY <1>0, Ends
  <2>2. Holds(queue, x) \/ x = Latest
    BY <1>4, <2>1 DEF Joins
  <2>3. QED
    BY <1>4, <2>2 DEF Told
<1>5. QED
  BY <1>1, <1>3, <1>4 DEF FlightKept

\* The mode asked for last stays under way until it is taken.
LEMMA ModeQueue ==
    ASSUME NEW q \in Seq(Items), NEW gen
    PROVE  /\ Lately(<<>>, gen)
           /\ \A i \in Items : i.kind # "mode" =>
                 /\ Lately(<<i>>, gen)
                 /\ Lately(q, gen) => Lately(Append(q, i), gen)
                 /\ Awaits(q, gen) => Awaits(Append(q, i), gen)
           /\ \A i \in Items : i.kind = "mode" /\ i.gen = gen =>
                 /\ Lately(<<i>>, gen) /\ Awaits(<<i>>, gen)
                 /\ Lately(Append(q, i), gen) /\ Awaits(Append(q, i), gen)
           /\ q # <<>> =>
                 /\ Lately(q, gen) => Lately(Tail(q), gen)
                 /\ Awaits(q, gen) /\ (Head(q).kind = "mode" => Head(q).gen # gen)
                       => Awaits(Tail(q), gen)
                 /\ Lately(q, gen) /\ Head(q).kind = "mode" /\ Head(q).gen # gen
                       => Awaits(Tail(q), gen)
<1>1. Lately(<<>>, gen)
  BY DEF Lately
<1>2. ASSUME NEW i \in Items
      PROVE  /\ DOMAIN Append(q, i) = DOMAIN q \cup {Len(q) + 1}
             /\ \A j \in DOMAIN q : Append(q, i)[j] = q[j] /\ j \in Nat /\ j <= Len(q)
             /\ Append(q, i)[Len(q) + 1] = i
             /\ Len(q) \in Nat
  OBVIOUS
<1>3. ASSUME NEW i \in Items, i.kind # "mode"
      PROVE  /\ Lately(<<i>>, gen)
             /\ Lately(q, gen) => Lately(Append(q, i), gen)
             /\ Awaits(q, gen) => Awaits(Append(q, i), gen)
  <2>1. Lately(<<i>>, gen)
    BY <1>3 DEF Lately
  <2>2. QED
    BY <1>2, <1>3, <2>1 DEF Lately, Awaits
<1>4. ASSUME NEW i \in Items, i.kind = "mode" /\ i.gen = gen
      PROVE  /\ Lately(<<i>>, gen) /\ Awaits(<<i>>, gen)
             /\ Lately(Append(q, i), gen) /\ Awaits(Append(q, i), gen)
  <2>1. Lately(<<i>>, gen) /\ Awaits(<<i>>, gen)
    BY <1>4 DEF Lately, Awaits
  <2>2. QED
    BY <1>2, <1>4, <2>1 DEF Lately, Awaits
<1>5. ASSUME q # <<>>
      PROVE  /\ Lately(q, gen) => Lately(Tail(q), gen)
             /\ Awaits(q, gen) /\ (Head(q).kind = "mode" => Head(q).gen # gen)
                   => Awaits(Tail(q), gen)
             /\ Lately(q, gen) /\ Head(q).kind = "mode" /\ Head(q).gen # gen
                   => Awaits(Tail(q), gen)
  <2>1. /\ 1 \in DOMAIN q /\ Head(q) = q[1]
        /\ \A j \in DOMAIN Tail(q) : j \in Nat /\ j + 1 \in DOMAIN q /\ Tail(q)[j] = q[j + 1]
        /\ \A j \in DOMAIN q : j \in Nat /\ (j = 1 \/ j - 1 \in DOMAIN Tail(q))
    BY <1>5
  <2>2. ASSUME Lately(q, gen) PROVE Lately(Tail(q), gen)
    <3> SUFFICES ASSUME NEW i \in DOMAIN Tail(q), Tail(q)[i].kind = "mode"
                 PROVE  \E j \in DOMAIN Tail(q) :
                           i <= j /\ Tail(q)[j].kind = "mode" /\ Tail(q)[j].gen = gen
      BY DEF Lately
    <3>1. PICK j \in DOMAIN q : i + 1 <= j /\ q[j].kind = "mode" /\ q[j].gen = gen
      BY <2>1, <2>2 DEF Lately
    <3>2. j - 1 \in DOMAIN Tail(q) /\ i <= j - 1 /\ Tail(q)[j - 1] = q[j]
      BY <2>1, <3>1
    <3>3. QED
      BY <3>1, <3>2
  <2>3. ASSUME NEW j \in DOMAIN q, q[j].kind = "mode", q[j].gen = gen,
               Head(q).kind = "mode" => Head(q).gen # gen
        PROVE  Awaits(Tail(q), gen)
    <3>1. j - 1 \in DOMAIN Tail(q) /\ Tail(q)[j - 1] = q[j]
      BY <2>1, <2>3
    <3>2. QED
      BY <2>3, <3>1 DEF Awaits
  <2>4. Lately(q, gen) /\ Head(q).kind = "mode" => Awaits(q, gen)
    BY <2>1 DEF Lately, Awaits
  <2>5. QED
    BY <2>2, <2>3, <2>4 DEF Awaits
<1>6. QED
  BY <1>1, <1>3, <1>4, <1>5

\* A step that takes no mode and asks for none.
LEMMA ModeKept ==
    ASSUME Typed, ModeTruth, co'.reqGen = co.reqGen, disp'.active = disp.active,
           disp'.activation = disp.activation,
           \/ queue' = queue
           \/ queue # <<>> /\ Head(queue).kind # "mode" /\ queue' = Tail(queue)
           \/ \E i \in Items : i.kind # "mode" /\ queue' = Append(queue, i)
    PROVE  ModeTruth'
<1>1. queue \in Seq(Items)
  BY DEF Typed
<1>2. Lately(queue', co.reqGen) /\ (Awaits(queue, co.reqGen) => Awaits(queue', co.reqGen))
  <2>1. /\ \A i \in Items : i.kind # "mode" =>
              /\ Lately(queue, co.reqGen) => Lately(Append(queue, i), co.reqGen)
              /\ Awaits(queue, co.reqGen) => Awaits(Append(queue, i), co.reqGen)
        /\ queue # <<>> =>
              /\ Lately(queue, co.reqGen) => Lately(Tail(queue), co.reqGen)
              /\ Awaits(queue, co.reqGen) /\ Head(queue).kind # "mode"
                    => Awaits(Tail(queue), co.reqGen)
    BY <1>1, ModeQueue
  <2>2. QED
    BY <2>1 DEF ModeTruth
<1>3. QED
  BY <1>2 DEF ModeTruth, Lately, Awaits

-----------------------------------------------------------------------------
(* What subscribers were told *)

SealTruth ==
    disp.pc = "seal" /\ Current(auth, disp.frontier.token) =>
        /\ disp.session = disc.session
        /\ disp.source \in {0, stream.tracked}
        /\ disp.activation = co.reqGen

\* The ticket says nothing that is not so; that its log comes is shown last.
TicketTruth ==
    HoldsCurrent =>
        /\ ticket.session = disc.session
        /\ ticket.source \in {0, stream.tracked}
        /\ ticket.activation = co.reqGen

Void == \A t : ~Current(auth', t)
SealHeld == disp'.pc = "seal" =>
    /\ disp.pc = "seal" /\ disp'.session = disp.session /\ disp'.source = disp.source
    /\ disp'.activation = disp.activation /\ disp'.frontier = disp.frontier
\* A step that changes what is true, or what is about to be sealed, voids all tickets.
Reports ==
    /\ UNCHANGED ticket
    /\ \/ Void
       \/ /\ disc'.session = disc.session /\ stream'.tracked = stream.tracked
          /\ co'.reqGen = co.reqGen
          /\ SealHeld

\* A token in a hand that is current was current.
LEMMA WasCurrent ==
    ASSUME IInv, Next, NEW t \in Nat, Handed(t), Current(auth', t)
    PROVE  Current(auth, t)
<1>1. Advances(auth, auth') /\ auth \in Authorities /\ auth' \in Authorities
  BY Steps DEF IInv, Typed, Advances
<1>2. auth.token \in Nat /\ auth'.token \in Nat /\ t = auth'.token
  BY <1>1, Fields DEF Current
<1>3. t = auth.token /\ auth.held
  BY <1>1, <1>2 DEF Handed, Advances
<1>4. QED
  BY <1>3 DEF IInv, TicketInv, Guarded, Captures

\* A step that reports keeps tickets true.
LEMMA TicketsTrue ==
    ASSUME IInv, Next, Reports, SealTruth, TicketTruth
    PROVE  SealTruth' /\ TicketTruth'
<1>1. Handed(ticket.token) /\ Handed(disp.frontier.token) /\ ticket.token \in Nat
      /\ disp.frontier.token \in Nat
  BY DEF IInv, TicketInv, Typed, Tickets, DispS, Frontiers
<1>2. CASE Void
  BY <1>2 DEF Void, SealTruth, TicketTruth, HoldsCurrent
<1>3. CASE ~Void
  <2>1. /\ disc'.session = disc.session /\ stream'.tracked = stream.tracked
        /\ co'.reqGen = co.reqGen /\ SealHeld /\ ticket' = ticket
    BY <1>3 DEF Reports
  <2>2. SealTruth'
    BY <1>1, <2>1, WasCurrent DEF SealTruth, SealHeld
  <2>3. TicketTruth'
    BY <1>1, <2>1, WasCurrent DEF TicketTruth, HoldsCurrent
  <2>4. QED
    BY <2>2, <2>3
<1>4. QED
  BY <1>2, <1>3

-----------------------------------------------------------------------------
(* The workers *)

DispKept == /\ disp'.session = disp.session /\ disp'.source = disp.source
            /\ disp'.rosterGen = disp.rosterGen /\ disp'.restated = disp.restated
            /\ disp'.boundary = disp.boundary

\* Nobody is surer of anything, and the dispatcher at most unbinds its source.
LEMMA Aloof ==
    ASSUME LaneTruth, RosterTruth, SourceTruth, LanesHeld(auth, auth'), CoreKept, FlightKept,
           ~auth'.closed => disp'.boundary = auth'.pending,
           InSync("roster")' => /\ InSync("roster") /\ disp'.session = disp.session
                                /\ disp'.rosterGen = disp.rosterGen,
           InSync("stream")' => InSync("stream") /\ disp'.source \in {0, disp.source}
    PROVE  LaneTruth' /\ RosterTruth' /\ SourceTruth'
<1>1. LaneTruth'
  BY LanesKept
<1>2. RosterTruth'
  BY RosterKept DEF FlightKept, LanesHeld, CoreKept
<1>3. InSync("stream")' => disp'.source \in {0, stream.tracked} /\ (InSync("stream") \/ AllTell)
  BY DEF SourceTruth
<1>4. QED
  BY <1>1, <1>2, <1>3, SourceKept DEF LanesHeld, CoreKept

\* Calm calls, and a dispatcher that stays as it is.
LEMMA AloofCalm ==
    ASSUME LaneTruth, RosterTruth, SourceTruth, Calm(auth, auth'), CoreKept, FlightKept, DispKept
    PROVE  LaneTruth' /\ RosterTruth' /\ SourceTruth'
<1>1. /\ LanesHeld(auth, auth') /\ (~auth'.closed => auth'.pending = auth.pending)
      /\ InSync("roster")' => InSync("roster")
      /\ InSync("stream")' => InSync("stream")
  <2>1. \A l \in Watched : SyncedIn(auth', disp.restated, l) => SyncedIn(auth, disp.restated, l)
    BY DEF Calm, LanesCalm, SyncedIn, Alike
  <2>2. QED
    BY <2>1, CalmSynced DEF InSync, DispKept, Watched
<1>2. ~auth'.closed => disp'.boundary = auth'.pending
  BY <1>1 DEF LaneTruth, LanesHeld, LaneHeld, DispKept
<1>3. QED
  BY <1>1, <1>2, Aloof DEF DispKept

\* Calm calls do not disturb the worker of another thread.
LEMMA WorkersCalm ==
    ASSUME Calm(auth, auth')
    PROVE  LaneHeld(auth, auth', "roster") /\ LaneHeld(auth, auth', "stream")
  BY DEF Calm, LanesCalm, Alike, LaneHeld, Watched

\* A scan begins with an operation of its lifetime, or after it.
LEMMA ScanBeginTrue ==
    ASSUME Typed, LifeInv, Facts, ScanBegin
    PROVE  Facts' /\ Reports
<1>1. /\ auth \in Authorities /\ disc \in DiscS /\ disc.receipt.life \in Nat
      /\ auth' = StartOperation(auth, "roster", disc.receipt.life)
      /\ UNCHANGED <<queue, stream, disp, co, pass, ticket>> /\ disc.worker
      /\ disc' = [disc EXCEPT !.pc = "scan",
                              !.op = Started(auth', "roster", disc.receipt.life)]
  BY Parts DEF ScanBegin, Typed
<1>2. Calm(auth, auth')
  BY <1>1, Names, CalmMethods
<1>3. CoreKept /\ DispKept /\ disc'.worker = disc.worker /\ disc'.pc = "scan"
      /\ disc'.op = Started(auth', "roster", disc.receipt.life)
  BY <1>1 DEF CoreKept, DispKept, DiscS
<1>4. FlightKept
  BY <1>1, QueueKept DEF Facts, SourceTruth
<1>5. LaneTruth' /\ RosterTruth' /\ SourceTruth'
  BY <1>2, <1>3, <1>4, AloofCalm DEF Facts
<1>6. StreamTruth'
  BY <1>1, <1>2, WorkersCalm, WorkersKept DEF Facts
<1>7. ModeTruth'
  BY <1>1 DEF Facts, ModeTruth, Lately, Awaits
<1>8. DiscoveryTruth'
  <2>1. disc.receipt.life # 0 /\ disc'.receipt = disc.receipt
    BY <1>1, <1>3 DEF Facts, DiscoveryTruth, CoreKept
  <2>2. CASE Owns(auth', "roster", disc.receipt.life)
    <3>1. Owns(auth, "roster", disc.receipt.life)
      BY <1>2, <2>2 DEF Calm, LanesCalm, Alike, Owns, Watched
    <3>2. auth' = [auth EXCEPT !.lanes["roster"].started =
                      [life |-> disc.receipt.life, order |-> @.order + 1]]
      BY <1>1, <3>1 DEF StartOperation
    <3>3. auth'.lanes["roster"].started.life = disc.receipt.life
      BY <1>1, <3>2, Names, Fields DEF Authorities, LaneStates
    <3>4. disc'.op.life = disc.receipt.life
      BY <1>3, <2>2, <3>3 DEF Started
    <3>5. disc'.op # NoOperation
      BY <2>1, <3>4 DEF NoOperation
    <3>6. QED
      BY <1>1, <1>3, <2>1, <3>4, <3>5 DEF DiscoveryTruth
  <2>3. CASE ~Owns(auth', "roster", disc.receipt.life)
    <3>1. disc'.op = NoOperation
      BY <1>3, <2>3 DEF Started
    <3>2. QED
      BY <1>1, <1>3, <2>1, <2>3, <3>1 DEF DiscoveryTruth
  <2>4. QED
    BY <2>2, <2>3
<1>9. Reports
  BY <1>1, <1>3 DEF Reports, SealHeld, CoreKept
<1>10. QED
  BY <1>5, <1>6, <1>7, <1>8, <1>9 DEF Facts

\* The callback queues what discovery has.
LEMMA ScanDeliverTrue ==
    ASSUME Typed, LifeInv, Facts, ScanDeliver
    PROVE  Facts' /\ Reports
<1>1. /\ auth \in Authorities /\ disc \in DiscS /\ queue' = Append(queue, Latest)
      /\ disc' = [disc EXCEPT !.pc = "idle"]
      /\ UNCHANGED <<auth, stream, disp, co, pass, ticket, tally>>
  BY DEF ScanDeliver, Typed, Latest
<1>2. Latest \in Items /\ Latest.kind = "roster"
  BY Parts, ItemTyped DEF Kinds, Latest, Item
<1>3. Calm(auth, auth')
  BY <1>1, Names, CalmMethods
<1>4. CoreKept /\ DispKept /\ disc'.worker = disc.worker /\ disc'.pc = "idle" /\ disc'.op = disc.op
  BY <1>1 DEF CoreKept, DispKept, DiscS
<1>5. FlightKept
  BY <1>1, <1>2, QueueKept DEF Facts, SourceTruth, Joins, Batch
<1>6. LaneTruth' /\ RosterTruth' /\ SourceTruth'
  BY <1>3, <1>4, <1>5, AloofCalm DEF Facts
<1>7. StreamTruth' /\ DiscoveryTruth'
  BY <1>1, <1>3, <1>4, WorkersCalm, WorkersKept DEF Facts, CoreKept
<1>8. ModeTruth'
  BY <1>1, <1>2, ModeKept DEF Facts
<1>9. Reports
  BY <1>1, <1>4 DEF Reports, SealHeld, CoreKept
<1>10. QED
  BY <1>6, <1>7, <1>8, <1>9 DEF Facts

\* A scan that found nothing, or failed.
LEMMA ScanFailedTrue ==
    ASSUME Typed, LifeInv, Facts, disc' = [disc EXCEPT !.pc = "idle", !.op = NoOperation],
           UNCHANGED <<auth, queue, stream, disp, co, pass, ticket, tally>>
    PROVE  Facts' /\ Reports
<1>1. auth \in Authorities /\ disc \in DiscS
  BY DEF Typed
<1>2. Calm(auth, auth')
  BY <1>1, Names, CalmMethods
<1>3. CoreKept /\ DispKept /\ disc'.worker = disc.worker /\ disc'.pc = "idle"
  BY <1>1 DEF CoreKept, DispKept, DiscS
<1>4. FlightKept
  BY QueueKept DEF Facts, SourceTruth
<1>5. LaneTruth' /\ RosterTruth' /\ SourceTruth'
  BY <1>2, <1>3, <1>4, AloofCalm DEF Facts
<1>6. StreamTruth' /\ DiscoveryTruth'
  BY <1>2, <1>3, WorkersCalm, WorkersKept DEF Facts, CoreKept
<1>7. ModeTruth'
  BY ModeKept DEF Facts
<1>8. Reports
  BY <1>3 DEF Reports, SealHeld, CoreKept
<1>9. QED
  BY <1>5, <1>6, <1>7, <1>8 DEF Facts

\* A scan that has a roster to tell: if it differs it comes with a receipt of its own,
\* or discovery is over.
LEMMA ScanCommitTrue ==
    ASSUME Typed, LifeInv, Facts, ScanCommit
    PROVE  Facts' /\ Reports
<1>0. /\ auth \in Authorities /\ disc \in DiscS /\ disc.pc = "scan"
      /\ UNCHANGED <<queue, stream, disp, co, pass, ticket, tally>>
  BY DEF Typed, ScanCommit
<1>1. CASE disc' = [disc EXCEPT !.pc = "idle", !.op = NoOperation] /\ UNCHANGED auth
  BY <1>0, <1>1, ScanFailedTrue
<1>2. ASSUME NEW s \in {disc.session, 0, disc.seen + 1},
             LET reserves == /\ s # disc.session
                             /\ disc.op # NoOperation
                             /\ Owns(auth, "roster", disc.op.life)
                 receipt == IF reserves THEN Granted(auth', "roster") ELSE disc.receipt
             IN  /\ auth' = IF reserves THEN ReserveLocked(auth, "roster") ELSE auth
                 /\ disc' = [disc EXCEPT
                        !.pc = IF co.discSub THEN "deliver" ELSE "idle",
                        !.session = s, !.gen = @ + 1,
                        !.seen = IF s > @ THEN s ELSE @,
                        !.receipt = receipt, !.op = NoOperation,
                        !.latest = IF disc.op = NoOperation \/ receipt = NoReceipt
                                   THEN NoDelivery
                                   ELSE Delivery(disc.op, receipt, 0, FALSE)]
      PROVE  Facts' /\ Reports
  <2> DEFINE reserves == /\ s # disc.session /\ disc.op # NoOperation
                         /\ Owns(auth, "roster", disc.op.life)
             receipt == IF reserves THEN Granted(auth', "roster") ELSE disc.receipt
             latest == IF disc.op = NoOperation \/ receipt = NoReceipt
                       THEN NoDelivery ELSE Delivery(disc.op, receipt, 0, FALSE)
             new == Item("roster", disc.gen + 1, s, latest, 0)
             lane == auth.lanes["roster"]
  <2>1. auth' = IF reserves THEN ReserveLocked(auth, "roster") ELSE auth
    BY <1>2
  <2>2. /\ disc'.session = s /\ disc'.gen = disc.gen + 1 /\ disc'.receipt = receipt
        /\ disc'.latest = latest /\ disc'.worker = disc.worker
        /\ disc'.pc \in {"deliver", "idle"}
    BY <1>0, <1>2 DEF DiscS
  <2>3. /\ disc.gen \in Nat /\ disc.receipt \in Stamps /\ disc.receipt.life # 0
        /\ disc.receipt.life = lane.life /\ disc.receipt = lane.requested
        /\ disc.receipt.order \in Nat /\ lane.applied <= lane.requested.order
        /\ lane.life <= lane.lives /\ lane.applied \in Nat /\ lane.life \in Nat
        /\ lane.lives \in Nat /\ disc.worker
    <3>1. lane \in LaneStates /\ LaneSound(lane) /\ disc.gen \in Nat /\ disc.receipt \in Stamps
      BY <1>0, Names, Fields, Parts DEF Facts, LaneTruth, Sound
    <3>2. QED
      BY <1>0, <3>1, LaneFields DEF Facts, LaneTruth, DiscoveryTruth, LifeInv, LaneSound, Stamps
  <2>4. /\ SameRest(auth, auth') /\ auth'.lanes["stream"] = auth.lanes["stream"]
        /\ auth'.lanes["roster"].life = lane.life
        /\ auth'.lanes["roster"].lives = lane.lives
        /\ auth'.lanes["roster"].running = lane.running
        /\ auth'.lanes["roster"].applied = lane.applied
        /\ auth'.lanes["roster"].requested = receipt
        /\ Sound(auth')
        /\ reserves => /\ receipt = [life |-> lane.life, order |-> disc.receipt.order + 1]
                       /\ ~auth.closed
    <3>1. CASE reserves
      <4>1. lane.running /\ ~auth.closed
        BY <3>1 DEF Owns
      <4>2. /\ SameRest(auth, auth') /\ Others(auth, auth', "roster")
            /\ auth'.lanes["roster"].life = lane.life
            /\ auth'.lanes["roster"].lives = lane.lives
            /\ auth'.lanes["roster"].running = lane.running
            /\ auth'.lanes["roster"].applied = lane.applied
            /\ auth'.lanes["roster"].requested
                  = [life |-> lane.life, order |-> lane.requested.order + 1]
            /\ Sound(auth')
        BY <1>0, <2>1, <3>1, <4>1, Names, LaneEffects DEF Facts, LaneTruth
      <4>3. receipt = auth'.lanes["roster"].requested
        BY <3>1, <4>1, <4>2 DEF Granted, SameRest
      <4>4. QED
        BY <2>3, <4>1, <4>2, <4>3, Names DEF Others
    <3>2. CASE ~reserves
      BY <2>1, <2>3, <3>2 DEF SameRest, Facts, LaneTruth
    <3>3. QED
      BY <3>1, <3>2
  <2>5. s # disc.session /\ ~reserves => ~Owns(auth, "roster", disc.receipt.life)
    BY <1>0 DEF Facts, DiscoveryTruth
  <2>6. Latest' = new
    BY <2>2 DEF Latest
  <2>7. latest.receipt \in {receipt, NoReceipt}
    BY DEF NoDelivery, Delivery
  <2>8. new.gen = disc.gen + 1 /\ new.value = s /\ new.d.receipt = latest.receipt
    BY DEF Item
  <2> HIDE DEF latest, new, reserves, receipt
  <2>9. LaneTruth'
    BY <1>0, <2>2, <2>4 DEF Facts, LaneTruth, SameRest
  <2>10. DiscoveryTruth'
    <3>1. receipt.life # 0
      BY <2>3, <2>4 DEF receipt
    <3>2. QED
      BY <2>2, <2>3, <3>1 DEF DiscoveryTruth
  <2>11. LaneHeld(auth, auth', "stream")
    BY <2>4 DEF LaneHeld, SameRest
  <2>12. StreamTruth'
    BY <1>0, <2>11, WorkersKept DEF Facts
  <2>13. SourceTruth'
    <3>1. OnlyBatches' /\ \A x, y \in Items : Flies(x, y)' => Flies(x, y)
      BY <1>0 DEF Facts, SourceTruth, OnlyBatches, Flies
    <3>2. \A x \in Items : Holds(queue', x) /\ x.kind = "roster" => Told(x)
      BY <1>0 DEF Told
    <3>3. InSync("stream")' => InSync("stream")
      BY <1>0, <2>4 DEF InSync, SyncedIn, SameRest
    <3>4. InSync("stream")' => disp'.source \in {0, stream.tracked}
      BY <1>0, <3>3 DEF Facts, SourceTruth
    <3>5. FlightKept
      BY <3>1, <3>2 DEF FlightKept
    <3>6. QED
      BY <1>0, <2>11, <3>3, <3>4, <3>5, SourceKept DEF Facts
  <2>14. ModeTruth'
    BY <1>0, ModeKept DEF Facts
  <2>15. \A x \in Items : Told(x)' => x = new \/ Told(x)
    BY <1>0, <2>6 DEF Told
  <2>16. \A x \in Items : Told(x) => x.gen <= disc.gen /\ Issued(x.d.receipt, lane, disc.receipt)
                                    /\ (x.gen = disc.gen => x.value = disc.session)
                                    /\ x.gen \in Nat
    BY ItemFields DEF Facts, RosterTruth, Dated
  <2>17. /\ Issued(latest.receipt, auth'.lanes["roster"], receipt)
         /\ \A r \in Stamps : Issued(r, lane, disc.receipt)
               => /\ Issued(r, auth'.lanes["roster"], receipt)
                  /\ reserves => r # receipt
    <3>1. \A r \in Stamps : r.life \in Nat /\ r.order \in Nat
      BY DEF Stamps
    <3>2. receipt.life = lane.life /\ receipt.order >= disc.receipt.order /\ receipt.order \in Nat
          /\ (reserves => receipt.order > disc.receipt.order)
      BY <2>3, <2>4 DEF receipt
    <3>3. Issued(latest.receipt, auth'.lanes["roster"], receipt)
      BY <2>3, <2>4, <2>7, <3>2 DEF Issued, NoReceipt
    <3>4. ASSUME NEW r \in Stamps, Issued(r, lane, disc.receipt)
          PROVE  /\ Issued(r, auth'.lanes["roster"], receipt)
                 /\ reserves => r # receipt
      BY <2>3, <2>4, <3>1, <3>2, <3>4 DEF Issued
    <3>5. QED
      BY <3>3, <3>4
  <2>18. RosterTruth'
    <3>1. \A x \in Items : Told(x)' => Dated(x)'
      <4> SUFFICES ASSUME NEW x \in Items, Told(x)' PROVE Dated(x)'
        OBVIOUS
      <4>1. CASE x = new
        BY <2>2, <2>3, <2>8, <2>17, <4>1 DEF Dated
      <4>2. CASE Told(x)
        BY <2>2, <2>3, <2>16, <2>17, <4>2, ItemFields DEF Dated
      <4>3. QED
        BY <2>15, <4>1, <4>2
    <3>2. ASSUME ~auth'.closed, auth'.lanes["roster"].running,
                 NEW x \in Items, NEW y \in Items, Told(x)', Told(y)',
                 x.d.receipt = disc'.receipt, x.gen <= y.gen
          PROVE  y.value = disc'.session
      <4>1. CASE y = new
        BY <2>2, <2>8, <4>1
      <4>2. CASE y # new
        <5>1. Told(y) /\ y.gen <= disc.gen /\ x.gen \in Nat /\ y.gen \in Nat
          BY <2>15, <2>16, <3>2, <4>2, ItemFields
        <5>2. x # new
          BY <2>3, <2>8, <3>2, <5>1
        <5>3. Told(x) /\ Issued(x.d.receipt, lane, disc.receipt) /\ x.d.receipt \in Stamps
          BY <2>15, <2>16, <3>2, <5>2, ItemFields
        <5>4. ~reserves
          BY <2>2, <2>17, <3>2, <5>3
        <5>5. ~auth.closed /\ lane.running /\ receipt = disc.receipt
          BY <2>4, <3>2, <5>4 DEF SameRest, receipt
        <5>6. s = disc.session
          BY <2>3, <2>5, <5>4, <5>5 DEF Owns
        <5>7. QED
          BY <2>2, <3>2, <5>1, <5>3, <5>5, <5>6 DEF Facts, RosterTruth
      <4>3. QED
        BY <4>1, <4>2
    <3>3. ASSUME InSync("roster")'
          PROVE  /\ disp'.session = disc'.session
                 /\ \A y \in Items : Told(y)' /\ disp'.rosterGen < y.gen => y.value = disc'.session
      <4>1. ~reserves
        BY <2>3, <2>4, <3>3 DEF InSync, SyncedIn
      <4>2. InSync("roster") /\ ~auth.closed /\ lane.running
        <5>1. auth'.lanes["roster"].requested = lane.requested
          BY <2>3, <2>4, <4>1 DEF receipt
        <5>2. QED
          BY <1>0, <2>4, <3>3, <5>1 DEF InSync, SyncedIn, SameRest
      <4>3. s = disc.session
        BY <2>3, <2>5, <4>1, <4>2 DEF Owns
      <4>4. disp.session = disc.session /\ LaterRosters(disp.rosterGen)
        BY <4>2 DEF Facts, RosterTruth
      <4>5. QED
        BY <1>0, <2>2, <2>8, <2>15, <4>3, <4>4 DEF LaterRosters
    <3>4. QED
      BY <3>1, <3>2, <3>3 DEF RosterTruth, LaterRosters
  <2>19. Reports
    <3>1. CASE s = disc.session
      BY <1>0, <2>2, <3>1 DEF Reports, SealHeld
    <3>2. CASE s # disc.session
      <4>1. \A t : ~Current(auth', t)
        <5>1. CASE reserves
          BY <2>3, <2>4, <5>1, Names DEF Current, Complete
        <5>2. CASE ~reserves
          BY <2>3, <2>4, <2>5, <3>2, <5>2, Names DEF Current, Complete, Owns, SameRest
        <5>3. QED
          BY <5>1, <5>2
      <4>2. QED
        BY <1>0, <4>1 DEF Reports, Void
    <3>3. QED
      BY <3>1, <3>2
  <2>20. QED
    BY <2>9, <2>10, <2>12, <2>13, <2>14, <2>18, <2>19 DEF Facts
<1>3. QED
  BY <1>1, <1>2 DEF ScanCommit

\* An operation of the log worker begins in its lifetime, or after it.
LEMMA WorkBeginTrue ==
    ASSUME Typed, LifeInv, Facts, WorkBegin
    PROVE  Facts' /\ Reports
<1>1. /\ auth \in Authorities /\ stream \in StreamS /\ stream.receipt.life \in Nat
      /\ auth' = StartOperation(auth, "stream", stream.receipt.life)
      /\ UNCHANGED <<queue, disc, disp, co, pass, ticket>> /\ stream.worker
      /\ stream' = [stream EXCEPT !.pc = "work", !.d = OperationOf(auth', stream.receipt, 0)]
  BY Parts DEF WorkBegin, Typed
<1>2. Calm(auth, auth')
  BY <1>1, Names, CalmMethods
<1>3. /\ CoreKept /\ DispKept /\ stream'.worker = stream.worker /\ stream'.pc = "work"
      /\ stream'.fifo = stream.fifo /\ stream'.carried = stream.carried
      /\ stream'.d = OperationOf(auth', stream.receipt, 0)
  BY <1>1 DEF CoreKept, DispKept, StreamS
<1>4. FlightKept
  BY <1>1, <1>3, QueueKept DEF Facts, SourceTruth
<1>5. LaneTruth' /\ RosterTruth' /\ SourceTruth'
  BY <1>2, <1>3, <1>4, AloofCalm DEF Facts
<1>6. DiscoveryTruth'
  BY <1>1, <1>2, WorkersCalm, WorkersKept DEF Facts
<1>7. ModeTruth'
  BY <1>1 DEF Facts, ModeTruth, Lately, Awaits
<1>8. StreamTruth'
  <2> DEFINE op == Started(auth', "stream", stream.receipt.life)
  <2>1. /\ stream.receipt.life # 0 /\ stream'.receipt = stream.receipt
        /\ stream'.d = IF op = NoOperation THEN NoDelivery
                       ELSE Delivery(op, stream.receipt, 0, FALSE)
    BY <1>1, <1>3 DEF Facts, StreamTruth, CoreKept, OperationOf
  <2>2. stream'.d.reset = 0 /\ ~stream'.d.invalidates
    BY <2>1 DEF NoDelivery, Delivery
  <2>3. CASE Owns(auth', "stream", stream.receipt.life)
    <3>1. Owns(auth, "stream", stream.receipt.life)
      BY <1>2, <2>3 DEF Calm, LanesCalm, Alike, Owns, Watched
    <3>2. auth' = [auth EXCEPT !.lanes["stream"].started =
                      [life |-> stream.receipt.life, order |-> @.order + 1]]
      BY <1>1, <3>1 DEF StartOperation
    <3>3. auth'.lanes["stream"].started.life = stream.receipt.life
      BY <1>1, <3>2, Names, Fields DEF Authorities, LaneStates
    <3>4. op.life = stream.receipt.life
      BY <2>3, <3>3 DEF Started
    <3>5. op # NoOperation
      BY <2>1, <3>4 DEF NoOperation
    <3>6. stream'.d = Delivery(op, stream.receipt, 0, FALSE)
      BY <2>1, <3>5
    <3>7. stream'.d # NoDelivery /\ stream'.d.op = op /\ stream'.d.receipt = stream.receipt
      BY <3>5, <3>6 DEF Delivery, NoDelivery
    <3>8. QED
      BY <1>1, <1>3, <2>1, <2>2, <3>4, <3>7 DEF StreamTruth
  <2>4. CASE ~Owns(auth', "stream", stream.receipt.life)
    <3>1. stream'.d = NoDelivery
      BY <2>1, <2>4 DEF Started
    <3>2. QED
      BY <1>1, <1>3, <2>1, <2>2, <2>4, <3>1 DEF StreamTruth
  <2>5. QED
    BY <2>3, <2>4
<1>9. Reports
  BY <1>1, <1>3 DEF Reports, SealHeld, CoreKept
<1>10. QED
  BY <1>5, <1>6, <1>7, <1>8, <1>9 DEF Facts

\* A batch that joins the deliveries, and that tells the truth if it tells anything.
LEMMA SourceJoins ==
    ASSUME Typed, SourceTruth, LaneHeld(auth, auth', "stream"), NEW i \in Items,
           Batch(i), Past(i), Tells(i), queue' = queue, stream'.carried = stream.carried,
           stream'.fifo = Append(stream.fifo, i), stream'.tracked = stream.tracked,
           stream'.receipt = stream.receipt, disp'.source = disp.source,
           InSync("stream")' => InSync("stream")
    PROVE  SourceTruth'
<1>0. queue \in Seq(Items) /\ stream.carried \in Items /\ stream.fifo \in Seq(Items)
  BY Parts DEF Typed
<1>1. /\ auth'.lanes["stream"].lives = auth.lanes["stream"].lives
      /\ auth'.lanes["stream"].running => auth.lanes["stream"].running
      /\ auth.closed => auth'.closed
  BY DEF LaneHeld
<1>2. \A x \in Items : /\ Past(x) => Past(x)'
                       /\ Speaks(x)' => Speaks(x)
                       /\ Tells(x) => Tells(x)'
  BY <1>1 DEF Past, Issued, Speaks, Tells
<1>3. \A x, y \in Items : Flies(x, y)' => Flies(x, y) \/ (y = i /\ (x = i \/ Flies(x, x)))
  BY <1>0, DeliveryOrder DEF Flies
<1>4. \A x \in Items : Flies(x, x)' => Flies(x, x) \/ x = i
  BY <1>3
<1>5. OnlyBatches'
  <2>1. \A x \in Items : Holds(Append(stream.fifo, i), x) => Holds(stream.fifo, x) \/ x = i
    BY <1>0, Ends
  <2>2. QED
    BY <2>1 DEF SourceTruth, OnlyBatches
<1>6. \A x \in Items : Flies(x, x)' => Past(x)'
  BY <1>2, <1>4 DEF SourceTruth
<1>7. ~auth'.closed /\ auth'.lanes["stream"].running =>
          \A x, y \in Items : Flies(x, y)' /\ Speaks(x)' => Tells(x)' /\ Tells(y)'
  BY <1>1, <1>2, <1>3 DEF SourceTruth
<1>8. InSync("stream")' => disp'.source \in {0, stream'.tracked} /\ \A x \in Items : Flies(x, x)' => Tells(x)'
  BY <1>2, <1>4 DEF SourceTruth, AllTell
<1>9. QED
  BY <1>5, <1>6, <1>7, <1>8 DEF SourceTruth, AllTell

\* What the end of an operation of the log worker leaves of its record.
LEMMA WorkDoneKeeps ==
    ASSUME NEW st \in StreamS
    PROVE  LET t == WorkDone(st) IN
           /\ t.receipt = st.receipt /\ t.fifo = st.fifo /\ t.carried = st.carried
           /\ t.tracked = st.tracked /\ t.worker = st.worker /\ t.pc \in {"idle", "drain"}
<1> DEFINE u == [st EXCEPT !.d = NoDelivery]
           c == Claimed(u, "worker")
<1>1. /\ u \in StreamS /\ u.receipt = st.receipt /\ u.fifo = st.fifo
      /\ u.carried = st.carried /\ u.tracked = st.tracked /\ u.worker = st.worker
  BY Stamp0 DEF StreamS
<1> HIDE DEF u
<1>2. /\ c \in StreamS /\ c.receipt = u.receipt /\ c.fifo = u.fifo /\ c.carried = u.carried
      /\ c.tracked = u.tracked /\ c.worker = u.worker
  BY <1>1 DEF Claimed, StreamS
<1>3. WorkDone(st) = [c EXCEPT !.pc = IF c.drainer = "worker" THEN "drain" ELSE "idle"]
  BY DEF WorkDone, u
<1> HIDE DEF c
<1>4. QED
  BY <1>1, <1>2, <1>3 DEF StreamS

\* What every outcome of an operation of the log worker leaves as it is.
WorkRest == UNCHANGED <<queue, disc, disp, co, pass, ticket, tally>>

\* Nothing was found, or a batch of facts was left.
LEMMA WorkReadTrue ==
    ASSUME Typed, LifeInv, Facts, stream.pc = "work", WorkRest, auth' = auth,
           \/ stream' = WorkDone(stream)
           \/ stream' = WorkDone([stream EXCEPT
                           !.fifo = Append(@, Item("facts", 0, 0, stream.d, 0))])
    PROVE  Facts' /\ Reports
<1> DEFINE i == Item("facts", 0, 0, stream.d, 0)
           st == [stream EXCEPT !.fifo = Append(stream.fifo, i)]
<1>1. stream \in StreamS /\ auth \in Authorities /\ Calm(auth, auth') /\ queue \in Seq(Items)
  BY CalmMethods, Names DEF Typed
<1>2. i \in Items /\ i.kind = "facts" /\ i.d = stream.d /\ Batch(i)
  BY Parts, ItemTyped DEF Kinds, Item, Batch
<1> HIDE DEF i
<1>3. /\ st \in StreamS /\ st.receipt = stream.receipt /\ st.fifo = Append(stream.fifo, i)
      /\ st.carried = stream.carried /\ st.tracked = stream.tracked /\ st.worker = stream.worker
  BY <1>1, <1>2, Parts, Queues DEF StreamS
<1>4. stream' = WorkDone(stream) \/ stream' = WorkDone(st)
  BY DEF i
<1> HIDE DEF st
<1>5. /\ stream'.receipt = stream.receipt /\ stream'.carried = stream.carried
      /\ stream'.tracked = stream.tracked /\ stream'.worker = stream.worker
      /\ stream'.pc \in {"idle", "drain"}
      /\ stream'.fifo = stream.fifo \/ stream'.fifo = Append(stream.fifo, i)
  BY <1>1, <1>3, <1>4, WorkDoneKeeps
<1>6. CoreKept /\ DispKept
  BY <1>5 DEF CoreKept, DispKept, WorkRest
<1>7. LanesHeld(auth, auth') /\ InSync("roster")' = InSync("roster")
      /\ InSync("stream")' = InSync("stream")
  BY <1>1, CalmSynced DEF InSync, WorkRest
<1>8. SourceTruth'
  <2>1. CASE stream'.fifo = stream.fifo
    <3>1. FlightKept
      BY <1>5, <2>1, QueueKept DEF Facts, SourceTruth, WorkRest
    <3>2. QED
      BY <1>1, <1>6, <3>1, AloofCalm DEF Facts
  <2>2. CASE stream'.fifo = Append(stream.fifo, i)
    <3>1. Past(i)
      <4>1. auth.lanes["stream"] \in LaneStates
        BY <1>1, Names, Fields
      <4>2. /\ auth.lanes["stream"].lives \in Nat /\ auth.lanes["stream"].life \in Nat
            /\ stream.receipt.order \in Nat /\ LaneSound(auth.lanes["stream"])
            /\ stream.receipt = auth.lanes["stream"].requested
        BY <4>1, Names, LaneFields, Parts DEF Facts, LaneTruth, Sound, Stamps
      <4>3. CASE stream.d = NoDelivery
        BY <1>2, <4>2, <4>3 DEF Past, Issued, NoDelivery, Delivery, NoOperation, NoReceipt
      <4>4. CASE stream.d # NoDelivery
        <5>1. stream.d.op.life = stream.receipt.life /\ stream.d.receipt = stream.receipt
              /\ stream.d.reset = 0 /\ ~stream.d.invalidates
          BY <4>4 DEF Facts, StreamTruth
        <5>2. stream.receipt.life <= auth.lanes["stream"].lives
              /\ (stream.receipt.life = 0 => stream.receipt.order = 0)
          BY <4>2 DEF LaneSound, NoReceipt
        <5>3. QED
          BY <1>2, <4>2, <5>1, <5>2 DEF Past, Issued
      <4>5. QED
        BY <4>3, <4>4
    <3>2. Tells(i)
      BY <1>2 DEF Tells
    <3>3. QED
      BY <1>2, <1>5, <1>7, <2>2, <3>1, <3>2, SourceJoins DEF Facts, LanesHeld, WorkRest
  <2>3. QED
    BY <1>5, <2>1, <2>2
<1>9. RosterTruth'
  <2>1. \A x \in Items : Holds(queue', x) /\ x.kind = "roster" => Told(x)
    BY DEF WorkRest, Told
  <2>2. QED
    BY <1>6, <1>7, <2>1, RosterKept DEF Facts, LanesHeld, CoreKept, WorkRest
<1>10. LaneTruth'
  BY <1>6, <1>7, LanesKept DEF Facts, LaneTruth, WorkRest
<1>11. StreamTruth' /\ DiscoveryTruth'
  BY <1>5, <1>7, WorkersKept DEF Facts, LanesHeld, WorkRest
<1>12. ModeTruth'
  BY DEF Facts, ModeTruth, Lately, Awaits, WorkRest
<1>13. Reports
  BY <1>5 DEF Reports, SealHeld, WorkRest
<1>14. QED
  BY <1>8, <1>9, <1>10, <1>11, <1>12, <1>13 DEF Facts

\* A log found, replaced or lost: it comes with a receipt of its own, or the lifetime
\* of the worker is over.
LEMMA WorkMutateTrue ==
    ASSUME Typed, LifeInv, Facts, stream.pc = "work", WorkRest, NEW g \in Nat,
           auth' = Mutate(g).auth, stream' = WorkDone(Mutate(g).stream)
    PROVE  Facts' /\ Reports
<1> DEFINE a == IF Invalidates THEN ReserveLocked(auth, "stream") ELSE auth
           r == IF Invalidates THEN Granted(a, "stream") ELSE stream.receipt
           d == IF Invalidates THEN Delivery(stream.d.op, r, 0, TRUE) ELSE stream.d
           i == Item("source", 0, g, d, 0)
           t == [stream EXCEPT !.tracked = g, !.gens = IF g > stream.gens THEN g ELSE stream.gens,
                               !.receipt = r, !.fifo = Append(stream.fifo, i)]
           lane == auth.lanes["stream"]
<1>1. auth \in Authorities /\ stream \in StreamS /\ queue \in Seq(Items)
      /\ stream.carried \in Items /\ stream.fifo \in Seq(Items)
  BY Parts DEF Typed
<1>2. auth' = a /\ stream' = WorkDone(t)
  BY DEF Mutate
<1>3. /\ lane.lives \in Nat /\ lane.life \in Nat /\ lane.requested \in Stamps
      /\ lane.requested.order \in Nat /\ lane.applied \in Nat
      /\ lane.applied <= lane.requested.order /\ lane.requested.life = lane.life
      /\ lane.life <= lane.lives /\ (lane.life = 0 => lane.requested = NoReceipt)
      /\ stream.receipt = lane.requested
  <2>1. lane \in LaneStates /\ LaneSound(lane)
    BY <1>1, Names, Fields DEF Facts, LaneTruth, Sound
  <2>2. QED
    BY <2>1, LaneFields DEF LaneSound, Stamps, Facts, LaneTruth
<1>4. IF Invalidates
      THEN /\ ~auth.closed /\ lane.running /\ stream.d.op.life = lane.life
           /\ r = [life |-> lane.life, order |-> lane.requested.order + 1]
           /\ d = Delivery(stream.d.op, r, 0, TRUE)
           /\ lane.life # 0
      ELSE /\ auth.closed \/ ~lane.running
           /\ r = lane.requested /\ d = stream.d
  <2>1. CASE Invalidates
    <3>1. ~auth.closed /\ lane.running /\ stream.d.op.life = lane.life /\ stream.d # NoDelivery
      BY <2>1 DEF Invalidates, Owns
    <3>2. ReserveLocked(auth, "stream").closed = auth.closed
          /\ ReserveLocked(auth, "stream").lanes["stream"].requested
                = [life |-> lane.life, order |-> lane.requested.order + 1]
      BY <1>1, Names, LaneEffects DEF SameRest
    <3>3. LaneSound(lane)
      BY Names DEF Facts, LaneTruth, Sound
    <3>4. QED
      BY <2>1, <3>1, <3>2, <3>3 DEF Granted, LaneSound
  <2>2. CASE ~Invalidates
    <3>1. auth.closed \/ ~lane.running
      <4>1. CASE stream.d = NoDelivery
        BY <1>3, <4>1 DEF Facts, StreamTruth, Owns
      <4>2. CASE stream.d # NoDelivery
        BY <1>3, <2>2, <4>2 DEF Facts, StreamTruth, Owns, Invalidates
      <4>3. QED
        BY <4>1, <4>2
    <3>2. QED
      BY <1>3, <2>2, <3>1
  <2>3. QED
    BY <2>1, <2>2
<1>5. /\ r \in Stamps /\ r.life = lane.life /\ r.order \in Nat /\ lane.requested.order <= r.order
      /\ Invalidates => lane.requested.order < r.order
      /\ r.life = 0 => r.order = 0
  BY <1>3, <1>4 DEF Stamps, NoReceipt
<1>6. /\ SameRest(auth, auth') /\ Others(auth, auth', "stream") /\ Sound(auth')
      /\ auth'.lanes["stream"].life = lane.life /\ auth'.lanes["stream"].lives = lane.lives
      /\ auth'.lanes["stream"].running = lane.running
      /\ auth'.lanes["stream"].applied = lane.applied
      /\ auth'.lanes["stream"].requested = r
  <2>1. CASE Invalidates
    <3>1. auth' = ReserveLocked(auth, "stream")
      BY <1>2, <2>1
    <3>2. lane.running /\ r = [life |-> lane.life, order |-> lane.requested.order + 1]
      BY <1>4, <2>1
    <3> HIDE DEF r, a
    <3>3. LET b == ReserveLocked(auth, "stream") IN
          /\ SameRest(auth, b) /\ Others(auth, b, "stream") /\ Sound(b)
          /\ b.lanes["stream"].life = lane.life /\ b.lanes["stream"].lives = lane.lives
          /\ b.lanes["stream"].running = lane.running
          /\ b.lanes["stream"].applied = lane.applied
          /\ b.lanes["stream"].requested = r
      BY <1>1, <3>2, Names, LaneEffects DEF Facts, LaneTruth
    <3>4. QED
      BY <3>1, <3>3
  <2>2. CASE ~Invalidates
    <3>1. auth' = auth /\ r = lane.requested
      BY <1>2, <1>4, <2>2
    <3> HIDE DEF r, a
    <3>2. QED
      BY <3>1 DEF SameRest, Others, Facts, LaneTruth
  <2>3. QED
    BY <2>1, <2>2
<1>7. d \in Deliveries
  <2>1. stream.d \in Deliveries /\ stream.d.op \in Stamps
    BY Parts
  <2> HIDE DEF r
  <2>2. QED
    BY <1>5, <2>1, DeliveryTyped
<1> HIDE DEF a, r
<1>8. i \in Items /\ i.d = d /\ i.value = g /\ i.kind = "source" /\ Batch(i)
  <2> HIDE DEF d
  <2>1. QED
    BY <1>7, ItemTyped DEF Kinds, Item, Batch
<1>9. /\ d.op.life <= lane.lives
      /\ d.receipt \in {r, NoReceipt}
  <2>1. CASE Invalidates
    BY <1>3, <1>4, <2>1 DEF Delivery
  <2>2. CASE ~Invalidates /\ stream.d = NoDelivery
    BY <1>3, <1>4, <2>2 DEF Delivery, NoDelivery, NoOperation
  <2>3. CASE ~Invalidates /\ stream.d # NoDelivery
    BY <1>3, <1>4, <2>3 DEF Facts, StreamTruth
  <2>4. QED
    BY <2>1, <2>2, <2>3
<1> HIDE DEF d, i
<1>10. /\ t \in StreamS /\ t.receipt = r /\ t.fifo = Append(stream.fifo, i)
       /\ t.carried = stream.carried /\ t.tracked = g /\ t.worker = stream.worker
  <2>1. Append(stream.fifo, i) \in Seq(Items) /\ stream.gens \in Nat
    BY <1>1, <1>8, Parts, Queues
  <2>2. QED
    BY <1>1, <1>5, <2>1 DEF StreamS
<1> HIDE DEF t
<1>11. /\ stream'.receipt = r /\ stream'.fifo = Append(stream.fifo, i)
       /\ stream'.carried = stream.carried /\ stream'.tracked = g
       /\ stream'.worker = stream.worker /\ stream'.pc \in {"idle", "drain"}
  BY <1>2, <1>10, WorkDoneKeeps
<1>12. LaneTruth'
  <2>1. auth'.lanes["roster"] = auth.lanes["roster"]
    BY <1>6, Names DEF Others
  <2>2. QED
    BY <1>6, <1>11, <2>1 DEF Facts, LaneTruth, WorkRest, SameRest
<1>13. LaneHeld(auth, auth', "roster") /\ (InSync("roster")' => InSync("roster"))
  BY <1>6, Names DEF Others, SameRest, LaneHeld, InSync, SyncedIn, WorkRest
<1>14. DiscoveryTruth'
  BY <1>13, WorkersKept DEF Facts, WorkRest
<1>15. StreamTruth'
  BY <1>3, <1>5, <1>11 DEF Facts, StreamTruth
<1>16. RosterTruth'
  <2>1. \A x \in Items : Holds(queue', x) /\ x.kind = "roster" => Told(x)
    BY DEF WorkRest, Told
  <2>2. QED
    BY <1>13, <2>1, RosterKept DEF Facts, WorkRest
<1>17. ModeTruth'
  BY DEF Facts, ModeTruth, Lately, Awaits, WorkRest
<1>18. auth'.closed \/ ~auth'.lanes["stream"].running
       \/ auth'.lanes["stream"].applied # auth'.lanes["stream"].requested.order
  <2>1. CASE Invalidates
    BY <1>3, <1>5, <1>6, <2>1
  <2>2. CASE ~Invalidates
    BY <1>4, <1>6, <2>2 DEF SameRest
  <2>3. QED
    BY <2>1, <2>2
<1>19. SourceTruth'
  <2>1. \A x, y \in Items : Flies(x, y)' => Flies(x, y) \/ (y = i /\ (x = i \/ Flies(x, x)))
    BY <1>1, <1>8, <1>11, DeliveryOrder DEF Flies, WorkRest
  <2>2. \A x \in Items : Flies(x, x)' => Flies(x, x) \/ x = i
    BY <2>1
  <2>3. \A x, y \in Items : Flies(x, y) => Flies(x, x)
    <3>1. \A x, y \in Items : Ahead(queue, stream.carried, stream.fifo, x, y)
             => Ahead(queue, stream.carried, stream.fifo, x, x)
      BY <1>1, QueueOrder
    <3>2. QED
      BY <3>1 DEF Flies
  <2>4. OnlyBatches'
    <3>1. \A x \in Items : Holds(Append(stream.fifo, i), x) => Holds(stream.fifo, x) \/ x = i
      BY <1>1, <1>8, Ends
    <3>2. QED
      BY <1>8, <1>11, <3>1 DEF Facts, SourceTruth, OnlyBatches
  <2>5. \A x \in Items : Flies(x, x) => Past(x)' /\ (Invalidates => x.d.receipt # r)
    <3> SUFFICES ASSUME NEW x \in Items, Flies(x, x)
                 PROVE  Past(x)' /\ (Invalidates => x.d.receipt # r)
      OBVIOUS
    <3>1. Past(x)
      BY DEF Facts, SourceTruth
    <3>2. x.d.receipt.order \in Nat /\ x.d.receipt.life \in Nat
      BY ItemFields DEF Stamps
    <3>3. QED
      BY <1>3, <1>5, <1>6, <1>11, <3>1, <3>2 DEF Past, Issued
  <2>6. \A x \in Items : x = i => Past(x)'
    <3>1. i.d.receipt \in {r, NoReceipt} /\ i.d.op.life <= lane.lives /\ i.kind # "facts"
      BY <1>8, <1>9
    <3>2. QED
      BY <1>3, <1>5, <1>6, <1>11, <3>1 DEF Past, Issued, NoReceipt
  <2>7. \A x \in Items : x = i => Tells(x)'
    BY <1>8, <1>11 DEF Tells
  <2>8. ASSUME ~auth'.closed, auth'.lanes["stream"].running,
               NEW x \in Items, NEW y \in Items, Flies(x, y)', Speaks(x)'
        PROVE  Tells(x)' /\ Tells(y)'
    <3>1. Invalidates /\ x.d.receipt = r
      BY <1>4, <1>6, <1>11, <2>8 DEF SameRest, Speaks
    <3>2. ~Flies(x, x)
      BY <2>5, <3>1
    <3>3. x = i /\ y = i
      BY <2>1, <2>3, <2>8, <3>2
    <3>4. QED
      BY <2>7, <3>3
  <2>9. QED
    BY <1>18, <2>2, <2>4, <2>5, <2>6, <2>8 DEF SourceTruth, InSync, SyncedIn
<1>20. Reports
  <2>1. Void
    BY <1>18, Names DEF Void, Current, Complete
  <2>2. QED
    BY <2>1 DEF Reports, WorkRest
<1>21. QED
  BY <1>12, <1>14, <1>15, <1>16, <1>17, <1>19, <1>20 DEF Facts

\* Finding, losing or reading a log.
LEMMA WorkTrue ==
    ASSUME Typed, LifeInv, Facts, Work
    PROVE  Facts' /\ Reports
<1>1. stream.pc = "work" /\ WorkRest
  BY DEF Work, WorkRest
<1>2. \A g \in {0, stream.gens + 1} : g \in Nat
  BY Parts
<1>3. CASE auth' = auth /\ stream' = WorkDone(stream)
  BY <1>1, <1>3, WorkReadTrue
<1>4. CASE /\ auth' = auth
           /\ stream' = WorkDone([stream EXCEPT
                           !.fifo = Append(@, Item("facts", 0, 0, stream.d, 0))])
  BY <1>1, <1>4, WorkReadTrue
<1>5. ASSUME NEW g \in {0, stream.gens + 1} \ {stream.tracked},
             auth' = Mutate(g).auth, stream' = WorkDone(Mutate(g).stream)
      PROVE  Facts' /\ Reports
  <2>1. g \in Nat
    BY <1>2
  <2>2. QED
    BY <1>1, <1>5, <2>1, WorkMutateTrue
<1>6. QED
  BY <1>3, <1>4, <1>5 DEF Work

\* The owner of delivery changes nothing but where the batches are.
LEMMA DrainKeeps ==
    ASSUME Typed, Facts, NEW st \in StreamS, st.receipt = stream.receipt,
           st.tracked = stream.tracked, st.worker = stream.worker, st.pc = stream.pc,
           st.d = stream.d, stream' = DrainEnds(st), disp' = DispatcherAfter(stream'),
           UNCHANGED <<auth, disc, co, pass, ticket, tally>>
    PROVE  /\ stream'.fifo = st.fifo /\ stream'.carried = st.carried
           /\ FlightKept /\ ModeTruth' => Facts' /\ Reports
           /\ disp'.active = disp.active /\ disp'.activation = disp.activation
<1>1. auth \in Authorities /\ disp \in DispS /\ Calm(auth, auth')
  BY CalmMethods, Names DEF Typed
<1>2. /\ stream'.receipt = st.receipt /\ stream'.tracked = st.tracked
      /\ stream'.worker = st.worker /\ stream'.d = st.d
      /\ stream'.fifo = st.fifo /\ stream'.carried = st.carried
      /\ stream'.pc \in {st.pc, "idle"}
  BY DEF DrainEnds, StreamS
<1>3. /\ DispKept /\ (disp'.pc = disp.pc \/ disp'.pc = "idle")
      /\ disp'.frontier = disp.frontier
      /\ disp'.active = disp.active /\ disp'.activation = disp.activation
  BY <1>1 DEF DispatcherAfter, DispS, DispKept
<1>4. CoreKept
  BY <1>2 DEF CoreKept
<1>5. DiscoveryTruth' /\ StreamTruth'
  BY <1>1, <1>2, WorkersCalm, WorkersKept DEF Facts
<1>6. Reports
  BY <1>2, <1>3 DEF Reports, SealHeld, DispKept
<1>7. FlightKept => LaneTruth' /\ RosterTruth' /\ SourceTruth'
  BY <1>1, <1>3, <1>4, AloofCalm DEF Facts
<1>8. QED
  BY <1>2, <1>3, <1>5, <1>6, <1>7 DEF Facts

\* A batch is taken, or dropped if nobody has subscribed.
LEMMA DrainTakeTrue ==
    ASSUME Typed, DrainInv, LifeInv, Facts, DrainTake
    PROVE  Facts' /\ Reports
<1> DEFINE c == IF co.streamSub THEN Head(stream.fifo) ELSE NoItem
           t == [stream EXCEPT !.fifo = Tail(stream.fifo), !.carried = c]
<1>0. /\ stream \in StreamS /\ queue \in Seq(Items) /\ stream.fifo \in Seq(Items)
      /\ stream.carried \in Items
  BY Parts DEF Typed
<1>1. stream.fifo # <<>> /\ stream.drainer # "none"
  BY DEF DrainTake, DrainInv
<1>2. /\ c \in Items /\ Tail(stream.fifo) \in Seq(Items) /\ Head(stream.fifo) \in Items
      /\ c = Head(stream.fifo) \/ c = NoItem
  BY <1>0, <1>1, Queues, ItemTyped
<1>3. stream' = DrainEnds(t) /\ disp' = DispatcherAfter(stream')
      /\ UNCHANGED <<auth, queue, disc, co, pass, ticket, tally>>
  BY DEF DrainTake
<1> HIDE DEF c
<1>4. /\ t \in StreamS /\ t.receipt = stream.receipt /\ t.tracked = stream.tracked
      /\ t.worker = stream.worker /\ t.pc = stream.pc /\ t.d = stream.d
      /\ t.fifo = Tail(stream.fifo) /\ t.carried = c
  BY <1>0, <1>2 DEF StreamS
<1> HIDE DEF t
<1>5. stream'.fifo = Tail(stream.fifo) /\ stream'.carried = c
  BY <1>3, <1>4, DrainKeeps
<1>6. FlightKept
  <2>1. OnlyBatches'
    <3>1. Holds(stream.fifo, Head(stream.fifo))
      BY <1>0, <1>1, <1>2, Ends
    <3>2. \A x \in Items : Holds(Tail(stream.fifo), x) => Holds(stream.fifo, x)
      BY <1>0, <1>1, Ends
    <3>3. QED
      BY <1>2, <1>5, <3>1, <3>2 DEF OnlyBatches, Facts, SourceTruth
  <2>2. \A x, y \in Items : Ahead(queue, c, Tail(stream.fifo), x, y)
                               => Ahead(queue, stream.carried, stream.fifo, x, y)
    BY <1>0, <1>1, <1>2, DeliveryOrder
  <2>3. \A x, y \in Items : Flies(x, y)' => Flies(x, y)
    BY <1>3, <1>5, <2>2 DEF Flies
  <2>4. \A x \in Items : Holds(queue', x) /\ x.kind = "roster" => Told(x)
    BY <1>3 DEF Told
  <2>5. QED
    BY <2>1, <2>3, <2>4 DEF FlightKept
<1>7. ModeTruth'
  <2>1. disp'.active = disp.active /\ disp'.activation = disp.activation
    BY <1>3, <1>4, DrainKeeps
  <2>2. QED
    BY <1>3, <2>1 DEF Facts, ModeTruth, Lately, Awaits
<1>8. QED
  BY <1>3, <1>4, <1>6, <1>7, DrainKeeps

\* The batch that was taken is queued.
LEMMA DrainPutTrue ==
    ASSUME Typed, DrainInv, LifeInv, Facts, DrainPut
    PROVE  Facts' /\ Reports
<1> DEFINE t == [stream EXCEPT !.carried = NoItem]
           c == stream.carried
<1>0. /\ stream \in StreamS /\ queue \in Seq(Items) /\ stream.fifo \in Seq(Items)
      /\ c \in Items /\ NoItem \in Items
  BY Parts, ItemTyped DEF Typed
<1>1. Batch(c) /\ c.kind # "mode" /\ c.kind # "roster"
  BY DEF DrainPut, Facts, SourceTruth, OnlyBatches, Batch
<1>2. stream' = DrainEnds(t) /\ disp' = DispatcherAfter(stream')
      /\ queue' = Append(queue, c)
      /\ UNCHANGED <<auth, disc, co, pass, ticket, tally>>
  BY DEF DrainPut
<1>3. /\ t \in StreamS /\ t.receipt = stream.receipt /\ t.tracked = stream.tracked
      /\ t.worker = stream.worker /\ t.pc = stream.pc /\ t.d = stream.d
      /\ t.fifo = stream.fifo /\ t.carried = NoItem
  BY <1>0 DEF StreamS
<1> HIDE DEF t
<1>4. stream'.fifo = stream.fifo /\ stream'.carried = NoItem
      /\ disp'.active = disp.active /\ disp'.activation = disp.activation
  BY <1>2, <1>3, DrainKeeps
<1>5. FlightKept
  <2>1. OnlyBatches'
    BY <1>4 DEF OnlyBatches, Facts, SourceTruth
  <2>2. \A x, y \in Items : Ahead(Append(queue, c), NoItem, stream.fifo, x, y)
                               => Ahead(queue, c, stream.fifo, x, y)
    <3> HIDE DEF c
    <3>1. QED
      BY <1>0, DeliveryOrder
  <2>3. \A x, y \in Items : Flies(x, y)' => Flies(x, y)
    BY <1>2, <1>4, <2>2 DEF Flies
  <2>4. \A x \in Items : Holds(Append(queue, c), x) => Holds(queue, x) \/ x = c
    <3> HIDE DEF c
    <3>1. QED
      BY <1>0, Ends
  <2>5. \A x \in Items : Holds(queue', x) /\ x.kind = "roster" => Told(x)
    BY <1>1, <1>2, <2>4 DEF Told
  <2>6. QED
    BY <2>1, <2>3, <2>5 DEF FlightKept
<1>6. ModeTruth'
  BY <1>0, <1>1, <1>2, <1>4, ModeKept DEF Facts
<1>7. QED
  BY <1>2, <1>3, <1>5, <1>6, DrainKeeps

-----------------------------------------------------------------------------
(* The dispatcher *)

\* A step of the dispatcher keeps the facts if it keeps the lanes and the order of the
\* queue, and is surer of a lane only by what is true.
LEMMA DispTrue ==
    ASSUME Typed, Facts, UNCHANGED <<disc, stream, ticket>>, co'.reqGen = co.reqGen,
           LanesHeld(auth, auth'), ~auth'.closed => disp'.boundary = auth'.pending,
           FlightKept, ModeTruth', disp'.pc # "seal",
           InSync("roster")' =>
              \/ /\ InSync("roster") /\ disp'.session = disp.session
                 /\ disp'.rosterGen = disp.rosterGen
              \/ disp'.session = disc.session /\ LaterRosters(disp'.rosterGen),
           InSync("stream")' =>
              /\ disp'.source \in {0, stream.tracked}
              /\ InSync("stream") \/ AllTell
    PROVE  Facts' /\ Reports
<1>1. CoreKept
  BY DEF CoreKept
<1>2. LaneHeld(auth, auth', "roster") /\ LaneHeld(auth, auth', "stream")
  BY DEF LanesHeld
<1>3. LaneTruth'
  BY <1>1, LanesKept DEF Facts
<1>4. RosterTruth'
  BY <1>2, RosterKept DEF Facts, FlightKept
<1>5. SourceTruth'
  BY <1>2, SourceKept DEF Facts
<1>6. DiscoveryTruth' /\ StreamTruth'
  BY <1>2, WorkersKept DEF Facts
<1>7. Reports
  BY DEF Reports, SealHeld
<1>8. QED
  BY <1>3, <1>4, <1>5, <1>6, <1>7 DEF Facts

\* Such a step may make calm calls and change what the dispatcher is at.
LEMMA DispCalm ==
    ASSUME Typed, Facts, UNCHANGED <<disc, stream, ticket>>, co'.reqGen = co.reqGen,
           Calm(auth, auth'), DispKept, FlightKept, ModeTruth', disp'.pc # "seal"
    PROVE  Facts' /\ Reports
<1>1. CoreKept
  BY DEF CoreKept
<1>2. LaneTruth' /\ RosterTruth' /\ SourceTruth'
  BY <1>1, AloofCalm DEF Facts
<1>3. DiscoveryTruth' /\ StreamTruth'
  BY WorkersCalm, WorkersKept DEF Facts
<1>4. Reports
  BY DEF Reports, SealHeld
<1>5. QED
  BY <1>2, <1>3, <1>4 DEF Facts

\* A signal is not about modes.
LEMMA SignalKeeps ==
    ASSUME Typed, NEW id, NEW ok
    PROVE  Signal(id, ok).reqGen = co.reqGen
  BY DEF Signal, Typed, CoS

\* What the dispatcher takes is the first of its queue, and what it leaves is the rest.
LEMMA TakesKeeps ==
    ASSUME Typed, Facts, UNCHANGED stream, NEW item, Takes(item)
    PROVE  /\ item \in Items /\ Holds(queue, item) /\ FlightKept
           /\ queue # <<>> /\ item = Head(queue) /\ queue' = Tail(queue)
           /\ disp.pc = "idle" /\ queue \in Seq(Items)
<1>1. /\ queue # <<>> /\ item = Head(queue) /\ queue' = Tail(queue) /\ disp.pc = "idle"
      /\ queue \in Seq(Items)
  BY DEF Takes, Typed
<1>2. item \in Items /\ Holds(queue, item)
  BY <1>1, Queues, Ends
<1>3. FlightKept
  BY <1>1, QueueKept DEF Facts, SourceTruth
<1>4. QED
  BY <1>1, <1>2, <1>3

\* A roster applied after calm calls.
LEMMA ApplyRosterTrue ==
    ASSUME Typed, Facts, NEW a \in Authorities, Calm(auth, a), NEW item \in Items,
           Roster(item), ApplyRoster(a, item)
    PROVE  /\ LanesHeld(auth, auth')
           /\ ~auth'.closed => disp'.boundary = auth'.pending
           /\ disp'.session = item.value /\ disp'.rosterGen = item.gen
           /\ disp'.active = disp.active /\ disp'.activation = disp.activation
           /\ disp'.pc = "republish"
           /\ InSync("stream")' => InSync("stream") /\ disp'.source \in {0, disp.source}
           /\ InSync("roster")' => InSync("roster") \/ item.d.receipt = disc.receipt
<1> DEFINE d == ConsumeRoster(item.value)
           f == Finish(a, d, item)
<1>1. auth \in Authorities /\ disp \in DispS /\ item.value \in Nat /\ item.gen \in Nat
  BY ItemFields DEF Typed
<1>2. /\ d \in DispS /\ d.session = item.value /\ d.source \in {0, disp.source}
      /\ d.boundary = disp.boundary /\ d.restated = disp.restated
      /\ d.active = disp.active /\ d.activation = disp.activation
  BY <1>1 DEF ConsumeRoster, DispS
<1>3. /\ Sound(a) /\ (~a.closed => d.boundary = a.pending)
      /\ a.lanes["roster"].requested = disc.receipt
      /\ \A R : /\ SyncedIn(a, R, "roster") => SyncedIn(auth, R, "roster")
                /\ SyncedIn(a, R, "stream") => SyncedIn(auth, R, "stream")
      /\ LanesHeld(auth, a)
  <2>1. /\ Sound(a) /\ (~a.closed => ~auth.closed /\ a.pending = auth.pending)
        /\ a.lanes["roster"].requested = auth.lanes["roster"].requested
    BY DEF Calm, LanesCalm, Alike, Watched, Facts, LaneTruth
  <2>2. QED
    BY <1>2, <2>1, CalmSynced DEF Facts, LaneTruth, Watched
<1> HIDE DEF d
<1>4. LaneOf(item) = "roster" /\ "roster" \in Watched /\ "stream" \in Watched
  BY DEF LaneOf, Watched
<1>5. /\ LanesHeld(a, f.auth)
      /\ ~f.auth.closed => f.disp.boundary = f.auth.pending
      /\ f.disp.session = d.session /\ f.disp.source = d.source
      /\ f.disp.active = d.active /\ f.disp.activation = d.activation
      /\ SyncedIn(f.auth, f.disp.restated, "stream") => SyncedIn(a, d.restated, "stream")
      /\ SyncedIn(f.auth, f.disp.restated, "roster") =>
            SyncedIn(a, d.restated, "roster") \/ item.d.receipt = a.lanes["roster"].requested
  BY <1>2, <1>3, <1>4, FinishEffects
<1>6. f.disp \in DispS
  BY <1>2, FinishFacts DEF Same
<1>7. auth' = f.auth /\ disp' = [f.disp EXCEPT !.rosterGen = item.gen, !.complete = TRUE,
                                              !.pc = "republish", !.asks = item.value]
  BY DEF ApplyRoster, d
<1> HIDE DEF f
<1>8. /\ disp'.session = f.disp.session /\ disp'.source = f.disp.source
      /\ disp'.rosterGen = item.gen /\ disp'.boundary = f.disp.boundary
      /\ disp'.active = f.disp.active /\ disp'.activation = f.disp.activation
      /\ disp'.pc = "republish" /\ disp'.restated = f.disp.restated
  BY <1>6, <1>7 DEF DispS
<1>9. LanesHeld(auth, auth')
  BY <1>3, <1>5, <1>7 DEF LanesHeld, LaneHeld
<1>10. QED
  BY <1>2, <1>3, <1>5, <1>7, <1>8, <1>9 DEF InSync

\* A roster out of the queue: it is the first of them, and new.
LEMMA TakeRosterTrue ==
    ASSUME Typed, DrainInv, LifeInv, Facts, TakeRoster
    PROVE  Facts' /\ Reports
<1>1. PICK item : /\ Takes(item) /\ item.kind = "roster"
                  /\ \/ ~NewRoster(item) /\ UNCHANGED <<auth, disp, tally>>
                     \/ NewRoster(item) /\ ApplyRoster(auth, item) /\ UNCHANGED tally
                     \/ /\ NewRoster(item) /\ Failing
                        /\ auth' = Poison(auth) /\ tally' = Failed
                        /\ UNCHANGED disp
                  /\ UNCHANGED <<disc, stream, co, pass, ticket>>
  BY DEF TakeRoster
<1>2. /\ item \in Items /\ Holds(queue, item) /\ FlightKept
      /\ queue # <<>> /\ item = Head(queue) /\ queue' = Tail(queue) /\ disp.pc = "idle"
  BY <1>1, TakesKeeps
<1>3. UNCHANGED <<disc, stream, ticket>> /\ co'.reqGen = co.reqGen
      /\ auth \in Authorities
  BY <1>1 DEF Typed
<1>4. disp'.active = disp.active /\ disp'.activation = disp.activation => ModeTruth'
  BY <1>1, <1>2, <1>3, ModeKept DEF Facts
<1>5. CASE UNCHANGED disp /\ (auth' = auth \/ auth' = Poison(auth))
  <2>1. Calm(auth, auth') /\ DispKept
    BY <1>3, <1>5, CalmMethods, Names DEF DispKept
  <2>2. QED
    BY <1>2, <1>3, <1>4, <1>5, <2>1, DispCalm
<1>6. CASE NewRoster(item) /\ ApplyRoster(auth, item)
  <2>1. /\ LanesHeld(auth, auth')
        /\ ~auth'.closed => disp'.boundary = auth'.pending
        /\ disp'.session = item.value /\ disp'.rosterGen = item.gen
        /\ disp'.active = disp.active /\ disp'.activation = disp.activation
        /\ disp'.pc = "republish"
        /\ InSync("stream")' => InSync("stream") /\ disp'.source \in {0, disp.source}
        /\ InSync("roster")' => InSync("roster") \/ item.d.receipt = disc.receipt
    <3>1. Calm(auth, auth) /\ Roster(item)
      BY <1>1, <1>3, CalmMethods, Names DEF Roster
    <3>2. QED
      BY <1>2, <1>3, <1>6, <3>1, ApplyRosterTrue
  <2>2. Told(item) /\ item.gen \in Nat /\ disp.rosterGen < item.gen
    BY <1>1, <1>2, <1>6, ItemFields DEF Told, NewRoster
  <2>3. ASSUME InSync("roster")'
        PROVE  disp'.session = disc.session /\ LaterRosters(disp'.rosterGen)
    <3>1. CASE InSync("roster")
      <4>1. LaterRosters(disp.rosterGen)
        BY <3>1 DEF Facts, RosterTruth
      <4>2. disp.rosterGen \in Nat /\ \A y \in Items : y.gen \in Nat
        BY ItemFields DEF Typed, DispS
      <4>3. QED
        BY <1>2, <2>1, <2>2, <4>1, <4>2 DEF LaterRosters
    <3>2. CASE item.d.receipt = disc.receipt
      <4>1. ~auth.closed /\ auth.lanes["roster"].running
        BY <2>1, <2>3 DEF InSync, SyncedIn, LanesHeld, LaneHeld
      <4>2. \A y \in Items : Told(y) /\ item.gen <= y.gen => y.value = disc.session
        BY <1>2, <2>2, <3>2, <4>1 DEF Facts, RosterTruth
      <4>3. \A y \in Items : y.gen \in Nat
        BY ItemFields
      <4>4. QED
        BY <1>2, <2>1, <2>2, <4>2, <4>3 DEF LaterRosters
    <3>3. QED
      BY <2>1, <2>3, <3>1, <3>2
  <2>4. InSync("stream")' => disp'.source \in {0, stream.tracked} /\ InSync("stream")
    BY <2>1 DEF Facts, SourceTruth
  <2>5. QED
    BY <1>2, <1>3, <1>4, <2>1, <2>3, <2>4, DispTrue
<1>7. QED
  BY <1>1, <1>5, <1>6

\* A batch that is first in the dispatcher's queue comes before all others.
LEMMA HeadFirst ==
    ASSUME NEW q \in Seq(Items), NEW c \in Items, NEW f \in Seq(Items), q # <<>>,
           Batch(Head(q)), NEW x \in Items, Ahead(q, c, f, x, x)
    PROVE  Ahead(q, c, f, Head(q), x)
<1>1. 1 \in DOMAIN q /\ Head(q) = q[1] /\ \A i \in DOMAIN q : 1 <= i
  OBVIOUS
<1>2. Holds(q, Head(q)) /\ (Orders(q, x, x) => Orders(q, Head(q), x))
  BY <1>1 DEF Holds, Orders
<1>3. Orders(f, x, x) => Holds(f, x)
  BY DEF Orders, Holds
<1>4. Holds(q, x) => Orders(q, Head(q), x)
  BY <1>1 DEF Holds, Orders
<1>5. QED
  BY <1>2, <1>3, <1>4 DEF Ahead

\* A source or facts out of the queue.  If they leave the lane in sync it was, or they
\* are a source that came with its last receipt, and all that follow tell the same.
LEMMA TakeBatchTrue ==
    ASSUME Typed, DrainInv, LifeInv, Facts, TakeBatch
    PROVE  Facts' /\ Reports
<1>1. PICK item :
        LET d == IF item.kind = "source" THEN ConsumeSource(item.value) ELSE disp
            f == Finish(auth, d, item)
        IN  /\ Takes(item) /\ item.kind \in {"source", "facts"}
            /\ \/ UNCHANGED <<auth, disp, tally>>
               \/ auth' = f.auth /\ disp' = f.disp /\ UNCHANGED tally
               \/ Failing /\ auth' = Poison(auth) /\ tally' = Failed /\ UNCHANGED disp
            /\ UNCHANGED <<disc, stream, co, pass, ticket>>
  BY DEF TakeBatch
<1> DEFINE d == IF item.kind = "source" THEN ConsumeSource(item.value) ELSE disp
           f == Finish(auth, d, item)
<1>2. UNCHANGED <<disc, stream, co, pass, ticket>> /\ Takes(item) /\ Batch(item)
      /\ item.kind # "mode" /\ ~Roster(item)
  BY <1>1 DEF Batch, Roster
<1>3. /\ item \in Items /\ Holds(queue, item) /\ FlightKept
      /\ queue # <<>> /\ item = Head(queue) /\ queue' = Tail(queue) /\ disp.pc = "idle"
      /\ queue \in Seq(Items)
  BY <1>2, TakesKeeps
<1>4. co'.reqGen = co.reqGen /\ auth \in Authorities /\ disp \in DispS
  BY <1>2 DEF Typed
<1>5. disp'.active = disp.active /\ disp'.activation = disp.activation => ModeTruth'
  BY <1>2, <1>3, <1>4, ModeKept DEF Facts
<1>6. CASE UNCHANGED disp /\ (auth' = auth \/ auth' = Poison(auth))
  <2>1. Calm(auth, auth') /\ DispKept
    BY <1>4, <1>6, CalmMethods, Names DEF DispKept
  <2>2. QED
    BY <1>2, <1>3, <1>4, <1>5, <1>6, <2>1, DispCalm
<1>7. CASE auth' = f.auth /\ disp' = f.disp
  <2>1. /\ d \in DispS /\ d.session = disp.session /\ d.rosterGen = disp.rosterGen
        /\ d.source \in {0, disp.source} \/ (item.kind = "source" /\ d.source \in {0, item.value})
        /\ d.boundary = disp.boundary /\ d.restated = disp.restated
        /\ d.active = disp.active /\ d.activation = disp.activation /\ d.pc = disp.pc
    <3>1. item.value \in Nat
      BY <1>3, ItemFields
    <3>2. QED
      BY <1>4, <3>1 DEF ConsumeSource, DispS
  <2>2. LaneOf(item) = "stream" /\ "roster" \in Watched /\ "stream" \in Watched
    BY <1>2 DEF LaneOf, Watched
  <2>3. Sound(auth) /\ (~auth.closed => d.boundary = auth.pending)
    BY <2>1 DEF Facts, LaneTruth
  <2> HIDE DEF d
  <2>4. /\ LanesHeld(auth, f.auth)
        /\ ~f.auth.closed => f.disp.boundary = f.auth.pending
        /\ f.disp.session = d.session /\ f.disp.source = d.source
        /\ f.disp.rosterGen = d.rosterGen /\ f.disp.active = d.active
        /\ f.disp.activation = d.activation /\ f.disp.pc = d.pc
        /\ SyncedIn(f.auth, f.disp.restated, "roster") => SyncedIn(auth, d.restated, "roster")
        /\ SyncedIn(f.auth, f.disp.restated, "stream") =>
              /\ item.d.op.life = auth.lanes["stream"].life
              /\ \/ SyncedIn(auth, d.restated, "stream")
                 \/ /\ item.d.receipt = auth.lanes["stream"].requested
                    /\ item.d.invalidates \/ item.d.reset # 0
    BY <1>2, <1>3, <1>4, <2>1, <2>2, <2>3, FinishEffects
  <2> HIDE DEF f
  <2>5. InSync("roster")' => InSync("roster")
    BY <1>7, <2>1, <2>4 DEF InSync
  <2>6. /\ Flies(item, item)
        /\ \A x \in Items : Flies(x, x) => Flies(item, x)
    <3>1. stream.carried \in Items /\ stream.fifo \in Seq(Items)
      BY Parts
    <3>2. Flies(item, item)
      BY <1>2, <1>3, <3>1, QueueOrder DEF Flies
    <3>3. \A x \in Items : Flies(x, x) => Flies(item, x)
      BY <1>2, <1>3, <3>1, HeadFirst DEF Flies
    <3>4. QED
      BY <3>2, <3>3
  <2>7. ASSUME InSync("stream")'
        PROVE  disp'.source \in {0, stream.tracked} /\ (InSync("stream") \/ AllTell)
    <3>1. /\ item.d.op.life = stream.receipt.life
          /\ \/ InSync("stream")
             \/ /\ item.d.receipt = stream.receipt
                /\ item.d.invalidates \/ item.d.reset # 0
      <4>1. stream.receipt = auth.lanes["stream"].requested
            /\ stream.receipt.life = auth.lanes["stream"].life
        BY DEF Facts, LaneTruth, LifeInv
      <4>2. QED
        BY <1>7, <2>1, <2>4, <2>7, <4>1 DEF InSync
    <3>2. ~auth.closed /\ auth.lanes["stream"].running
      BY <1>7, <2>4, <2>7 DEF InSync, SyncedIn, LanesHeld, LaneHeld
    <3>3. CASE InSync("stream")
      <4>1. disp.source \in {0, stream.tracked} /\ Tells(item)
        BY <1>3, <2>6, <3>3 DEF Facts, SourceTruth, AllTell
      <4>2. QED
        BY <1>7, <2>1, <2>4, <3>1, <3>3, <4>1 DEF Tells
    <3>4. CASE item.d.receipt = stream.receipt /\ (item.d.invalidates \/ item.d.reset # 0)
      <4>1. item.kind = "source"
        BY <1>2, <1>3, <2>6, <3>4 DEF Facts, SourceTruth, Past, Batch
      <4>2. Speaks(item)
        BY <3>1, <3>4 DEF Speaks
      <4>3. Tells(item) /\ AllTell
        BY <1>3, <2>6, <3>2, <4>2 DEF Facts, SourceTruth, AllTell
      <4>4. d.source \in {0, item.value}
        BY <1>4, <4>1 DEF d, ConsumeSource, DispS
      <4>5. QED
        BY <1>7, <2>4, <3>1, <4>1, <4>3, <4>4 DEF Tells
    <3>5. QED
      BY <3>1, <3>3, <3>4
  <2>8. /\ LanesHeld(auth, auth') /\ (~auth'.closed => disp'.boundary = auth'.pending)
        /\ disp'.session = disp.session /\ disp'.rosterGen = disp.rosterGen
        /\ disp'.pc # "seal" /\ ModeTruth'
    BY <1>3, <1>5, <1>7, <2>1, <2>4
  <2>9. QED
    BY <1>2, <1>3, <1>4, <2>5, <2>7, <2>8, DispTrue
<1>8. QED
  BY <1>1, <1>6, <1>7

\* A mode, a refresh or the news that the stream runs.  The mode that was asked for
\* last is active from here on.
LEMMA TakeControlTrue ==
    ASSUME Typed, DrainInv, LifeInv, Facts, TakeControl
    PROVE  Facts' /\ Reports
<1>1. PICK item :
        LET on == item.value = 1
            resets == IF item.kind = "mode" THEN on # disp.active ELSE disp.active
        IN  /\ Takes(item)
            /\ \/ /\ item.kind \in {"mode", "refresh"}
                  /\ disp' = [disp EXCEPT !.pc = "reset", !.item = item,
                           !.active = IF item.kind = "mode" THEN on ELSE @,
                           !.activation = CASE item.kind = "refresh" -> @
                                            [] item.kind # "refresh" /\ on -> item.gen
                                            [] OTHER -> 0]
                  /\ UNCHANGED co
               \/ /\ item.kind \in {"mode", "refresh"} /\ ~resets
                  /\ disp' = [disp EXCEPT !.activation =
                                 IF item.kind = "mode" /\ on THEN item.gen ELSE @]
                  /\ co' = Signal(item.id, FALSE)
               \/ /\ item.kind = "ready"
                  /\ disp' = [disp EXCEPT !.asked = @ \/ Reseeds,
                                 !.pc = IF Reseeds THEN "askAll" ELSE "idle"]
                  /\ UNCHANGED co
            /\ UNCHANGED <<auth, disc, stream, pass, ticket, tally>>
  BY DEF TakeControl
<1>2. UNCHANGED <<auth, disc, stream, pass, ticket, tally>> /\ Takes(item)
  BY <1>1
<1>3. /\ item \in Items /\ FlightKept /\ disp.pc = "idle"
      /\ queue # <<>> /\ item = Head(queue) /\ queue' = Tail(queue)
      /\ queue \in Seq(Items)
  BY <1>2, TakesKeeps
<1>4. auth \in Authorities /\ disp \in DispS /\ disp.active \in BOOLEAN
  BY DEF Typed, DispS
<1>5. co'.reqGen = co.reqGen
  <2>1. co' = co \/ co' = Signal(item.id, FALSE)
    BY <1>1
  <2>2. QED
    BY <2>1, SignalKeeps
<1>6. /\ DispKept /\ disp'.pc # "seal"
      /\ item.kind # "mode" => disp'.active = disp.active /\ disp'.activation = disp.activation
      /\ item.kind = "mode" => disp'.active = (item.value = 1)
                               /\ (disp'.active => disp'.activation = item.gen)
  <2>1. CASE /\ disp' = [disp EXCEPT !.pc = "reset", !.item = item,
                           !.active = IF item.kind = "mode" THEN item.value = 1 ELSE @,
                           !.activation = CASE item.kind = "refresh" -> @
                                            [] item.kind # "refresh" /\ item.value = 1 -> item.gen
                                            [] OTHER -> 0]
             /\ item.kind \in {"mode", "refresh"}
    <3> DEFINE act == CASE item.kind = "refresh" -> disp.activation
                        [] item.kind # "refresh" /\ item.value = 1 -> item.gen
                        [] OTHER -> 0
               was == IF item.kind = "mode" THEN item.value = 1 ELSE disp.active
    <3>1. /\ item.kind = "refresh" => act = disp.activation
          /\ item.kind = "mode" /\ item.value = 1 => act = item.gen
      <4>1. CASE item.kind = "refresh"
        <5>1. act = disp.activation /\ item.kind # "mode"
          BY <4>1
        <5>2. QED
          BY <5>1
      <4>2. CASE item.kind # "refresh"
        <5>1. item.value = 1 => act = item.gen
          BY <4>2
        <5>2. QED
          BY <4>2, <5>1
      <4>3. QED
        BY <4>1, <4>2
    <3>2. disp' = [disp EXCEPT !.pc = "reset", !.item = item, !.active = was,
                               !.activation = act]
      BY <2>1
    <3> HIDE DEF act
    <3>3. /\ DispKept /\ disp'.pc = "reset" /\ disp'.activation = act
          /\ disp'.active = was
      BY <1>4, <3>2 DEF DispKept, DispS
    <3>4. QED
      BY <2>1, <3>1, <3>3
  <2>2. CASE /\ item.kind \in {"mode", "refresh"}
             /\ ~(IF item.kind = "mode" THEN (item.value = 1) # disp.active ELSE disp.active)
             /\ disp' = [disp EXCEPT !.activation =
                                 IF item.kind = "mode" /\ item.value = 1 THEN item.gen ELSE @]
    <3>1. /\ DispKept /\ disp'.pc = "idle" /\ disp'.active = disp.active
          /\ disp'.activation = IF item.kind = "mode" /\ item.value = 1
                                THEN item.gen ELSE disp.activation
      BY <1>3, <1>4, <2>2 DEF DispKept, DispS
    <3>2. item.kind = "mode" => disp.active = (item.value = 1)
      BY <1>4, <2>2
    <3>3. QED
      BY <3>1, <3>2
  <2>3. CASE /\ item.kind = "ready"
             /\ disp' = [disp EXCEPT !.asked = @ \/ Reseeds,
                                 !.pc = IF Reseeds THEN "askAll" ELSE "idle"]
    BY <1>4, <2>3 DEF DispKept, DispS
  <2>4. QED
    BY <1>1, <2>1, <2>2, <2>3
<1>7. ModeTruth'
  <2>1. CASE item.kind # "mode"
    BY <1>3, <1>5, <1>6, <2>1, ModeKept DEF Facts
  <2>2. CASE item.kind = "mode"
    <3>1. /\ Lately(queue, co.reqGen) => Lately(Tail(queue), co.reqGen)
          /\ Lately(queue, co.reqGen) /\ item.gen # co.reqGen => Awaits(Tail(queue), co.reqGen)
      BY <1>3, <2>2, ModeQueue
    <3>2. QED
      BY <1>3, <1>5, <1>6, <2>2, <3>1 DEF Facts, ModeTruth
  <2>3. QED
    BY <2>1, <2>2
<1>8. Calm(auth, auth')
  BY <1>2, <1>4, CalmMethods, Names
<1>9. QED
  BY <1>2, <1>3, <1>5, <1>6, <1>7, <1>8, DispCalm

\* The lanes stay what they were, and so does the reset that is pending.
Carries(a, b) == LanesCalm(a, b) /\ (~b.closed => b.pending = a.pending)

\* What comes after a reset was started leaves its boundary pending.
LEMMA CarriesFacts ==
    ASSUME NEW a, NEW b, NEW c
    PROVE  /\ Carries(a, b) /\ Carries(b, c) => Carries(a, c)
           /\ Calm(a, b) => Carries(a, b)
           /\ ResetsOnly(a, b) /\ Carries(b, c) => ResetsOnly(a, c)
           /\ \A r : Answers(a, b, "control", r) => Calm(a, b)
<1>1. Carries(a, b) /\ Carries(b, c) => Carries(a, c)
  BY DEF Carries, LanesCalm, Alike, Watched
<1>2. Calm(a, b) => Carries(a, b)
  BY DEF Carries, Calm
<1>3. ResetsOnly(a, b) /\ Carries(b, c) => ResetsOnly(a, c)
  BY DEF Carries, ResetsOnly, LanesCalm, Alike, Watched
<1>4. ASSUME NEW r, Answers(a, b, "control", r) PROVE Calm(a, b)
  <2>1. Sound(a) => Sound(b)
    BY <1>4, Names, AnswersChain DEF LanesHeld
  <2>2. \A l \in Watched : l \in Lanes /\ l # "control"
    BY DEF Watched, Lanes
  <2>3. \A l \in Watched : b.lanes[l] = a.lanes[l]
    BY <1>4, <2>2 DEF Answers, Others
  <2>4. SameRest(a, b)
    BY <1>4 DEF Answers
  <2>5. QED
    BY <2>1, <2>3, <2>4 DEF Calm, LanesCalm, Alike, SameRest
<1>5. QED
  BY <1>1, <1>2, <1>3, <1>4

\* All that the calls of a reset do to the lanes and to what is pending.
LEMMA ResetCarries ==
    ASSUME Typed, Reset
    PROVE  LET a == ResetStarted(auth) IN
           /\ Carries(a, auth') /\ ResetsOnly(auth, auth') /\ ResetsOnly(auth, a)
           /\ a \in Authorities /\ Boundary(a) \in Nat
           /\ ~a.closed => Boundary(a) = a.pending
<1> DEFINE item == disp.item
           a == ResetStarted(auth)
           b == Cut(a)
           receipt == item.d.receipt
           restates == item.d # NoDelivery /\ Owns(b, "control", receipt.life)
           c == StartOperation(b, "control", receipt.life)
           op == Started(c, "control", receipt.life)
           d == Delivery(op, receipt, 0, FALSE)
           e == RecordApplication(c, "control", op)
           g == Restated(e, Boundary(a), "control", d)
<1>0. auth \in Authorities /\ disp \in DispS /\ item \in Items
  BY Parts DEF Typed
<1>1. auth' = (IF restates THEN g ELSE b) \/ auth' = Poison(a)
  BY DEF Reset
<1>2. item.d \in Deliveries /\ receipt \in Stamps /\ receipt.life \in Nat
  BY <1>0, ItemFields DEF Stamps
<1>3. /\ ResetsOnly(auth, a) /\ a \in Authorities /\ Boundary(a) \in Nat
      /\ ~a.closed => Boundary(a) = a.pending
  <2>1. a \in Authorities /\ Boundary(a) \in Nat
    BY <1>0, Methods, Names, ResetStartedFacts DEF Steady, Advances
  <2>2. QED
    BY <1>0, <2>1, ResetEffects DEF Boundary
<1> HIDE DEF item, receipt, a
<1>4. Carries(a, b) /\ b \in Authorities
  <2>1. a.pending \in Nat /\ Calm(a, a) /\ Steady(a, a)
    BY <1>3, Fields, CalmMethods, Methods, Names
  <2>2. /\ Steady(a, ResetApplied(a, a.pending))
        /\ LanesCalm(a, ResetApplied(a, a.pending))
        /\ ResetApplied(a, a.pending).pending = a.pending
    BY <1>3, <2>1, Methods, Names, ResetEffects
  <2>3. Carries(a, a) /\ Carries(a, ResetApplied(a, a.pending))
    BY <2>1, <2>2, CarriesFacts DEF Carries
  <2>4. ResetApplied(a, a.pending) \in Authorities
    BY <2>2 DEF Steady, Advances
  <2>5. QED
    BY <1>3, <2>3, <2>4 DEF Cut
<1> HIDE DEF b
<1>5. Carries(b, c) /\ c \in Authorities
  <2>1. Calm(b, c) /\ Steady(b, c)
    BY <1>2, <1>4, CalmMethods, Methods, Names
  <2>2. QED
    BY <2>1, CarriesFacts DEF Steady, Advances
<1> HIDE DEF c
<1>6. op \in Stamps
  <2>1. Started(c, "control", receipt.life) \in Stamps
    BY <1>2, <1>5, StartOperationFacts, Names
  <2>2. QED
    BY <2>1
<1> HIDE DEF op
<1>7. Carries(c, e) /\ d \in Deliveries /\ e \in Authorities
  <2>1. Calm(c, e) /\ Steady(c, e)
    BY <1>5, <1>6, CalmMethods, Methods, Names
  <2>2. d \in Deliveries
    BY <1>2, <1>6, DeliveryTyped
  <2>3. QED
    BY <2>1, <2>2, CarriesFacts DEF Steady, Advances
<1> HIDE DEF d, e
<1>8. Carries(e, g)
  <2>1. Answers(e, g, "control", d.receipt)
    BY <1>7, Names, Acknowledging
  <2> HIDE DEF g
  <2>2. QED
    BY <2>1, CarriesFacts
<1> HIDE DEF g
<1>9. Carries(a, auth') /\ ResetsOnly(auth, auth')
  <2>1. Carries(a, c)
    BY <1>4, <1>5, CarriesFacts
  <2>2. Carries(a, e)
    BY <1>7, <2>1, CarriesFacts
  <2>3. Carries(a, g)
    BY <1>8, <2>2, CarriesFacts
  <2>4. Carries(a, Poison(a))
    BY <1>3, CalmMethods, CarriesFacts, Names
  <2>5. Carries(a, auth')
    BY <1>1, <1>4, <2>3, <2>4
  <2>6. ResetsOnly(auth, auth')
    BY <1>3, <2>5, CarriesFacts
  <2>7. QED
    BY <2>5, <2>6
<1>10. QED
  BY <1>3, <1>9 DEF a

\* A reset leaves no lane in sync, until it is restated.
LEMMA ResetTrue ==
    ASSUME Typed, DrainInv, LifeInv, Facts, Reset
    PROVE  Facts' /\ Reports
<1> DEFINE item == disp.item
           a == ResetStarted(auth)
           receipt == item.d.receipt
           b == Cut(a)
           c == StartOperation(b, "control", receipt.life)
           op == Started(c, "control", receipt.life)
           d == Delivery(op, receipt, 0, FALSE)
           e == RecordApplication(c, "control", op)
           some == IF /\ item.d # NoDelivery /\ Owns(b, "control", receipt.life)
                      /\ CanRestate(e, Boundary(a), "control", d)
                   THEN {"control"} ELSE {}
           over == [Cleared(ResetOf(a, disp)) EXCEPT
                      !.restated = some, !.known = 0, !.rosterGen = 0, !.complete = FALSE,
                      !.item = NoItem, !.pc = IF Primes(item) THEN "prime" ELSE "idle"]
           failed == [ResetOf(a, disp) EXCEPT !.pc = "idle", !.item = NoItem]
<1>0. disp \in DispS
  BY DEF Typed
<1>1. \/ disp' = over /\ co' = Signal(item.id, TRUE)
      \/ disp' = failed /\ co' = Signal(item.id, FALSE)
  BY DEF Reset
<1>2. UNCHANGED <<queue, disc, stream, pass, ticket>>
  BY DEF Reset
<1>3. /\ Carries(a, auth') /\ ResetsOnly(auth, auth') /\ Boundary(a) \in Nat
      /\ ~a.closed => Boundary(a) = a.pending
  BY ResetCarries
<1>4. co'.reqGen = co.reqGen
  <2>1. co' = Signal(item.id, TRUE) \/ co' = Signal(item.id, FALSE)
    BY <1>1
  <2> HIDE DEF item
  <2>2. /\ Signal(item.id, TRUE).reqGen = co.reqGen
        /\ Signal(item.id, FALSE).reqGen = co.reqGen
    <3>1. \A id, ok : Signal(id, ok).reqGen = co.reqGen
      BY SignalKeeps
    <3>2. QED
      BY <3>1, Zenon
  <2>3. QED
    BY <2>1, <2>2
<1> HIDE DEF item, receipt, a, b, c, op, d, e
<1>5. /\ disp'.boundary = Boundary(a) /\ disp'.restated \in {{}, {"control"}}
      /\ disp'.active = disp.active /\ disp'.activation = disp.activation
      /\ disp'.pc # "seal"
  <2>1. some \in {{}, {"control"}}
    OBVIOUS
  <2> HIDE DEF some
  <2>2. /\ over.boundary = Boundary(a) /\ over.restated = some
        /\ over.active = disp.active /\ over.activation = disp.activation
        /\ over.pc \in {"prime", "idle"}
    BY <1>0 DEF Cleared, ResetOf, DispS
  <2>3. /\ failed.boundary = Boundary(a) /\ failed.restated = {}
        /\ failed.active = disp.active /\ failed.activation = disp.activation
        /\ failed.pc = "idle"
    BY <1>0 DEF ResetOf, DispS
  <2> HIDE DEF over, failed
  <2>4. QED
    BY <1>1, <2>1, <2>2, <2>3
<1>6. ~auth'.closed => disp'.boundary = auth'.pending
  BY <1>3, <1>5 DEF Carries, LanesCalm
<1>7. LanesHeld(auth, auth') /\ ~InSync("roster")' /\ ~InSync("stream")'
  BY <1>3, <1>5, CalmSynced DEF InSync, Watched
<1>8. FlightKept
  BY <1>2, QueueKept DEF Facts, SourceTruth
<1>9. ModeTruth'
  BY <1>2, <1>4, <1>5 DEF Facts, ModeTruth, Lately, Awaits
<1>10. QED
  BY <1>2, <1>4, <1>5, <1>6, <1>7, <1>8, <1>9, DispTrue

\* A priming applies the roster that discovery has.
LEMMA PrimeTrue ==
    ASSUME Typed, DrainInv, LifeInv, Facts, Prime
    PROVE  Facts' /\ Reports
<1> DEFINE d == PrimeDelivery(auth)
           item == Item("prime", disc.gen, disc.session, d, 0)
           started == StartOperation(auth, "roster", disc.receipt.life)
           a == IF d = NoDelivery THEN auth ELSE started
           idle == [disp EXCEPT !.pc = "idle"]
<1>0. auth \in Authorities /\ disp \in DispS
  BY DEF Typed
<1>1. UNCHANGED <<queue, disc, stream, co, pass, ticket>>
  BY DEF Prime
<1>2. \/ auth' = a /\ disp' = idle
      \/ ApplyRoster(a, item)
      \/ auth' = Poison(a) /\ disp' = idle
  BY DEF Prime
<1>3. started \in Authorities /\ Calm(auth, started)
  BY <1>0, Parts, CalmMethods, Methods, Names DEF Steady, Advances
<1>4. d \in Deliveries
  <2>1. Started(started, "roster", disc.receipt.life) \in Stamps
    BY <1>0, <1>3, Parts, StartOperationFacts, Names
  <2> HIDE DEF started
  <2>2. Delivery(Started(started, "roster", disc.receipt.life), disc.receipt, 0, FALSE)
           \in Deliveries
    BY <2>1, Parts, DeliveryTyped
  <2>3. QED
    BY <2>2, Stamp0 DEF PrimeDelivery, started
<1>5. Calm(auth, a) /\ a \in Authorities
  BY <1>0, <1>3, CalmMethods, Names
<1> HIDE DEF d
<1>6. /\ item \in Items /\ item.gen = disc.gen /\ item.value = disc.session /\ Roster(item)
  BY <1>4, Parts, ItemTyped DEF Kinds, Item, Roster
<1> HIDE DEF a, item
<1>7. co'.reqGen = co.reqGen
  BY <1>1
<1>8. FlightKept
  BY <1>1, QueueKept DEF Facts, SourceTruth
<1>9. disp'.active = disp.active /\ disp'.activation = disp.activation => ModeTruth'
  BY <1>1, ModeKept DEF Facts
<1>10. CASE disp' = idle /\ (auth' = a \/ auth' = Poison(a))
  <2>1. DispKept /\ disp'.active = disp.active /\ disp'.activation = disp.activation
        /\ disp'.pc # "seal"
    BY <1>0, <1>10 DEF DispKept, DispS
  <2>2. Calm(a, Poison(a))
    BY <1>5, CalmMethods, Names
  <2>3. Calm(auth, auth')
    BY <1>5, <1>10, <2>2, CalmChain
  <2>4. QED
    BY <1>1, <1>7, <1>8, <1>9, <2>1, <2>3, DispCalm
<1>11. CASE ApplyRoster(a, item)
  <2>1. /\ LanesHeld(auth, auth')
        /\ ~auth'.closed => disp'.boundary = auth'.pending
        /\ disp'.session = disc.session /\ disp'.rosterGen = disc.gen
        /\ disp'.active = disp.active /\ disp'.activation = disp.activation
        /\ disp'.pc # "seal"
        /\ InSync("stream")' => InSync("stream") /\ disp'.source \in {0, disp.source}
    BY <1>5, <1>6, <1>11, ApplyRosterTrue
  <2>2. LaterRosters(disc.gen)
    <3>1. \A y \in Items : Told(y) => y.gen <= disc.gen
      BY DEF Facts, RosterTruth, Dated
    <3>2. disc.gen \in Nat /\ \A y \in Items : y.gen \in Nat
      BY Parts, ItemFields
    <3>3. QED
      BY <3>1, <3>2 DEF LaterRosters
  <2>3. InSync("stream")' => disp'.source \in {0, stream.tracked} /\ InSync("stream")
    BY <2>1 DEF Facts, SourceTruth
  <2>4. QED
    BY <1>1, <1>7, <1>8, <1>9, <2>1, <2>2, <2>3, DispTrue
<1>12. QED
  BY <1>2, <1>10, <1>11

\* The dispatcher asks for the sources of the roster it has.
LEMMA RepublishTrue ==
    ASSUME Typed, DrainInv, LifeInv, Facts, Republish
    PROVE  Facts' /\ Reports
<1> DEFINE pc == CASE Reseeds -> "askAll"
                   [] ~Reseeds /\ co.folder # 0 /\ disp.asks # 0 /\ disp.asks # disp.known
                        -> "askOne"
                   [] OTHER -> "idle"
           asked == disp.asked \/ Reseeds
<1>0. auth \in Authorities /\ disp \in DispS
  BY DEF Typed
<1>1. UNCHANGED <<auth, queue, disc, stream, co, pass, ticket, tally>>
  BY DEF Republish
<1>2. disp' = [disp EXCEPT !.known = disp.asks, !.asks = 0, !.asked = asked, !.pc = pc]
  BY DEF Republish
<1>3. pc \in {"askAll", "askOne", "idle"}
  OBVIOUS
<1> HIDE DEF pc, asked
<1>4. DispKept /\ disp'.active = disp.active /\ disp'.activation = disp.activation
      /\ disp'.pc # "seal"
  BY <1>0, <1>2, <1>3 DEF DispKept, DispS
<1>5. FlightKept
  BY <1>1, QueueKept DEF Facts, SourceTruth
<1>6. ModeTruth'
  BY <1>1, <1>4, ModeKept DEF Facts
<1>7. Calm(auth, auth')
  BY <1>0, <1>1, CalmMethods, Names
<1>8. QED
  BY <1>1, <1>4, <1>5, <1>6, <1>7, DispCalm

\* The operation that the owner of a lane starts is of its lifetime.
LEMMA StartedLife ==
    ASSUME NEW a \in Authorities, NEW l \in Lanes, NEW life \in Nat
    PROVE  LET op == Started(StartOperation(a, l, life), l, life) IN
           op \in Stamps /\ (op.life = life \/ op = NoOperation)
<1> DEFINE b == StartOperation(a, l, life)
<1>1. CASE Owns(a, l, life)
  <2>1. b = [a EXCEPT !.lanes[l].started = [life |-> life, order |-> @.order + 1]]
    BY <1>1 DEF StartOperation
  <2>2. /\ b.lanes[l].started = [life |-> life, order |-> a.lanes[l].started.order + 1]
    BY <2>1, Fields DEF Authorities, LaneStates
  <2>3. a.lanes[l].started.order \in Nat
    BY Fields, LaneFields DEF Stamps
  <2>4. QED
    BY <2>2, <2>3, Stamp0 DEF Started, Stamps
<1>2. CASE ~Owns(a, l, life)
  BY <1>2, Stamp0 DEF StartOperation, Started
<1>3. QED
  BY <1>1, <1>2

\* A request for the source restates what the log worker tracks.
LEMMA AskStreamTrue ==
    ASSUME Typed, DrainInv, LifeInv, Facts, AskStream
    PROVE  Facts' /\ Reports
<1> DEFINE reset == IF disp.pc = "askAll" THEN disp.boundary ELSE 0
           op == Started(auth', "stream", stream.receipt.life)
           d == OperationOf(auth', stream.receipt, reset)
           i == Item("source", 0, stream.tracked, d, 0)
           st == [stream EXCEPT !.fifo = Append(stream.fifo, i)]
           lane == auth.lanes["stream"]
<1>0. /\ auth \in Authorities /\ disp \in DispS /\ stream \in StreamS /\ reset \in Nat
      /\ stream.tracked \in Nat /\ stream.fifo \in Seq(Items) /\ stream.receipt \in Stamps
      /\ stream.receipt.life \in Nat /\ disp.pc \in {"askAll", "askOne"}
  BY Parts DEF Typed, AskStream
<1>1. UNCHANGED <<queue, disc, co, pass, ticket, tally>>
  BY DEF AskStream
<1>2. /\ auth' = StartOperation(auth, "stream", stream.receipt.life)
      /\ stream' = Claimed(st, "disp")
      /\ disp' = [disp EXCEPT !.pc = IF stream'.drainer = "disp" THEN "draining" ELSE "idle"]
  BY DEF AskStream
<1>3. Calm(auth, auth')
  BY <1>0, <1>2, CalmMethods, Names
<1>4. op \in Stamps /\ (op.life = stream.receipt.life \/ op = NoOperation)
  BY <1>0, <1>2, Names, StartedLife
<1>5. /\ d \in Deliveries
      /\ d.op.life \in {stream.receipt.life, 0}
      /\ d.receipt \in {stream.receipt, NoReceipt}
  <2>1. d = IF op = NoOperation THEN NoDelivery ELSE Delivery(op, stream.receipt, reset, FALSE)
    BY DEF OperationOf
  <2> HIDE DEF op, reset
  <2>2. Delivery(op, stream.receipt, reset, FALSE) \in Deliveries
    BY <1>0, <1>4, DeliveryTyped
  <2>3. QED
    BY <1>4, <2>1, <2>2, Stamp0 DEF NoDelivery, Delivery, NoOperation
<1> HIDE DEF d, op, reset
<1>6. i \in Items /\ i.d = d /\ i.value = stream.tracked /\ i.kind = "source" /\ Batch(i)
  BY <1>0, <1>5, ItemTyped DEF Kinds, Item, Batch
<1>7. /\ lane.lives \in Nat /\ lane.life <= lane.lives /\ lane.life \in Nat
      /\ stream.receipt.life = lane.life /\ stream.receipt.order \in Nat
      /\ stream.receipt.life = 0 => stream.receipt.order = 0
  <2>1. lane \in LaneStates /\ LaneSound(lane) /\ stream.receipt = lane.requested
    BY <1>0, Names, Fields DEF Facts, LaneTruth, Sound
  <2>2. QED
    BY <1>0, <2>1, LaneFields DEF LaneSound, Stamps, NoReceipt
<1> HIDE DEF i
<1>8. Past(i) /\ Tells(i)
  <2>1. i.d.op.life \in {stream.receipt.life, 0} /\ i.d.receipt \in {stream.receipt, NoReceipt}
    BY <1>5, <1>6
  <2>2. QED
    BY <1>6, <1>7, <2>1 DEF Past, Issued, Tells, NoReceipt
<1>9. /\ st \in StreamS /\ st.receipt = stream.receipt /\ st.fifo = Append(stream.fifo, i)
      /\ st.carried = stream.carried /\ st.tracked = stream.tracked
      /\ st.worker = stream.worker /\ st.pc = stream.pc /\ st.d = stream.d
  BY <1>0, <1>6, Queues DEF StreamS
<1> HIDE DEF st
<1>10. /\ stream'.receipt = stream.receipt /\ stream'.fifo = Append(stream.fifo, i)
       /\ stream'.carried = stream.carried /\ stream'.tracked = stream.tracked
       /\ stream'.worker = stream.worker /\ stream'.pc = stream.pc /\ stream'.d = stream.d
  BY <1>2, <1>9 DEF Claimed, StreamS
<1>11. /\ DispKept /\ disp'.active = disp.active /\ disp'.activation = disp.activation
       /\ disp'.pc # "seal"
  BY <1>0, <1>2 DEF DispKept, DispS
<1>12. CoreKept
  BY <1>1, <1>10 DEF CoreKept
<1>13. LanesHeld(auth, auth') /\ (~auth'.closed => auth'.pending = auth.pending)
       /\ (InSync("roster")' => InSync("roster")) /\ (InSync("stream")' => InSync("stream"))
  <2>1. \A R : \A l \in Watched : SyncedIn(auth', R, l) => SyncedIn(auth, R, l)
    BY <1>3 DEF Calm, LanesCalm, SyncedIn, Alike
  <2>2. QED
    BY <1>3, <1>11, <2>1, CalmSynced DEF InSync, DispKept, Watched
<1>14. LaneTruth'
  BY <1>11, <1>12, <1>13, LanesKept DEF Facts, LaneTruth, LanesHeld, LaneHeld, DispKept
<1>15. RosterTruth'
  <2>1. \A x \in Items : Holds(queue', x) /\ x.kind = "roster" => Told(x)
    BY <1>1 DEF Told
  <2>2. QED
    BY <1>11, <1>12, <1>13, <2>1, RosterKept DEF Facts, LanesHeld, CoreKept, DispKept
<1>16. SourceTruth'
  BY <1>1, <1>6, <1>8, <1>10, <1>11, <1>13, SourceJoins DEF Facts, LanesHeld, DispKept
<1>17. DiscoveryTruth' /\ StreamTruth'
  BY <1>1, <1>10, <1>13, WorkersKept DEF Facts, LanesHeld
<1>18. ModeTruth'
  BY <1>1, <1>11 DEF Facts, ModeTruth, Lately, Awaits
<1>19. Reports
  BY <1>1, <1>10, <1>11 DEF Reports, SealHeld
<1>20. QED
  BY <1>14, <1>15, <1>16, <1>17, <1>18, <1>19 DEF Facts

\* What is captured is true: every lane is in sync, and no mode is under way.
LEMMA PublishCaptureTrue ==
    ASSUME IInv, Next, Facts, TicketTruth, PublishCapture
    PROVE  Facts' /\ SealTruth' /\ TicketTruth'
<1>0. Typed /\ auth \in Authorities /\ disp \in DispS /\ Captures(auth)
      /\ queue = <<>> /\ disp.active
  BY DEF IInv, Typed, PublishCapture
<1>1. /\ UNCHANGED <<queue, disc, stream, co, pass, ticket, tally>>
      /\ auth' = Hold(auth)
      /\ disp' = [disp EXCEPT !.pc = "seal", !.frontier = Frontier(auth)]
  BY DEF PublishCapture
<1>2. Calm(auth, auth')
  BY <1>0, <1>1, CalmMethods, Names
<1>3. /\ DispKept /\ disp'.active = disp.active /\ disp'.activation = disp.activation
  BY <1>0, <1>1 DEF DispKept, DispS
<1>4. FlightKept
  BY <1>0, <1>1, QueueKept DEF Facts, SourceTruth
<1>5. CoreKept
  BY <1>1 DEF CoreKept
<1>6. LaneTruth' /\ RosterTruth' /\ SourceTruth'
  BY <1>2, <1>3, <1>4, <1>5, AloofCalm DEF Facts
<1>7. DiscoveryTruth' /\ StreamTruth'
  BY <1>1, <1>2, WorkersCalm, WorkersKept DEF Facts
<1>8. ModeTruth'
  BY <1>1, <1>3 DEF Facts, ModeTruth, Lately, Awaits
<1>9. InSync("roster") /\ InSync("stream")
  BY <1>0, CurrentSynced, Names DEF Captures, InSync
<1>10. disp.activation = co.reqGen
  BY <1>0 DEF Facts, ModeTruth, Awaits
<1>11. SealTruth'
  BY <1>1, <1>3, <1>9, <1>10 DEF Facts, RosterTruth, SourceTruth, SealTruth, DispKept
<1>12. TicketTruth'
  <2>1. Handed(ticket.token) /\ ticket.token \in Nat
    BY DEF IInv, TicketInv, Typed, Tickets
  <2>2. Current(auth', ticket.token) => Current(auth, ticket.token)
    BY <2>1, WasCurrent
  <2>3. QED
    BY <1>1, <2>2 DEF TicketTruth, HoldsCurrent
<1>13. QED
  BY <1>6, <1>7, <1>8, <1>11, <1>12 DEF Facts

\* What is sealed was captured, and is true if it is still current.
LEMMA PublishSealTrue ==
    ASSUME IInv, Next, Facts, SealTruth, TicketTruth, PublishSeal
    PROVE  Facts' /\ SealTruth' /\ TicketTruth'
<1>0. Typed /\ auth \in Authorities /\ disp \in DispS /\ disp.pc = "seal"
  BY DEF IInv, Typed, PublishSeal
<1>1. /\ UNCHANGED <<auth, queue, disc, stream, co, pass, tally>>
      /\ disp' = [disp EXCEPT !.pc = "idle", !.frontier = NoFrontier]
      /\ ticket' \in IF Seals(auth, disp.frontier) THEN {ticket, Sealed} ELSE {ticket}
  BY DEF PublishSeal
<1>2. Calm(auth, auth')
  BY <1>0, <1>1, CalmMethods, Names
<1>3. /\ DispKept /\ disp'.active = disp.active /\ disp'.activation = disp.activation
      /\ disp'.pc = "idle"
  BY <1>0, <1>1 DEF DispKept, DispS
<1>4. FlightKept
  BY <1>0, <1>1, QueueKept DEF Facts, SourceTruth
<1>5. CoreKept
  BY <1>1 DEF CoreKept
<1>6. LaneTruth' /\ RosterTruth' /\ SourceTruth'
  BY <1>2, <1>3, <1>4, <1>5, AloofCalm DEF Facts
<1>7. DiscoveryTruth' /\ StreamTruth'
  BY <1>1, <1>2, WorkersCalm, WorkersKept DEF Facts
<1>8. ModeTruth'
  BY <1>1, <1>3 DEF Facts, ModeTruth, Lately, Awaits
<1>9. SealTruth'
  BY <1>3 DEF SealTruth
<1>10. TicketTruth'
  <2>1. CASE ticket' = ticket
    BY <1>1, <2>1 DEF TicketTruth, HoldsCurrent
  <2>2. CASE ticket' = Sealed /\ Seals(auth, disp.frontier)
    <3>1. Current(auth, disp.frontier.token)
      BY <2>2 DEF Seals, Captures, Frontier
    <3>2. /\ ticket'.session = disp.session /\ ticket'.source = disp.source
          /\ ticket'.activation = disp.activation
      BY <2>2 DEF Sealed
    <3>3. QED
      BY <1>0, <1>1, <3>1, <3>2 DEF SealTruth, TicketTruth
  <2>3. QED
    BY <1>1, <2>1, <2>2
<1>11. QED
  BY <1>6, <1>7, <1>8, <1>9, <1>10 DEF Facts

-----------------------------------------------------------------------------
(* The pass *)

\* What a step of the pass leaves of the workers, but for their being told to stop.
WorkersLeft ==
    /\ CoreKept
    /\ disc'.worker = disc.worker /\ disc'.pc = disc.pc /\ disc'.op = disc.op
    /\ stream'.worker = stream.worker /\ stream'.pc = stream.pc /\ stream'.d = stream.d

\* Calm calls keep the facts; another mode may be asked for only if tickets are void.
LEMMA PassCalm ==
    ASSUME Typed, Facts, WorkersLeft, Calm(auth, auth'), DispKept, FlightKept, ModeTruth',
           SealHeld, UNCHANGED ticket, Void \/ co'.reqGen = co.reqGen
    PROVE  Facts' /\ Reports
<1>1. LaneTruth' /\ RosterTruth' /\ SourceTruth'
  BY AloofCalm DEF Facts, WorkersLeft
<1>2. DiscoveryTruth' /\ StreamTruth'
  BY WorkersCalm, WorkersKept DEF Facts, WorkersLeft, CoreKept
<1>3. Reports
  BY DEF Reports, WorkersLeft, CoreKept
<1>4. QED
  BY <1>1, <1>2, <1>3 DEF Facts

\* What the dispatcher is told, and that it is started, is not what it knows.
DispTold == /\ DispKept /\ disp'.pc = disp.pc /\ disp'.frontier = disp.frontier
            /\ disp'.active = disp.active /\ disp'.activation = disp.activation

\* A step that calls nothing and queues nothing.
LEMMA PassAloof ==
    ASSUME Typed, Facts, UNCHANGED <<auth, queue, disc, stream, ticket>>, DispTold,
           co'.reqGen = co.reqGen
    PROVE  Facts' /\ Reports
<1>1. Calm(auth, auth')
  BY CalmMethods, Names DEF Typed
<1>2. FlightKept
  BY QueueKept DEF Facts, SourceTruth
<1>3. ModeTruth'
  BY ModeKept DEF Facts, DispTold
<1>4. SealHeld
  BY DEF SealHeld, DispTold, DispKept
<1>5. WorkersLeft
  BY DEF WorkersLeft, CoreKept
<1>6. QED
  BY <1>1, <1>2, <1>3, <1>4, <1>5, PassCalm DEF DispTold

\* A reset that nothing restates yet.
LEMMA PassReset ==
    ASSUME Typed, Facts, UNCHANGED <<disc, stream, ticket>>, ResetsOnly(auth, auth'),
           ~auth'.closed => disp'.boundary = auth'.pending, disp'.restated = {},
           FlightKept, ModeTruth'
    PROVE  Facts' /\ Reports
<1>1. LanesHeld(auth, auth') /\ ~InSync("roster")' /\ ~InSync("stream")'
  BY CalmSynced DEF InSync, Watched
<1>2. CoreKept
  BY DEF CoreKept
<1>3. LaneTruth'
  BY <1>1, <1>2, LanesKept DEF Facts
<1>4. RosterTruth'
  BY <1>1, RosterKept DEF Facts, FlightKept, LanesHeld
<1>5. SourceTruth'
  BY <1>1, SourceKept DEF Facts, LanesHeld
<1>6. DiscoveryTruth' /\ StreamTruth'
  BY <1>1, WorkersKept DEF Facts, LanesHeld
<1>7. Void
  BY DEF Void, Current, ResetsOnly
<1>8. QED
  BY <1>3, <1>4, <1>5, <1>6, <1>7 DEF Facts, Reports

\* Waiting, and telling the dispatcher to stop.
LEMMA WaitsTrue ==
    ASSUME Typed, Facts, AwaitReset \/ AwaitRefresh \/ StopDispatcher
    PROVE  Facts' /\ Reports
<1>0. disp \in DispS
  BY DEF Typed
<1>1. /\ UNCHANGED <<auth, queue, disc, stream, co, ticket>>
      /\ disp' = disp \/ disp' = [disp EXCEPT !.stopping = TRUE]
  BY DEF AwaitReset, AwaitRefresh, StopDispatcher
<1>2. DispTold
  BY <1>0, <1>1 DEF DispTold, DispKept, DispS
<1>3. QED
  BY <1>1, <1>2, PassAloof

\* Closing is for good: what is closed is in sync with nothing.
LEMMA CloseTrue ==
    ASSUME Typed, Facts, CloseAdmission
    PROVE  Facts' /\ Reports
<1>1. /\ auth' = Close(auth) /\ UNCHANGED <<queue, disc, stream, disp, pass, ticket>>
      /\ co' = [co EXCEPT !.completion = NoCompletion] /\ auth \in Authorities /\ co \in CoS
  BY DEF CloseAdmission, Typed
<1>2. Calm(auth, auth') /\ co'.reqGen = co.reqGen
  BY <1>1, CalmMethods, Names DEF CoS
<1>3. FlightKept
  BY <1>1, QueueKept DEF Facts, SourceTruth
<1>4. ModeTruth'
  BY <1>1, <1>2, ModeKept DEF Facts
<1>5. SealHeld /\ DispKept /\ WorkersLeft
  BY <1>1 DEF SealHeld, DispKept, WorkersLeft, CoreKept
<1>6. QED
  BY <1>1, <1>2, <1>3, <1>4, <1>5, PassCalm

\* A receipt of control is reserved and a lane is stopped.
LEMMA StopsCalm ==
    ASSUME Typed, LifeInv, NEW l \in Lanes, NEW life \in Nat
    PROVE  Calm(auth, Stop(ReserveControl(auth, co.control).auth, l, life))
<1> DEFINE a == ReserveControl(auth, co.control).auth
<1>1. auth \in Authorities /\ co.control \in Stamps
      /\ co.control.life = auth.lanes["control"].life
  BY Parts DEF Typed, LifeInv
<1>2. Calm(auth, a)
  BY <1>1, CalmReserveControl
<1>3. a \in Authorities
  BY <1>1, ReserveControlFacts DEF Control, Advances
<1> HIDE DEF a
<1>4. Calm(a, Stop(a, l, life))
  BY <1>3, CalmMethods
<1>5. QED
  BY <1>2, <1>4, CalmChain DEF a

\* A worker is told to stop.
LEMMA StopsTrue ==
    ASSUME Typed, LifeInv, Facts, StopDiscovery \/ StopStream
    PROVE  Facts' /\ Reports
<1> DEFINE a == ReserveControl(auth, co.control).auth
           receipt == ReserveControl(auth, co.control).receipt
<1>0. /\ disc \in DiscS /\ stream \in StreamS /\ co \in CoS
      /\ disc.receipt.life \in Nat /\ stream.receipt.life \in Nat
  BY Parts DEF Typed
<1>1. /\ UNCHANGED <<queue, disp, ticket>>
      /\ \/ auth' = Stop(a, "roster", disc.receipt.life)
         \/ auth' = Stop(a, "stream", stream.receipt.life)
      /\ \/ co' = [co EXCEPT !.control = receipt, !.discSub = FALSE]
         \/ co' = [co EXCEPT !.control = receipt, !.streamSub = FALSE]
      /\ disc' = disc \/ disc' = [disc EXCEPT !.stopping = TRUE]
      /\ stream' = stream \/ stream' = [stream EXCEPT !.stopping = TRUE]
  BY DEF StopDiscovery, StopStream
<1>2. Calm(auth, auth')
  BY <1>0, <1>1, StopsCalm, Names
<1> HIDE DEF receipt, a
<1>3. co'.reqGen = co.reqGen
  BY <1>0, <1>1 DEF CoS
<1>4. /\ WorkersLeft /\ stream'.fifo = stream.fifo /\ stream'.carried = stream.carried
  BY <1>0, <1>1 DEF WorkersLeft, CoreKept, DiscS, StreamS
<1>5. FlightKept
  BY <1>1, <1>4, QueueKept DEF Facts, SourceTruth
<1>6. ModeTruth'
  BY <1>1, <1>3, ModeKept DEF Facts
<1>7. SealHeld /\ DispKept
  BY <1>1 DEF SealHeld, DispKept
<1>8. QED
  BY <1>1, <1>2, <1>3, <1>4, <1>5, <1>6, <1>7, PassCalm

-----------------------------------------------------------------------------
(* Lifetimes begin and end *)

\* A lane that has ended is in sync with nothing; nor is one that has begun, and its
\* receipt is one that nothing under way came with.
Ended(l, r) == ~auth'.lanes[l].running /\ r = NoReceipt
Anew(l, r) == /\ r.life = auth.lanes[l].lives + 1 /\ auth'.lanes[l].requested = r
              /\ auth'.lanes[l].applied # r.order

\* Receipts that were issued remain so, and are none of a lifetime that begins.
LEMMA IssuedAnew ==
    ASSUME NEW l \in Lanes, NEW r \in Stamps, NEW new \in Stamps, NEW old \in Stamps,
           auth \in Authorities, auth' \in Authorities, Ended(l, new) \/ Anew(l, new),
           auth'.lanes[l].lives >= auth.lanes[l].lives, Issued(r, auth.lanes[l], old)
    PROVE  Issued(r, auth'.lanes[l], new) /\ (Anew(l, new) => r.life # new.life)
<1>1. /\ r.life \in Nat /\ new.life \in Nat /\ r.order \in Nat /\ new.order \in Nat
      /\ auth.lanes[l].lives \in Nat /\ auth'.lanes[l].lives \in Nat
  BY Fields, LaneFields DEF Stamps
<1>2. r.life # 0 \/ r.order = 0
  BY DEF Issued
<1>3. QED
  BY <1>1, <1>2 DEF Issued, Ended, Anew, NoReceipt

\* What is known of rosters when discovery begins or ends.
LEMMA RosterAnew ==
    ASSUME Typed, RosterTruth, auth' \in Authorities, disc'.receipt \in Stamps,
           Ended("roster", disc'.receipt) \/ Anew("roster", disc'.receipt),
           auth'.lanes["roster"].lives >= auth.lanes["roster"].lives,
           disc'.gen = disc.gen, disc'.session = disc.session, disc'.latest = disc.latest,
           \A x \in Items : Holds(queue', x) /\ x.kind = "roster" => Told(x)
    PROVE  RosterTruth'
<1>0. auth \in Authorities /\ disc.receipt \in Stamps
  BY Parts DEF Typed
<1>1. \A x \in Items : Told(x)' => Told(x)
  BY DEF Told, Latest
<1>2. \A x \in Items : Told(x)' => Dated(x)
  BY <1>1 DEF RosterTruth
<1>3. ASSUME NEW x \in Items, Told(x)'
      PROVE  Dated(x)' /\ (Anew("roster", disc'.receipt) => x.d.receipt # disc'.receipt)
  <2>1. Dated(x) /\ x.d.receipt \in Stamps
    BY <1>2, <1>3, ItemFields
  <2>2. /\ Issued(x.d.receipt, auth'.lanes["roster"], disc'.receipt)
        /\ Anew("roster", disc'.receipt) => x.d.receipt.life # disc'.receipt.life
    BY <1>0, <2>1, Names, IssuedAnew DEF Dated
  <2>3. QED
    BY <2>1, <2>2 DEF Dated
<1>4. \A x \in Items : Told(x)' => Dated(x)'
  BY <1>3
<1>5. ~auth'.closed /\ auth'.lanes["roster"].running =>
          \A x, y \in Items : Told(x)' /\ Told(y)' /\ x.d.receipt = disc'.receipt /\ x.gen <= y.gen
                              => y.value = disc'.session
  BY <1>3 DEF Ended
<1>6. ~InSync("roster")'
  BY DEF InSync, SyncedIn, Ended, Anew
<1>7. QED
  BY <1>4, <1>5, <1>6 DEF RosterTruth

\* What is known of sources when the log worker begins or ends.
LEMMA SourceAnew ==
    ASSUME Typed, SourceTruth, auth' \in Authorities, stream'.receipt \in Stamps,
           Ended("stream", stream'.receipt) \/ Anew("stream", stream'.receipt),
           auth'.lanes["stream"].lives >= auth.lanes["stream"].lives, FlightKept
    PROVE  SourceTruth'
<1>0. /\ auth \in Authorities /\ stream.receipt \in Stamps
      /\ auth.lanes["stream"].lives \in Nat /\ auth'.lanes["stream"].lives \in Nat
  BY Parts, Names, Fields, LaneFields DEF Typed
<1>1. \A x \in Items : Flies(x, x)' => Past(x)
  BY DEF FlightKept, SourceTruth
<1>2. ASSUME NEW x \in Items, Past(x)
      PROVE  Past(x)' /\ (Anew("stream", stream'.receipt) => x.d.receipt # stream'.receipt)
  <2>1. x.d.receipt \in Stamps /\ x.d.op.life \in Nat
    BY ItemFields DEF Stamps
  <2>2. /\ Issued(x.d.receipt, auth'.lanes["stream"], stream'.receipt)
        /\ Anew("stream", stream'.receipt) => x.d.receipt.life # stream'.receipt.life
    BY <1>0, <1>2, <2>1, Names, IssuedAnew DEF Past
  <2>3. x.d.op.life <= auth'.lanes["stream"].lives
    BY <1>0, <1>2, <2>1 DEF Past
  <2>4. QED
    BY <1>2, <2>2, <2>3 DEF Past
<1>3. \A x \in Items : Flies(x, x)' => Past(x)'
  BY <1>1, <1>2
<1>4. ~auth'.closed /\ auth'.lanes["stream"].running =>
          \A x, y \in Items : ~(Flies(x, y)' /\ Speaks(x)')
  <2>1. \A x, y \in Items : Flies(x, y)' => Flies(x, y)
    BY DEF FlightKept
  <2>2. queue \in Seq(Items) /\ stream.carried \in Items /\ stream.fifo \in Seq(Items)
    BY Parts DEF Typed
  <2>3. \A x \in Items : \A y \in Items : Flies(x, y) => Flies(x, x)
    BY <2>2, QueueOrder DEF Flies
  <2>4. \A x \in Items : \A y \in Items : Flies(x, y)' => Past(x)
    BY <2>1, <2>3 DEF SourceTruth
  <2>5. QED
    BY <1>2, <2>4 DEF Speaks, Ended
<1>5. ~InSync("stream")'
  BY DEF InSync, SyncedIn, Ended, Anew
<1>6. QED
  BY <1>3, <1>4, <1>5 DEF SourceTruth, FlightKept

\* A lane that was stopped is freed, and keeps the number of its lifetimes.
LEMMA FreedLane ==
    ASSUME NEW a \in Authorities, NEW l \in Lanes, ~a.lanes[l].running
    PROVE  LET b == Stopped(a, l, a.lanes[l].life) IN
           /\ SameRest(a, b) /\ Others(a, b, l) /\ (Sound(a) => Sound(b))
           /\ b.lanes[l].lives = a.lanes[l].lives
           /\ ~b.lanes[l].running /\ b.lanes[l].requested = NoReceipt
<1>1. a.lanes[l].life \in Nat
  BY Fields, LaneFields
<1>2. \A life \in Nat : LET b == Stopped(a, l, life) IN
         /\ SameRest(a, b) /\ Others(a, b, l)
         /\ life = a.lanes[l].life /\ ~a.lanes[l].running =>
               /\ b.lanes[l].life = 0 /\ b.lanes[l].lives = a.lanes[l].lives
               /\ ~b.lanes[l].running /\ b.lanes[l].applied = 0
               /\ b.lanes[l].requested = NoReceipt
         /\ Sound(a) => Sound(b)
  BY LaneEffects
<1>3. QED
  BY <1>1, <1>2

\* A discovery whose worker is dead has ended.
LEMMA JoinDiscoveryTrue ==
    ASSUME Typed, LifeInv, Facts, JoinDiscovery
    PROVE  Facts' /\ Reports
<1>0. /\ auth \in Authorities /\ disc \in DiscS /\ co \in CoS /\ disp \in DispS
      /\ disc.receipt.life \in Nat /\ UNCHANGED <<queue, stream, disp, ticket, tally>>
      /\ pass.pc = "discJoin"
  BY Parts DEF Typed, JoinDiscovery
<1>1. CASE ~DiscoveryDead
  <2>1. UNCHANGED <<auth, disc, co>>
    BY <1>1 DEF JoinDiscovery
  <2>2. DispTold
    BY <1>0 DEF DispTold, DispKept
  <2>3. QED
    BY <1>0, <2>1, <2>2, PassAloof
<1>2. CASE DiscoveryDead
  <2>1. /\ auth' = Stopped(auth, "roster", disc.receipt.life)
        /\ disc' = [disc EXCEPT !.worker = FALSE, !.stopping = FALSE, !.receipt = NoReceipt]
        /\ co' = [co EXCEPT !.discOn = FALSE]
    BY <1>2 DEF JoinDiscovery
  <2>2. /\ SameRest(auth, auth') /\ Others(auth, auth', "roster") /\ Sound(auth')
        /\ auth'.lanes["roster"].lives = auth.lanes["roster"].lives
        /\ ~auth'.lanes["roster"].running /\ auth'.lanes["roster"].requested = NoReceipt
        /\ auth' \in Authorities
    <3>1. disc.receipt.life = auth.lanes["roster"].life /\ ~auth.lanes["roster"].running
          /\ Sound(auth)
      BY <1>0 DEF LifeInv, Facts, LaneTruth
    <3>2. Stopped(auth, "roster", disc.receipt.life) \in Authorities
      BY <1>0, Names, StoppedFacts DEF Advances
    <3>3. LET b == Stopped(auth, "roster", disc.receipt.life) IN
          /\ SameRest(auth, b) /\ Others(auth, b, "roster") /\ (Sound(auth) => Sound(b))
          /\ b.lanes["roster"].lives = auth.lanes["roster"].lives
          /\ ~b.lanes["roster"].running /\ b.lanes["roster"].requested = NoReceipt
      BY <1>0, <3>1, Names, FreedLane
    <3>4. QED
      BY <2>1, <3>1, <3>2, <3>3
  <2>3. /\ disc'.gen = disc.gen /\ disc'.session = disc.session /\ disc'.latest = disc.latest
        /\ disc'.receipt = NoReceipt /\ ~disc'.worker /\ disc'.pc = disc.pc
        /\ co'.reqGen = co.reqGen
    BY <1>0, <2>1 DEF DiscS, CoS
  <2>4. disc.pc = "idle"
    BY <1>2 DEF DiscoveryDead, Facts, DiscoveryTruth
  <2>5. auth'.lanes["stream"] = auth.lanes["stream"] /\ auth.lanes["roster"].lives \in Nat
    BY <1>0, <2>2, Names, Fields, LaneFields DEF Others
  <2>6. LaneTruth'
    BY <1>0, <2>2, <2>3, <2>5 DEF Facts, LaneTruth, SameRest
  <2>7. DiscoveryTruth'
    BY <2>3, <2>4 DEF DiscoveryTruth
  <2>8. FlightKept
    BY <1>0, QueueKept DEF Facts, SourceTruth
  <2>9. LaneHeld(auth, auth', "stream")
    BY <2>2, <2>5 DEF LaneHeld, SameRest
  <2>10. StreamTruth'
    BY <1>0, <2>9, WorkersKept DEF Facts
  <2>11. RosterTruth'
    <3>1. auth'.lanes["roster"].lives >= auth.lanes["roster"].lives
      BY <2>2, <2>5
    <3>2. QED
      BY <2>2, <2>3, <2>8, <3>1, Stamp0, RosterAnew DEF Facts, Ended, FlightKept
  <2>12. SourceTruth'
    <3>1. InSync("stream")' => InSync("stream")
      BY <1>0, <2>2, <2>5 DEF InSync, SyncedIn, SameRest
    <3>2. InSync("stream") => disp.source \in {0, stream.tracked}
      BY DEF Facts, SourceTruth
    <3>3. QED
      BY <1>0, <2>8, <2>9, <3>1, <3>2, SourceKept DEF Facts
  <2>13. ModeTruth'
    BY <1>0, <2>3, ModeKept DEF Facts
  <2>14. Reports
    BY <1>0, <2>3 DEF Reports, SealHeld
  <2>15. QED
    BY <2>6, <2>7, <2>10, <2>11, <2>12, <2>13, <2>14 DEF Facts
<1>3. QED
  BY <1>1, <1>2

\* What is queued for control is what was asked for, and no other mode is asked for.
LEMMA AwaitedKeeps ==
    ASSUME NEW c \in CoS, NEW item \in Items, NEW gen \in Nat
    PROVE  /\ Awaited(c, item, gen).co.reqGen = c.reqGen
           /\ Awaited(c, item, gen).item \in Items
           /\ Awaited(c, item, gen).item.kind = item.kind
           /\ Awaited(c, item, gen).item.gen = item.gen
<1> DEFINE fresh == (item.kind = "refresh" \/ item.value = 1) /\ ~auth.closed
           id == IF fresh THEN c.completions + 1 ELSE 0
           n == IF fresh THEN c.completions + 1 ELSE c.completions
           m == IF fresh THEN [id |-> id, gen |-> gen, st |-> "open"] ELSE NoCompletion
           e == [c EXCEPT !.completions = n, !.completion = m]
<1>1. Awaited(c, item, gen) = [co |-> e, item |-> [item EXCEPT !.id = id]]
  BY DEF Awaited
<1> HIDE DEF n, m, id
<1>2. e.reqGen = c.reqGen
  BY DEF CoS
<1>3. [item EXCEPT !.id = id].kind = item.kind /\ [item EXCEPT !.id = id].gen = item.gen
  BY DEF Items
<1>4. Awaited(c, item, gen).item \in Items
  BY AwaitedFacts
<1> HIDE DEF e
<1>5. Awaited(c, item, gen).co = e /\ Awaited(c, item, gen).item = [item EXCEPT !.id = id]
  BY <1>1
<1>6. QED
  BY <1>2, <1>3, <1>4, <1>5, Zenon

\* A log worker that is dead has ended.
LEMMA JoinStreamTrue ==
    ASSUME Typed, LifeInv, Facts, JoinStream
    PROVE  Facts' /\ Reports
<1> DEFINE c == [co EXCEPT !.folder = 0]
           i == Item("refresh", 0, 0, pass.refresh, 0)
           w == Awaited(c, i, co.reqGen)
<1>0. /\ auth \in Authorities /\ stream \in StreamS /\ co \in CoS /\ disp \in DispS
      /\ stream.receipt.life \in Nat /\ UNCHANGED <<disc, disp, ticket, tally>>
      /\ pass.pc = "streamJoin" /\ pass.refresh \in Deliveries /\ co.reqGen \in Nat
  BY Parts DEF Typed, JoinStream
<1>1. CASE ~StreamDead
  <2>1. UNCHANGED <<auth, queue, stream, co>>
    BY <1>1 DEF JoinStream
  <2>2. DispTold
    BY <1>0 DEF DispTold, DispKept
  <2>3. QED
    BY <1>0, <2>1, <2>2, PassAloof
<1>2. CASE StreamDead
  <2>1. /\ auth' = Stopped(auth, "stream", stream.receipt.life)
        /\ stream' = [stream EXCEPT !.worker = FALSE, !.stopping = FALSE, !.receipt = NoReceipt]
        /\ \/ co' = w.co /\ queue' = Append(queue, w.item)
           \/ co' = c /\ UNCHANGED queue
    BY <1>2 DEF JoinStream
  <2>2. /\ SameRest(auth, auth') /\ Others(auth, auth', "stream") /\ Sound(auth')
        /\ auth'.lanes["stream"].lives = auth.lanes["stream"].lives
        /\ ~auth'.lanes["stream"].running /\ auth'.lanes["stream"].requested = NoReceipt
        /\ auth' \in Authorities
    <3>1. stream.receipt.life = auth.lanes["stream"].life /\ ~auth.lanes["stream"].running
          /\ Sound(auth)
      BY <1>0 DEF LifeInv, Facts, LaneTruth
    <3>2. Stopped(auth, "stream", stream.receipt.life) \in Authorities
      BY <1>0, Names, StoppedFacts DEF Advances
    <3>3. LET b == Stopped(auth, "stream", stream.receipt.life) IN
          /\ SameRest(auth, b) /\ Others(auth, b, "stream") /\ (Sound(auth) => Sound(b))
          /\ b.lanes["stream"].lives = auth.lanes["stream"].lives
          /\ ~b.lanes["stream"].running /\ b.lanes["stream"].requested = NoReceipt
      BY <1>0, <3>1, Names, FreedLane
    <3>4. QED
      BY <2>1, <3>1, <3>2, <3>3
  <2>3. /\ c \in CoS /\ c.reqGen = co.reqGen
        /\ i \in Items /\ i.kind = "refresh"
    BY <1>0, Names, ItemTyped DEF CoS, Kinds, Item
  <2> HIDE DEF c, i
  <2>4. /\ w.co.reqGen = c.reqGen /\ w.item \in Items /\ w.item.kind = "refresh"
    BY <1>0, <2>3, AwaitedKeeps
  <2> HIDE DEF w
  <2>5. /\ stream'.tracked = stream.tracked /\ stream'.receipt = NoReceipt /\ ~stream'.worker
        /\ stream'.pc = stream.pc /\ stream'.fifo = stream.fifo
        /\ stream'.carried = stream.carried /\ co'.reqGen = co.reqGen
    BY <1>0, <2>1, <2>3, <2>4 DEF StreamS
  <2>6. \/ queue' = queue
        \/ \E x \in Items : x.kind = "refresh" /\ queue' = Append(queue, x)
    BY <2>1, <2>4
  <2>7. FlightKept
    BY <2>5, <2>6, QueueKept DEF Facts, SourceTruth, Joins, Batch
  <2>8. ModeTruth'
    BY <1>0, <2>5, <2>6, ModeKept DEF Facts
  <2>9. stream.pc = "idle"
    BY <1>2 DEF StreamDead, Facts, StreamTruth
  <2>10. auth'.lanes["roster"] = auth.lanes["roster"] /\ auth.lanes["stream"].lives \in Nat
    BY <1>0, <2>2, Names, Fields, LaneFields DEF Others
  <2>11. LaneTruth'
    BY <1>0, <2>2, <2>5, <2>10 DEF Facts, LaneTruth, SameRest
  <2>12. StreamTruth'
    BY <2>5, <2>9 DEF StreamTruth
  <2>13. LaneHeld(auth, auth', "roster")
    BY <2>2, <2>10 DEF LaneHeld, SameRest
  <2>14. DiscoveryTruth'
    BY <1>0, <2>13, WorkersKept DEF Facts
  <2>15. RosterTruth'
    <3>1. InSync("roster")' => InSync("roster")
      BY <1>0, <2>2, <2>10 DEF InSync, SyncedIn, SameRest
    <3>2. QED
      BY <1>0, <2>7, <2>13, <3>1, RosterKept DEF Facts, FlightKept
  <2>16. SourceTruth'
    <3>1. auth'.lanes["stream"].lives >= auth.lanes["stream"].lives
      BY <2>2, <2>10
    <3>2. QED
      BY <2>2, <2>5, <2>7, <3>1, Stamp0, SourceAnew DEF Facts, Ended
  <2>17. Reports
    BY <1>0, <2>5 DEF Reports, SealHeld
  <2>18. QED
    BY <2>8, <2>11, <2>12, <2>14, <2>15, <2>16, <2>17 DEF Facts
<1>3. QED
  BY <1>1, <1>2

\* A lane that is begun is in sync with nothing that came before.
LEMMA BegunLane ==
    ASSUME NEW a \in Authorities, NEW l \in Lanes, ~a.closed
    PROVE  LET b == Begin(a, l) IN
           /\ SameRest(a, b) /\ Others(a, b, l) /\ (Sound(a) => Sound(b))
           /\ b \in Authorities /\ b.lanes[l].lives = a.lanes[l].lives + 1
           /\ b.lanes[l].requested \in Stamps
           /\ b.lanes[l].requested.life = a.lanes[l].lives + 1
           /\ b.lanes[l].requested.life # 0
           /\ b.lanes[l].applied # b.lanes[l].requested.order
           /\ a.lanes[l].lives \in Nat /\ Granted(b, l) = b.lanes[l].requested
           /\ \A t : ~Current(b, t)
<1> DEFINE b == Begin(a, l)
<1>1. b \in Authorities
  BY BeginFacts DEF Advances
<1>2. /\ SameRest(a, b) /\ Others(a, b, l) /\ (Sound(a) => Sound(b))
      /\ b.lanes[l].lives = a.lanes[l].lives + 1 /\ b.lanes[l].applied = 0
      /\ b.lanes[l].requested = [life |-> a.lanes[l].lives + 1, order |-> 1]
  BY LaneEffects
<1> HIDE DEF b
<1>3. a.lanes[l].lives \in Nat /\ b.lanes[l].requested \in Stamps
  BY <1>1, Fields, LaneFields
<1>4. /\ b.lanes[l].requested.life = a.lanes[l].lives + 1
      /\ b.lanes[l].requested.life # 0
      /\ b.lanes[l].applied # b.lanes[l].requested.order
  BY <1>2, <1>3
<1>5. Granted(b, l) = b.lanes[l].requested
  BY <1>2 DEF Granted, SameRest
<1>6. \A t : ~Current(b, t)
  BY <1>4 DEF Current, Complete
<1>7. QED
  BY <1>1, <1>2, <1>3, <1>4, <1>5, <1>6 DEF b

\* A discovery begins, or goes on with the lifetime that it has.
LEMMA StartDiscoveryTrue ==
    ASSUME Typed, LifeInv, Facts, StartDiscovery
    PROVE  Facts' /\ Reports
<1>0. /\ auth \in Authorities /\ disc \in DiscS /\ co \in CoS /\ disp \in DispS
      /\ UNCHANGED <<queue, stream, disp, ticket, tally>>
  BY Parts DEF Typed, StartDiscovery
<1>1. DispKept /\ FlightKept
  BY <1>0, QueueKept DEF DispKept, Facts, SourceTruth
<1>2. CASE auth.closed
  <2>1. UNCHANGED <<auth, disc, co>>
    BY <1>2 DEF StartDiscovery
  <2>2. DispTold
    BY <1>0 DEF DispTold, DispKept
  <2>3. QED
    BY <1>0, <2>1, <2>2, PassAloof
<1>3. ASSUME ~auth.closed PROVE co'.reqGen = co.reqGen
  BY <1>0, <1>3 DEF StartDiscovery, CoS
<1>4. CASE ~auth.closed /\ disc.receipt # NoReceipt
  <2>1. auth' = auth /\ disc' = [disc EXCEPT !.worker = TRUE, !.receipt = disc.receipt]
    BY <1>4 DEF StartDiscovery
  <2>2. CoreKept /\ disc'.worker /\ disc'.pc = disc.pc /\ disc'.op = disc.op
    BY <1>0, <2>1 DEF CoreKept, DiscS
  <2>3. Calm(auth, auth')
    BY <1>0, <2>1, CalmMethods, Names
  <2>4. LaneTruth' /\ RosterTruth' /\ SourceTruth'
    BY <1>1, <2>2, <2>3, AloofCalm DEF Facts
  <2>5. StreamTruth'
    BY <1>0, <2>3, WorkersCalm, WorkersKept DEF Facts
  <2>6. disc.receipt.life # 0
    BY <1>0, <1>4, Names DEF Facts, LaneTruth, Sound, LaneSound
  <2>7. DiscoveryTruth'
    BY <2>1, <2>2, <2>6 DEF Facts, DiscoveryTruth, CoreKept
  <2>8. ModeTruth'
    BY <1>0, <1>3, <1>4, ModeKept DEF Facts
  <2>9. Reports
    BY <1>0, <1>3, <1>4, <2>2 DEF Reports, SealHeld, CoreKept
  <2>10. QED
    BY <2>4, <2>5, <2>7, <2>8, <2>9 DEF Facts
<1>5. CASE ~auth.closed /\ disc.receipt = NoReceipt
  <2>1. /\ auth' = Begin(auth, "roster")
        /\ disc' = [disc EXCEPT !.worker = TRUE, !.receipt = Granted(auth', "roster")]
    BY <1>5 DEF StartDiscovery
  <2>2. /\ SameRest(auth, auth') /\ Others(auth, auth', "roster")
        /\ (Sound(auth) => Sound(auth'))
        /\ auth' \in Authorities
        /\ auth'.lanes["roster"].lives = auth.lanes["roster"].lives + 1
        /\ auth'.lanes["roster"].requested \in Stamps
        /\ auth'.lanes["roster"].requested.life = auth.lanes["roster"].lives + 1
        /\ auth'.lanes["roster"].requested.life # 0
        /\ auth'.lanes["roster"].applied # auth'.lanes["roster"].requested.order
        /\ auth.lanes["roster"].lives \in Nat
        /\ Granted(auth', "roster") = auth'.lanes["roster"].requested
        /\ Void
    BY <1>0, <1>5, <2>1, Names, BegunLane DEF Void
  <2>3. /\ disc'.gen = disc.gen /\ disc'.session = disc.session /\ disc'.latest = disc.latest
        /\ disc'.receipt = auth'.lanes["roster"].requested /\ disc'.pc = disc.pc
    BY <1>0, <2>1, <2>2 DEF DiscS
  <2>4. disc.pc = "idle"
    BY <1>5 DEF Facts, DiscoveryTruth, NoReceipt
  <2>5. auth'.lanes["stream"] = auth.lanes["stream"]
    BY <2>2, Names DEF Others
  <2>6. LaneTruth'
    BY <1>0, <2>2, <2>3, <2>5 DEF Facts, LaneTruth, SameRest
  <2>7. DiscoveryTruth'
    BY <2>2, <2>3, <2>4 DEF DiscoveryTruth
  <2>8. LaneHeld(auth, auth', "stream")
    BY <2>2, <2>5 DEF LaneHeld, SameRest
  <2>9. StreamTruth'
    BY <1>0, <2>8, WorkersKept DEF Facts
  <2>10. RosterTruth'
    <3>1. /\ auth'.lanes["roster"].lives >= auth.lanes["roster"].lives
          /\ Anew("roster", disc'.receipt) /\ disc'.receipt \in Stamps
      BY <2>2, <2>3 DEF Anew
    <3>2. QED
      BY <1>1, <2>2, <2>3, <3>1, RosterAnew DEF Facts, FlightKept
  <2>11. SourceTruth'
    <3>1. InSync("stream")' => InSync("stream")
      BY <1>0, <2>2, <2>5 DEF InSync, SyncedIn, SameRest
    <3>2. InSync("stream") => disp.source \in {0, stream.tracked}
      BY DEF Facts, SourceTruth
    <3>3. QED
      BY <1>0, <1>1, <2>8, <3>1, <3>2, SourceKept DEF Facts
  <2>12. ModeTruth'
    BY <1>0, <1>3, <1>5, ModeKept DEF Facts
  <2>13. Reports
    BY <1>0, <2>2 DEF Reports
  <2>14. QED
    BY <2>6, <2>7, <2>9, <2>10, <2>11, <2>12, <2>13 DEF Facts
<1>6. QED
  BY <1>2, <1>4, <1>5

\* The log worker begins, and tracks nothing yet.
LEMMA StartStreamTrue ==
    ASSUME Typed, LifeInv, FlowInv, Facts, StartStream
    PROVE  Facts' /\ Reports
<1> DEFINE i == Item("ready", 0, 0, NoDelivery, 0)
<1>0. /\ auth \in Authorities /\ stream \in StreamS /\ co \in CoS /\ disp \in DispS
      /\ UNCHANGED <<disc, disp, ticket, tally>>
  BY Parts DEF Typed, StartStream
<1>1. i \in Items /\ i.kind = "ready"
  BY Stamp0, ItemTyped DEF Kinds, Item
<1> HIDE DEF i
<1>2. CASE auth.closed
  <2>1. UNCHANGED <<auth, queue, stream, co>>
    BY <1>2 DEF StartStream
  <2>2. DispTold
    BY <1>0 DEF DispTold, DispKept
  <2>3. QED
    BY <1>0, <2>1, <2>2, PassAloof
<1>3. CASE ~auth.closed
  <2>1. /\ auth' = Begin(auth, "stream")
        /\ stream' = [stream EXCEPT !.worker = TRUE, !.tracked = 0,
                                    !.receipt = Granted(auth', "stream")]
        /\ co' = [co EXCEPT !.folder = pass.folder, !.streamSub = TRUE]
        /\ queue' = Append(queue, i)
    BY <1>3 DEF StartStream, i
  <2>2. /\ SameRest(auth, auth') /\ Others(auth, auth', "stream")
        /\ (Sound(auth) => Sound(auth'))
        /\ auth' \in Authorities
        /\ auth'.lanes["stream"].lives = auth.lanes["stream"].lives + 1
        /\ auth'.lanes["stream"].requested \in Stamps
        /\ auth'.lanes["stream"].requested.life = auth.lanes["stream"].lives + 1
        /\ auth'.lanes["stream"].requested.life # 0
        /\ auth'.lanes["stream"].applied # auth'.lanes["stream"].requested.order
        /\ auth.lanes["stream"].lives \in Nat
        /\ Granted(auth', "stream") = auth'.lanes["stream"].requested
        /\ Void
    BY <1>0, <1>3, <2>1, Names, BegunLane DEF Void
  <2>3. /\ stream'.receipt = auth'.lanes["stream"].requested /\ stream'.pc = stream.pc
        /\ stream'.fifo = stream.fifo /\ stream'.carried = stream.carried
        /\ co'.reqGen = co.reqGen
    BY <1>0, <2>1, <2>2 DEF StreamS, CoS
  <2>4. stream.pc = "idle"
    <3>1. stream.receipt.life = 0
      BY DEF StartStream, FlowInv, Flow, LifeInv
    <3>2. QED
      BY <3>1 DEF Facts, StreamTruth
  <2>5. auth'.lanes["roster"] = auth.lanes["roster"]
    BY <2>2, Names DEF Others
  <2>6. LaneTruth'
    BY <1>0, <2>2, <2>3, <2>5 DEF Facts, LaneTruth, SameRest
  <2>7. StreamTruth'
    BY <2>2, <2>3, <2>4 DEF StreamTruth
  <2>8. LaneHeld(auth, auth', "roster")
    BY <2>2, <2>5 DEF LaneHeld, SameRest
  <2>9. DiscoveryTruth'
    BY <1>0, <2>8, WorkersKept DEF Facts
  <2>10. FlightKept
    BY <1>1, <2>1, <2>3, QueueKept DEF Facts, SourceTruth, Joins, Batch
  <2>11. RosterTruth'
    <3>1. InSync("roster")' => InSync("roster")
      BY <1>0, <2>2, <2>5 DEF InSync, SyncedIn, SameRest
    <3>2. QED
      BY <1>0, <2>8, <2>10, <3>1, RosterKept DEF Facts, FlightKept
  <2>12. SourceTruth'
    <3>1. /\ auth'.lanes["stream"].lives >= auth.lanes["stream"].lives
          /\ Anew("stream", stream'.receipt) /\ stream'.receipt \in Stamps
      BY <2>2, <2>3 DEF Anew
    <3>2. QED
      BY <2>2, <2>10, <3>1, SourceAnew DEF Facts
  <2>13. ModeTruth'
    BY <1>0, <1>1, <2>1, <2>3, ModeKept DEF Facts
  <2>14. Reports
    BY <1>0, <2>2 DEF Reports
  <2>15. QED
    BY <2>6, <2>7, <2>9, <2>11, <2>12, <2>13, <2>14 DEF Facts
<1>4. QED
  BY <1>2, <1>3

\* The cut that ends a reset leaves its boundary pending.
LEMMA CutCarries ==
    ASSUME NEW a \in Authorities
    PROVE  Carries(a, Cut(a)) /\ Cut(a) \in Authorities
<1>1. a.pending \in Nat /\ Calm(a, a)
  BY Fields, CalmMethods, Names
<1>2. /\ Steady(a, ResetApplied(a, a.pending))
      /\ LanesCalm(a, ResetApplied(a, a.pending))
      /\ ResetApplied(a, a.pending).pending = a.pending
  BY <1>1, Methods, Names, ResetEffects
<1>3. Carries(a, a) /\ Carries(a, ResetApplied(a, a.pending))
  BY <1>1, <1>2, CarriesFacts DEF Carries
<1>4. QED
  BY <1>2, <1>3 DEF Cut, Steady, Advances

-----------------------------------------------------------------------------
(* Modes and the dispatcher's end *)

\* A receipt of control that is to come voids every ticket.
LEMMA ReservedVoid ==
    ASSUME NEW a \in Authorities, NEW receipt \in Stamps, ~a.closed, Sound(a),
           receipt.life = a.lanes["control"].life
    PROVE  \A t : ~Current(ReserveControl(a, receipt).auth, t)
<1> DEFINE b == IF receipt = NoReceipt THEN Begin(a, "control") ELSE a
           r == IF receipt = NoReceipt THEN Granted(b, "control") ELSE receipt
           c == StartOperation(b, "control", r.life)
           d == Reserve(c, "control", r.life)
           owned == r # NoReceipt /\ Owns(b, "control", r.life)
<1>1. Calm(a, b) /\ b \in Authorities
  BY CalmControl, CalmMethods, BeginFacts, Names DEF Advances
<1>2. ReserveControl(a, receipt).auth = IF owned THEN d ELSE b
  BY DEF ReserveControl
<1>3. r \in Stamps /\ r.life \in Nat
  <2>1. r \in Stamps
    BY <1>1, Names, Fields, LaneFields, Stamp0 DEF Granted
  <2>2. QED
    BY <2>1 DEF Stamps
<1>4. CASE receipt = NoReceipt /\ ~owned
  <2>1. \A t : ~Current(Begin(a, "control"), t)
    BY Names, BegunLane
  <2>2. QED
    BY <1>2, <1>4, <2>1
<1>5. CASE receipt # NoReceipt /\ ~owned
  <2>1. ~a.lanes["control"].running
    BY <1>5 DEF Owns
  <2>2. QED
    BY <1>2, <1>5, <2>1, Names DEF Current, Complete
<1>6. CASE owned
  <2> HIDE DEF b, r
  <2>1. Calm(b, c) /\ c \in Authorities
    BY <1>1, <1>3, Names, CalmMethods, Methods DEF Steady, Advances
  <2>2. Owns(c, "control", r.life)
    <3>1. Steady(b, c)
      BY <1>1, <1>3, Names, Methods
    <3>2. c.lanes["control"].running = b.lanes["control"].running
      BY <1>1, <1>3, Names, StartOperationFacts
    <3> HIDE DEF c
    <3>3. QED
      BY <1>6, <3>1, <3>2, Names DEF Owns, Steady, SameLives
  <2>3. Sound(c)
    <3>1. Sound(b)
      BY <1>1 DEF Calm, LanesCalm
    <3>2. QED
      BY <2>1, <3>1 DEF Calm, LanesCalm
  <2> HIDE DEF c
  <2>4. d = ReserveLocked(c, "control")
    BY <2>2 DEF Reserve
  <2>5. /\ d.lanes["control"].applied = c.lanes["control"].applied
        /\ d.lanes["control"].requested
              = [life |-> c.lanes["control"].life, order |-> c.lanes["control"].requested.order + 1]
    <3>1. \A x \in Authorities : \A l \in Lanes : LET y == ReserveLocked(x, l) IN
             /\ y.lanes[l].applied = x.lanes[l].applied
             /\ y.lanes[l].requested = [life |-> x.lanes[l].life,
                                        order |-> x.lanes[l].requested.order + 1]
      BY LaneEffects
    <3>2. QED
      BY <2>1, <2>4, <3>1, Names
  <2>6. /\ c.lanes["control"].applied <= c.lanes["control"].requested.order
        /\ c.lanes["control"].applied \in Nat /\ c.lanes["control"].requested.order \in Nat
    <3>1. c.lanes["control"] \in LaneStates /\ LaneSound(c.lanes["control"])
      BY <2>1, <2>3, Names, Fields DEF Sound
    <3>2. QED
      BY <3>1, LaneFields DEF LaneSound, Stamps
  <2> HIDE DEF d
  <2>7. d.lanes["control"].applied # d.lanes["control"].requested.order
    BY <2>5, <2>6
  <2>8. \A t : ~Current(d, t)
    BY <2>7, Names DEF Current, Complete
  <2>9. QED
    BY <1>2, <1>6, <2>8
<1>7. QED
  BY <1>4, <1>5, <1>6

\* Another mode is asked for: it joins the queue, and every ticket is void.
LEMMA ReconcileTrue ==
    ASSUME Typed, LifeInv, Facts, Reconcile
    PROVE  Facts' /\ Reports
<1>1. PICK fleet \in FleetChoices, previews \in PreviewChoices,
           folder \in IF co.folder = 0 THEN {1} ELSE 1..Folders :
         LET wanted == fleet \/ previews
             r == ReserveControl(auth, co.control)
             gen == co.reqGen + 1
             w == Awaited([co EXCEPT !.requested = fleet, !.reqGen = gen,
                                     !.control = r.receipt],
                          Item("mode", gen, IF fleet THEN 1 ELSE 0, r.delivery, 0),
                          gen)
             p == [pc |-> "dispatcher", fleet |-> fleet, previews |-> previews,
                   disc |-> wanted, folder |-> IF wanted THEN folder ELSE 0,
                   refresh |-> NoDelivery]
         IN  /\ pass' = IF wanted THEN p ELSE AtDisc(co, p)
             /\ IF fleet = co.requested
                THEN UNCHANGED <<auth, queue, co>>
                ELSE /\ auth' = r.auth
                     /\ co' = w.co
                     /\ queue' = Append(queue, w.item)
  BY DEF Reconcile
<1> DEFINE r == ReserveControl(auth, co.control)
           gen == co.reqGen + 1
           m == [co EXCEPT !.requested = fleet, !.reqGen = gen, !.control = r.receipt]
           i == Item("mode", gen, IF fleet THEN 1 ELSE 0, r.delivery, 0)
           w == Awaited(m, i, gen)
<1>2. /\ auth \in Authorities /\ co.control \in Stamps /\ co \in CoS /\ queue \in Seq(Items)
      /\ gen \in Nat /\ fleet \in BOOLEAN /\ disp \in DispS
      /\ co.control.life = auth.lanes["control"].life
      /\ UNCHANGED <<disc, stream, disp, ticket>> /\ ~auth.closed
  BY <1>1, Parts DEF Typed, LifeInv, Reconcile
<1>3. DispTold
  BY <1>2 DEF DispTold, DispKept
<1>4. CASE fleet = co.requested
  BY <1>1, <1>2, <1>3, <1>4, PassAloof
<1>5. CASE fleet # co.requested
  <2>1. auth' = r.auth /\ co' = w.co /\ queue' = Append(queue, w.item)
    BY <1>1, <1>5
  <2>2. Calm(auth, auth') /\ Void
    BY <1>2, <2>1, CalmReserveControl, ReservedVoid DEF Void, Facts, LaneTruth
  <2>3. r.receipt \in Stamps /\ r.delivery \in Deliveries
    BY <1>2, ReserveControlFacts
  <2> HIDE DEF r, gen
  <2>4. m \in CoS /\ m.reqGen = gen
    BY <1>2, <2>3 DEF CoS
  <2>5. i \in Items /\ i.kind = "mode" /\ i.gen = gen
    <3>1. (IF fleet THEN 1 ELSE 0) \in Nat
      OBVIOUS
    <3>2. i \in Items
      BY <1>2, <2>3, <3>1, ItemTyped DEF Kinds
    <3>3. QED
      BY <3>2 DEF Item
  <2> HIDE DEF m, i
  <2>6. w.co.reqGen = gen /\ w.item \in Items /\ w.item.kind = "mode" /\ w.item.gen = gen
    BY <1>2, <2>4, <2>5, AwaitedKeeps
  <2> HIDE DEF w
  <2>7. FlightKept
    BY <1>2, <2>1, <2>6, QueueKept DEF Facts, SourceTruth, Joins, Batch
  <2>8. ModeTruth'
    <3>1. Lately(Append(queue, w.item), gen) /\ Awaits(Append(queue, w.item), gen)
      BY <1>2, <2>6, ModeQueue
    <3>2. QED
      BY <2>1, <2>6, <3>1 DEF ModeTruth
  <2>9. SealHeld /\ WorkersLeft /\ DispKept
    BY <1>2, <1>3 DEF SealHeld, WorkersLeft, CoreKept, DispTold
  <2>10. QED
    BY <1>2, <2>2, <2>7, <2>8, <2>9, PassCalm
<1>6. QED
  BY <1>4, <1>5

\* A finalization is a reset, whether it succeeds or not.
LEMMA FinalizedTrue ==
    ASSUME Typed, LifeInv
    PROVE  /\ LET f == Finalized IN
              /\ ResetsOnly(auth, f.auth)
              /\ ~f.auth.closed => f.disp.boundary = f.auth.pending
              /\ f.disp.restated = {} /\ ~f.disp.active /\ f.co.reqGen = co.reqGen
           /\ LET f == NotFinalized IN
              /\ ResetsOnly(auth, f.auth)
              /\ ~f.auth.closed => f.disp.boundary = f.auth.pending
              /\ f.disp.restated = {} /\ f.disp.active = disp.active
              /\ f.disp.activation = disp.activation
<1> DEFINE a == ResetStarted(auth)
           b == Cut(a)
           life == co.control.life
           c == Stop(b, "control", life)
           e == Stopped(c, "control", life)
           d == [Cleared(disp) EXCEPT
                   !.worker = FALSE, !.stopping = FALSE, !.boundary = Boundary(a),
                   !.restated = {}, !.asked = FALSE, !.known = 0,
                   !.active = FALSE, !.activation = 0, !.rosterGen = 0,
                   !.complete = FALSE]
           k == [co EXCEPT !.completion = NoCompletion, !.control = NoReceipt,
                           !.requested = FALSE]
           n == [disp EXCEPT !.boundary = Boundary(a), !.restated = {}, !.asked = FALSE]
<1>0. auth \in Authorities /\ disp \in DispS /\ co \in CoS /\ life \in Nat
  BY Parts DEF Typed
<1>1. /\ Finalized = [auth |-> e, disp |-> d, co |-> k]
      /\ NotFinalized = [auth |-> Poison(a), disp |-> n]
  BY DEF Finalized, NotFinalized
<1>2. /\ ResetsOnly(auth, a) /\ a \in Authorities /\ Boundary(a) \in Nat
      /\ ~a.closed => Boundary(a) = a.pending
  <2>1. a \in Authorities /\ Boundary(a) \in Nat
    BY <1>0, Methods, Names, ResetStartedFacts DEF Steady, Advances
  <2>2. QED
    BY <1>0, <2>1, ResetEffects DEF Boundary
<1>3. /\ d.boundary = Boundary(a) /\ d.restated = {} /\ ~d.active
      /\ n.boundary = Boundary(a) /\ n.restated = {}
      /\ n.active = disp.active /\ n.activation = disp.activation
      /\ k.reqGen = co.reqGen
  BY <1>0, <1>2 DEF Cleared, DispS, CoS
<1> HIDE DEF a, d, k, n, life
<1>4. Carries(a, b) /\ b \in Authorities
  BY <1>2, CutCarries
<1> HIDE DEF b
<1>5. Carries(b, c) /\ c \in Authorities
  <2>1. Calm(b, c) /\ Steady(b, c)
    BY <1>0, <1>4, CalmMethods, Methods, Names
  <2>2. QED
    BY <2>1, CarriesFacts DEF Steady, Advances
<1> HIDE DEF c
<1>6. Carries(c, e)
  BY <1>0, <1>5, CalmControl, CarriesFacts
<1> HIDE DEF e
<1>7. Carries(a, e) /\ Carries(a, Poison(a))
  <2>1. Carries(a, c)
    BY <1>4, <1>5, CarriesFacts
  <2>2. Carries(a, e)
    BY <1>6, <2>1, CarriesFacts
  <2>3. Carries(a, Poison(a))
    BY <1>2, CalmMethods, CarriesFacts, Names
  <2>4. QED
    BY <2>2, <2>3
<1>8. \A x : Carries(a, x) => ResetsOnly(auth, x) /\ (~x.closed => Boundary(a) = x.pending)
  BY <1>2, CarriesFacts DEF Carries, LanesCalm
<1>9. /\ Finalized.auth = e /\ Finalized.disp = d /\ Finalized.co = k
      /\ NotFinalized.auth = Poison(a) /\ NotFinalized.disp = n
  BY <1>1
<1>10. QED
  BY <1>3, <1>7, <1>8, <1>9

\* A finalization that fails is a reset as well.
LEMMA NotFinalizedTrue ==
    ASSUME Typed, LifeInv, Facts, auth' = NotFinalized.auth, disp' = NotFinalized.disp,
           UNCHANGED <<queue, disc, stream, co, ticket>>
    PROVE  Facts' /\ Reports
<1>1. /\ ResetsOnly(auth, auth') /\ (~auth'.closed => disp'.boundary = auth'.pending)
      /\ disp'.restated = {} /\ disp'.active = disp.active
      /\ disp'.activation = disp.activation
  BY FinalizedTrue
<1>2. FlightKept
  BY QueueKept DEF Facts, SourceTruth
<1>3. ModeTruth'
  BY <1>1, ModeKept DEF Facts
<1>4. QED
  BY <1>1, <1>2, <1>3, PassReset

\* Nothing is said of a step that changes nothing.
LEMMA Unmoved ==
    ASSUME Typed, Facts, SealTruth, TicketTruth, UNCHANGED vars
    PROVE  Facts' /\ SealTruth' /\ TicketTruth'
<1>1. /\ UNCHANGED <<auth, queue, disc, stream, disp, co, ticket>>
  BY DEF vars
<1>2. DispTold
  BY <1>1 DEF DispTold, DispKept
<1>3. Facts'
  BY <1>1, <1>2, PassAloof
<1>4. SealTruth' /\ TicketTruth'
  BY <1>1 DEF SealTruth, TicketTruth, HoldsCurrent
<1>5. QED
  BY <1>3, <1>4

\* The dispatcher is started, and a dead one finalized before.
LEMMA StartDispatcherTrue ==
    ASSUME Typed, LifeInv, Facts, StartDispatcher
    PROVE  Facts' /\ Reports
<1> DEFINE f == Finalized
           r == ReserveControl(f.auth, NoReceipt)
           m == [f.co EXCEPT !.requested = TRUE, !.control = r.receipt]
           i == Item("mode", co.reqGen, 1, r.delivery, 0)
           w == Awaited(m, i, co.reqGen)
<1>0. /\ auth \in Authorities /\ disp \in DispS /\ co \in CoS /\ co.reqGen \in Nat
      /\ UNCHANGED <<disc, stream, ticket>>
  BY Parts DEF Typed, StartDispatcher
<1>1. CASE /\ disp' = disp \/ disp' = NewDispatcher(disp)
           /\ UNCHANGED <<auth, queue, co, tally>>
  <2>1. DispTold
    BY <1>0, <1>1 DEF DispTold, DispKept, NewDispatcher, DispS
  <2>2. QED
    BY <1>0, <1>1, <2>1, PassAloof
<1>2. CASE /\ disp' = NewDispatcher(f.disp)
           /\ \/ auth' = r.auth /\ co' = w.co /\ queue' = <<w.item>>
              \/ auth' = f.auth /\ co' = f.co /\ queue' = <<>>
  <2>1. /\ ResetsOnly(auth, f.auth) /\ (~f.auth.closed => f.disp.boundary = f.auth.pending)
        /\ f.disp.restated = {} /\ ~f.disp.active /\ f.co.reqGen = co.reqGen
        /\ f.auth \in Authorities /\ f.disp \in DispS /\ f.co \in CoS
        /\ f.auth.lanes["control"].life = 0
    BY FinalizedTrue, FinalizedFacts
  <2> HIDE DEF f
  <2>2. NoReceipt \in Stamps /\ NoReceipt.life = 0
    BY Stamp0 DEF NoReceipt
  <2>3. Calm(f.auth, r.auth) /\ r.receipt \in Stamps /\ r.delivery \in Deliveries
    BY <2>1, <2>2, CalmReserveControl, ReserveControlFacts
  <2> HIDE DEF r
  <2>4. m \in CoS /\ m.reqGen = co.reqGen
    BY <2>1, <2>3 DEF CoS
  <2>5. i \in Items /\ i.kind = "mode" /\ i.gen = co.reqGen
    <3>1. i \in Items
      BY <1>0, <2>3, ItemTyped DEF Kinds
    <3>2. QED
      BY <3>1 DEF Item
  <2> HIDE DEF m, i
  <2>6. /\ w.co.reqGen = co.reqGen /\ w.item \in Items /\ w.item.kind = "mode"
        /\ w.item.gen = co.reqGen
    BY <1>0, <2>4, <2>5, AwaitedKeeps
  <2> HIDE DEF w
  <2>7. /\ ResetsOnly(auth, auth') /\ (~auth'.closed => f.disp.boundary = auth'.pending)
        /\ co'.reqGen = co.reqGen
        /\ queue' = <<>> \/ \E x \in Items : /\ x.kind = "mode" /\ x.gen = co.reqGen
                                             /\ queue' = <<x>>
    <3>1. Carries(f.auth, r.auth) /\ ResetsOnly(auth, r.auth)
      BY <2>1, <2>3, CarriesFacts
    <3>2. ~r.auth.closed => f.disp.boundary = r.auth.pending
      BY <2>1, <3>1 DEF Carries, LanesCalm
    <3>3. QED
      BY <1>2, <2>1, <2>6, <3>1, <3>2
  <2>8. /\ disp'.boundary = f.disp.boundary /\ disp'.restated = {} /\ ~disp'.active
    BY <1>2, <2>1 DEF NewDispatcher, DispS
  <2>9. FlightKept
    BY <1>0, <2>7, QueueKept DEF Facts, SourceTruth, Joins, Batch
  <2>10. ModeTruth'
    <3>1. queue \in Seq(Items)
      BY DEF Typed
    <3>2. /\ Lately(<<>>, co.reqGen)
          /\ \A x \in Items : x.kind = "mode" /\ x.gen = co.reqGen => Lately(<<x>>, co.reqGen)
      BY <3>1, ModeQueue
    <3>3. QED
      BY <2>7, <2>8, <3>2 DEF ModeTruth
  <2>11. QED
    BY <1>0, <2>7, <2>8, <2>9, <2>10, PassReset
<1>3. CASE /\ auth' = NotFinalized.auth /\ disp' = NotFinalized.disp
           /\ UNCHANGED <<queue, co>>
  BY <1>0, <1>3, NotFinalizedTrue
<1>4. QED
  BY <1>1, <1>2, <1>3 DEF StartDispatcher

\* The dispatcher is waited for, and finalized.
LEMMA JoinDispatcherTrue ==
    ASSUME Typed, LifeInv, Facts, JoinDispatcher
    PROVE  Facts' /\ Reports
<1>0. disp \in DispS /\ UNCHANGED <<disc, stream, ticket>>
  BY DEF Typed, JoinDispatcher
<1>1. CASE UNCHANGED <<auth, queue, disp, co, tally>>
  <2>1. DispTold
    BY <1>1 DEF DispTold, DispKept
  <2>2. QED
    BY <1>0, <1>1, <2>1, PassAloof
<1>2. CASE /\ auth' = Finalized.auth /\ disp' = Finalized.disp
           /\ co' = Finalized.co /\ queue' = <<>>
  <2>1. /\ ResetsOnly(auth, auth') /\ (~auth'.closed => disp'.boundary = auth'.pending)
        /\ disp'.restated = {} /\ ~disp'.active /\ co'.reqGen = co.reqGen
    BY <1>2, FinalizedTrue
  <2>2. FlightKept
    BY <1>0, <1>2, QueueKept DEF Facts, SourceTruth
  <2>3. ModeTruth'
    BY <1>2, <2>1 DEF ModeTruth, Lately
  <2>4. QED
    BY <1>0, <2>1, <2>2, <2>3, PassReset
<1>3. CASE /\ auth' = NotFinalized.auth /\ disp' = NotFinalized.disp
           /\ UNCHANGED <<queue, co>>
  BY <1>0, <1>3, NotFinalizedTrue
<1>4. QED
  BY <1>1, <1>2, <1>3 DEF JoinDispatcher

-----------------------------------------------------------------------------
(* What is admitted is true *)

\* Every step keeps the facts, and what subscribers were told true.
LEMMA TruthSteps ==
    ASSUME IInv, Facts, SealTruth, TicketTruth, Next
    PROVE  Facts' /\ SealTruth' /\ TicketTruth'
<1>0. Typed /\ DrainInv /\ LifeInv /\ FlowInv
  BY DEF IInv
<1>1. ASSUME Facts' /\ Reports PROVE Facts' /\ SealTruth' /\ TicketTruth'
  BY <1>1, TicketsTrue
<1>2. CASE Discovery
  BY <1>0, <1>1, <1>2, ScanBeginTrue, ScanCommitTrue, ScanDeliverTrue DEF Discovery
<1>3. CASE LogWorker
  BY <1>0, <1>1, <1>3, WorkBeginTrue, WorkTrue, DrainTakeTrue, DrainPutTrue DEF LogWorker
<1>4. CASE Dispatcher
  <2>1. CASE TakeRoster \/ TakeBatch \/ TakeControl \/ Reset \/ Prime
    BY <1>0, <1>1, <2>1, TakeRosterTrue, TakeBatchTrue, TakeControlTrue, ResetTrue, PrimeTrue
  <2>2. CASE Republish \/ AskStream
    BY <1>0, <1>1, <2>2, RepublishTrue, AskStreamTrue
  <2>3. CASE PublishCapture
    BY <2>3, PublishCaptureTrue
  <2>4. CASE PublishSeal
    BY <2>4, PublishSealTrue
  <2>5. QED
    BY <1>4, <2>1, <2>2, <2>3, <2>4 DEF Dispatcher
<1>5. CASE Pass
  <2>1. CASE Reconcile \/ StartDispatcher
    BY <1>0, <1>1, <2>1, ReconcileTrue, StartDispatcherTrue
  <2>2. CASE AwaitReset \/ AwaitRefresh \/ StopDispatcher
    BY <1>0, <1>1, <2>2, WaitsTrue
  <2>3. CASE StopDiscovery \/ StopStream
    BY <1>0, <1>1, <2>3, StopsTrue
  <2>4. CASE JoinDiscovery \/ StartDiscovery \/ JoinDispatcher
    BY <1>0, <1>1, <2>4, JoinDiscoveryTrue, StartDiscoveryTrue, JoinDispatcherTrue
  <2>5. CASE JoinStream \/ StartStream
    BY <1>0, <1>1, <2>5, JoinStreamTrue, StartStreamTrue
  <2>6. QED
    BY <1>5, <2>1, <2>2, <2>3, <2>4, <2>5 DEF Pass
<1>6. CASE CloseAdmission
  BY <1>0, <1>1, <1>6, CloseTrue
<1>7. QED
  BY <1>2, <1>3, <1>4, <1>5, <1>6 DEF Next

\* The facts hold at the start: discovery has a receipt that nothing came with yet.
LEMMA TruthBegins == Init => Facts /\ SealTruth /\ TicketTruth
<1> SUFFICES ASSUME Init PROVE Facts /\ SealTruth /\ TicketTruth
  OBVIOUS
<1> DEFINE a == NewAuthority
<1>1. /\ a \in Authorities /\ ~a.closed /\ a.pending = 0
      /\ \A l \in Lanes : a.lanes[l] = NoOwner(0, NoOperation)
  BY NewTyped DEF NewAuthority
<1> HIDE DEF a
<1>2. Sound(a)
  <2>1. LaneSound(NoOwner(0, NoOperation))
    <3> DEFINE o == NoOwner(0, NoOperation)
    <3>1. /\ o.lives = 0 /\ o.life = 0 /\ o.running = FALSE
          /\ o.requested = NoReceipt /\ o.applied = 0
      BY DEF NoOwner
    <3>2. NoReceipt.life = 0 /\ NoReceipt.order = 0
      BY DEF NoReceipt
    <3> HIDE DEF o
    <3>3. LaneSound(o)
      BY <3>1, <3>2 DEF LaneSound
    <3>4. QED
      BY <3>3 DEF o
  <2>2. QED
    BY <1>1, <2>1 DEF Sound
<1>3. auth = Begin(a, "roster")
  BY DEF Init, a
<1>4. /\ SameRest(a, auth) /\ Others(a, auth, "roster") /\ Sound(auth)
      /\ auth.lanes["roster"].requested.life # 0
      /\ auth.lanes["roster"].applied # auth.lanes["roster"].requested.order
      /\ Granted(auth, "roster") = auth.lanes["roster"].requested
      /\ \A t : ~Current(auth, t)
  BY <1>1, <1>2, <1>3, Names, BegunLane
<1>5. auth.lanes["stream"] = NoOwner(0, NoOperation)
  BY <1>1, <1>4, Names DEF Others
<1>6. LaneTruth
  BY <1>1, <1>4, <1>5 DEF Init, LaneTruth, NoOwner, SameRest
<1>7. DiscoveryTruth /\ StreamTruth
  BY DEF Init, DiscoveryTruth, StreamTruth
<1>8. ModeTruth
  BY DEF Init, ModeTruth, Lately
<1>9. RosterTruth
  <2>1. \A x \in Items : ~Holds(queue, x)
    BY DEF Init, Holds
  <2>2. \A x \in Items : Told(x) => /\ x.gen = 0 /\ x.value = disc.session
                                    /\ x.d.receipt = NoReceipt
    BY <2>1 DEF Told, Latest, Init, Item, NoDelivery, Delivery
  <2>3. auth \in Authorities
    BY <1>1, <1>3, BeginFacts, Names DEF Advances
  <2>4. auth.lanes["roster"].lives \in Nat
    BY <2>3, Names, Fields, LaneFields
  <2>5. disc.gen = 0 /\ disc.receipt = auth.lanes["roster"].requested
    BY <1>4 DEF Init
  <2>6. \A x \in Items : Told(x) => Dated(x)
    BY <1>4, <2>2, <2>4, <2>5 DEF Dated, Issued, NoReceipt
  <2>7. \A x \in Items : Told(x) => x.d.receipt # disc.receipt
    BY <1>4, <2>2, <2>5 DEF NoReceipt
  <2>8. ~InSync("roster")
    BY <1>4 DEF InSync, SyncedIn
  <2>9. QED
    BY <2>6, <2>7, <2>8 DEF RosterTruth
<1>10. SourceTruth
  <2>1. queue = <<>> /\ stream.fifo = <<>> /\ stream.carried = NoItem
    BY DEF Init
  <2>2. \A x, y \in Items : ~Flies(x, y)
    BY <2>1 DEF Flies, Ahead, Orders, Holds, Batch, NoItem, Item
  <2>3. OnlyBatches
    BY <2>1 DEF OnlyBatches, Holds
  <2>4. ~InSync("stream")
    BY <1>5 DEF InSync, SyncedIn, NoOwner
  <2>5. QED
    BY <2>2, <2>3, <2>4 DEF SourceTruth
<1>11. SealTruth /\ TicketTruth
  BY <1>4 DEF SealTruth, TicketTruth, HoldsCurrent
<1>12. QED
  BY <1>6, <1>7, <1>8, <1>9, <1>10, <1>11 DEF Facts

\* The facts hold throughout, with what a seal and a ticket are worth.
TruthInv == Facts /\ SealTruth /\ TicketTruth

\* The facts about news under way, receipts and modes hold in every state
\* (admission.py:216, gamelogs.py, clients.py and coordinator.py as one).
THEOREM TruthInvariance == Spec => []TruthInv
<1>1. Init => TruthInv
  BY TruthBegins DEF TruthInv
<1>2. IInv /\ TruthInv /\ [Next]_vars => TruthInv'
  <2> SUFFICES ASSUME IInv, TruthInv, [Next]_vars PROVE TruthInv'
    OBVIOUS
  <2>0. Facts /\ SealTruth /\ TicketTruth
    BY DEF TruthInv
  <2>1. CASE Next
    BY <2>0, <2>1, TruthSteps DEF TruthInv
  <2>2. CASE UNCHANGED vars
    BY <2>0, <2>2, Unmoved DEF IInv, TruthInv
  <2>3. QED
    BY <2>1, <2>2
<1>3. QED
  BY <1>1, <1>2, Invariance, PTL DEF Spec

-----------------------------------------------------------------------------
(* Nothing is forgotten: what is still on its way *)

\* Whoever owns delivery leaves nothing behind.
Delivered == stream.drainer = "none" => stream.fifo = <<>> /\ stream.carried = NoItem

\* A producer that may report has its subscriber, and one that lost it was stopped.
Listened ==
    /\ auth.lanes["roster"].running /\ disc.worker /\ ~auth.closed => co.discSub
    /\ auth.lanes["stream"].running => co.streamSub
    /\ co.discOn /\ ~co.discSub => ~auth.lanes["roster"].running

\* The modes in a queue turn Fleet from a to r (0: off, 1: on), each one really turns
\* it, and a refresh finds it on: s[i] is what it is once i items have been taken.
Turn(item) == item.kind = "mode"
Commands(item) == item.kind \in {"mode", "refresh"}
Bit(b) == IF b THEN 1 ELSE 0
Turned(q, s, a, r) ==
    /\ s[0] = a /\ s[Len(q)] = r
    /\ \A i \in 1..Len(q) :
          /\ Turn(q[i]) => q[i].value = s[i] /\ s[i] # s[i - 1]
          /\ ~Turn(q[i]) => s[i] = s[i - 1]
          /\ q[i].kind = "refresh" => s[i] = 1
    /\ \A i \in 0..Len(q) : s[i] = r \/ \E j \in (i + 1)..Len(q) : Turn(q[j])
Turns(q, a, r) == \E s \in [0..Len(q) -> {0, 1}] : Turned(q, s, a, r)
Turning == disp.pc = "reset" \/ \E i \in DOMAIN queue : Commands(queue[i])
Wishes ==
    /\ Turns(queue, Bit(disp.active), Bit(co.requested))
    /\ pass.pc # "idle" => pass.fleet = co.requested
    /\ pass.pc \in {"dispatcher", "await"} => pass.disc

\* The command a completion is of is the last one.
Numbered(q, n) == \A i \in DOMAIN q : Commands(q[i]) => q[i].id <= n
NoCommand(q) == \A i \in DOMAIN q : ~Commands(q[i])
LastCommand(q, id) == \A i, j \in DOMAIN q :
    i < j /\ Commands(q[i]) /\ q[i].id = id => ~Commands(q[j])
Expected ==
    /\ co.completion.id <= co.completions
    /\ Numbered(queue, co.completions)
    /\ disp.pc = "reset" => disp.item.id <= co.completions
    /\ co.completion.id # 0 => LastCommand(queue, co.completion.id)
    /\ disp.pc = "reset" /\ disp.item.id # 0 /\ disp.item.id = co.completion.id
          => NoCommand(queue)

\* A reset that failed keeps the views away until the next one, and none is to come.
Doomed(a) == a.closed \/ (~a.clean /\ a.pending # 0)
Stuck == auth.closed \/ (Doomed(auth) /\ ~Turning)
Failure ==
    /\ co.completion.st = "failed" /\ co.completion.gen = co.reqGen => Stuck
    /\ pass.pc = "disc" => co.discOn /\ (pass.disc => ~co.discSub)
    /\ pass.pc = "disc" /\ pass.fleet /\ ~pass.disc => Stuck

\* Discovery's roster is the only one of its number, and no later one was consumed.
Newest ==
    /\ disp.rosterGen <= disc.gen
    /\ \A x \in Items : Holds(queue, x) /\ x.kind = "roster" /\ x.gen = disc.gen => x = Latest

\* The receipts of a lifetime are under way in their order.
InOrder == \A x, y \in Items :
    /\ Flies(x, y) /\ x.d.invalidates /\ y.d.invalidates
    /\ x.d.receipt.life = y.d.receipt.life
  => x.d.receipt.order <= y.d.receipt.order

\* While the views may be shown and nothing is about to reset them, what a lane has not
\* acknowledged is on its way.
Sure(a) == ~a.closed /\ ~a.poisoned /\ a.pending = 0
Live == disp.active /\ Sure(auth)
Synced(a, l) == a.lanes[l].applied = a.lanes[l].requested.order
RosterOwed ==
    Synced(auth, "roster") \/
        /\ disc.pc = "deliver" \/ Holds(queue, Latest)
        /\ disp.rosterGen < disc.gen
        /\ disc.latest.receipt = disc.receipt /\ disc.latest.op # NoOperation
Owes(x, n) == /\ x.kind = "source" /\ x.d.invalidates
              /\ x.d.receipt = [life |-> auth.lanes["stream"].life, order |-> n]
StreamOwed == \A n \in Nat :
    auth.lanes["stream"].applied < n /\ n <= auth.lanes["stream"].requested.order
        => \E x \in Items : Flies(x, x) /\ Owes(x, n)
Owing ==
    Live /\ ~Turning =>
        /\ auth.lanes["roster"].running /\ auth.lanes["stream"].life # 0
        /\ RosterOwed
        /\ auth.lanes["stream"].running => StreamOwed /\ Synced(auth, "control")
Priming == disp.pc = "prime" => auth.closed \/ auth.pending # 0

-----------------------------------------------------------------------------
(* Sequences *)

\* A command more or less in the queue.
LEMMA Commanded ==
    ASSUME NEW q \in Seq(Items)
    PROVE  /\ NoCommand(<<>>)
           /\ q # <<>> => /\ \A n : Numbered(q, n) => Numbered(Tail(q), n)
                          /\ \A n : LastCommand(q, n) => LastCommand(Tail(q), n)
                          /\ NoCommand(q) => ~Commands(Head(q)) /\ NoCommand(Tail(q))
                          /\ ~Commands(Head(q)) /\ NoCommand(Tail(q)) => NoCommand(q)
                          /\ \A n : Commands(Head(q)) /\ Head(q).id = n /\ LastCommand(q, n)
                                    => NoCommand(Tail(q))
                          /\ \A n : Numbered(q, n) /\ Commands(Head(q)) => Head(q).id <= n
           /\ \A i \in Items :
                 /\ ~Commands(i) =>
                       /\ \A n : Numbered(q, n) => Numbered(Append(q, i), n)
                       /\ \A n : LastCommand(q, n) => LastCommand(Append(q, i), n)
                       /\ NoCommand(Append(q, i)) = NoCommand(q)
                 /\ Commands(i) => ~NoCommand(Append(q, i)) /\ ~NoCommand(<<i>>)
                 /\ \A n \in Nat : Numbered(q, n) /\ i.id \in {0, n + 1} =>
                       /\ Numbered(Append(q, i), n + 1)
                       /\ i.id = 0 => Numbered(Append(q, i), n)
                       /\ LastCommand(Append(q, i), n + 1)
                 /\ \A n \in Nat : i.id <= n => Numbered(<<i>>, n)
                 /\ \A n : LastCommand(<<i>>, n)
<1>1. NoCommand(<<>>)
  BY DEF NoCommand
<1>2. \A i \in DOMAIN q : i \in Nat /\ i <= Len(q) /\ i > 0 /\ q[i] \in Items
  OBVIOUS
<1>3. \A i \in Items : i.id \in Nat
  BY ItemFields
<1>4. ASSUME q # <<>>
      PROVE  /\ 1 \in DOMAIN q /\ Head(q) = q[1]
             /\ \A j \in DOMAIN Tail(q) : j \in Nat /\ j + 1 \in DOMAIN q /\ Tail(q)[j] = q[j + 1]
             /\ \A j \in DOMAIN q : j # 1 => j - 1 \in DOMAIN Tail(q) /\ Tail(q)[j - 1] = q[j]
  BY <1>4
<1>5. ASSUME q # <<>>
      PROVE  /\ \A n : Numbered(q, n) => Numbered(Tail(q), n)
             /\ \A n : LastCommand(q, n) => LastCommand(Tail(q), n)
             /\ NoCommand(q) => ~Commands(Head(q)) /\ NoCommand(Tail(q))
             /\ ~Commands(Head(q)) /\ NoCommand(Tail(q)) => NoCommand(q)
             /\ \A n : Commands(Head(q)) /\ Head(q).id = n /\ LastCommand(q, n)
                       => NoCommand(Tail(q))
             /\ \A n : Numbered(q, n) /\ Commands(Head(q)) => Head(q).id <= n
  <2>1. \A n : Numbered(q, n) => Numbered(Tail(q), n)
    BY <1>4, <1>5 DEF Numbered
  <2>2. \A n : LastCommand(q, n) => LastCommand(Tail(q), n)
    BY <1>4, <1>5 DEF LastCommand
  <2>3. NoCommand(q) => ~Commands(Head(q)) /\ NoCommand(Tail(q))
    BY <1>4, <1>5 DEF NoCommand
  <2>4. ~Commands(Head(q)) /\ NoCommand(Tail(q)) => NoCommand(q)
    BY <1>4, <1>5 DEF NoCommand
  <2>5. \A n : Commands(Head(q)) /\ Head(q).id = n /\ LastCommand(q, n) => NoCommand(Tail(q))
    <3> SUFFICES ASSUME NEW n, Commands(Head(q)), Head(q).id = n, LastCommand(q, n),
                        NEW j \in DOMAIN Tail(q)
                 PROVE  ~Commands(Tail(q)[j])
      BY DEF NoCommand
    <3>1. j + 1 \in DOMAIN q /\ Tail(q)[j] = q[j + 1] /\ 1 < j + 1
      BY <1>2, <1>4, <1>5
    <3>2. QED
      BY <1>4, <1>5, <3>1 DEF LastCommand
  <2>6. \A n : Numbered(q, n) /\ Commands(Head(q)) => Head(q).id <= n
    BY <1>4, <1>5 DEF Numbered
  <2>7. QED
    BY <2>1, <2>2, <2>3, <2>4, <2>5, <2>6
<1>6. ASSUME NEW i \in Items
      PROVE  /\ ~Commands(i) =>
                   /\ \A n : Numbered(q, n) => Numbered(Append(q, i), n)
                   /\ \A n : LastCommand(q, n) => LastCommand(Append(q, i), n)
                   /\ NoCommand(Append(q, i)) = NoCommand(q)
             /\ Commands(i) => ~NoCommand(Append(q, i)) /\ ~NoCommand(<<i>>)
             /\ \A n \in Nat : Numbered(q, n) /\ i.id \in {0, n + 1} =>
                   /\ Numbered(Append(q, i), n + 1)
                   /\ i.id = 0 => Numbered(Append(q, i), n)
                   /\ LastCommand(Append(q, i), n + 1)
             /\ \A n \in Nat : i.id <= n => Numbered(<<i>>, n)
             /\ \A n : LastCommand(<<i>>, n)
  <2>1. /\ DOMAIN Append(q, i) = DOMAIN q \cup {Len(q) + 1}
        /\ \A j \in DOMAIN q : Append(q, i)[j] = q[j] /\ j < Len(q) + 1
        /\ Append(q, i)[Len(q) + 1] = i
        /\ Len(q) \in Nat
    OBVIOUS
  <2>2. DOMAIN <<i>> = {1} /\ <<i>>[1] = i
    OBVIOUS
  <2>3. ASSUME ~Commands(i)
        PROVE  /\ \A n : Numbered(q, n) => Numbered(Append(q, i), n)
               /\ \A n : LastCommand(q, n) => LastCommand(Append(q, i), n)
               /\ NoCommand(Append(q, i)) = NoCommand(q)
    <3>1. \A n : Numbered(q, n) => Numbered(Append(q, i), n)
      BY <2>1, <2>3 DEF Numbered
    <3>2. \A n : LastCommand(q, n) => LastCommand(Append(q, i), n)
      BY <2>1, <2>3 DEF LastCommand
    <3>3. NoCommand(Append(q, i)) <=> NoCommand(q)
      BY <2>1, <2>3 DEF NoCommand
    <3>4. QED
      BY <3>1, <3>2, <3>3 DEF NoCommand
  <2>4. Commands(i) => ~NoCommand(Append(q, i)) /\ ~NoCommand(<<i>>)
    BY <2>1, <2>2 DEF NoCommand
  <2>5. ASSUME NEW n \in Nat, Numbered(q, n), i.id \in {0, n + 1}
        PROVE  /\ Numbered(Append(q, i), n + 1)
               /\ i.id = 0 => Numbered(Append(q, i), n)
               /\ LastCommand(Append(q, i), n + 1)
    <3>1. \A j \in DOMAIN q : Commands(q[j]) => q[j].id <= n /\ q[j].id \in Nat
      BY <1>2, <1>3, <2>5 DEF Numbered
    <3>2. Numbered(Append(q, i), n + 1) /\ (i.id = 0 => Numbered(Append(q, i), n))
      BY <2>1, <2>5, <3>1 DEF Numbered
    <3>3. LastCommand(Append(q, i), n + 1)
      <4> SUFFICES ASSUME NEW j \in DOMAIN Append(q, i), NEW k \in DOMAIN Append(q, i), j < k,
                          Commands(Append(q, i)[j]), Append(q, i)[j].id = n + 1
                   PROVE  FALSE
        BY DEF LastCommand
      <4>1. j \in DOMAIN q
        BY <1>2, <2>1
      <4>2. QED
        BY <2>1, <3>1, <4>1
    <3>4. QED
      BY <3>2, <3>3
  <2>6. /\ \A n \in Nat : i.id <= n => Numbered(<<i>>, n)
        /\ \A n : LastCommand(<<i>>, n)
    BY <2>2 DEF Numbered, LastCommand
  <2>7. QED
    BY <2>3, <2>4, <2>5, <2>6
<1>7. QED
  BY <1>1, <1>5, <1>6

\* A mode or a refresh taken from a queue, or put into it, and Fleet.
LEMMA TurnsQueue ==
    ASSUME NEW q \in Seq(Items), NEW a \in {0, 1}, NEW r \in {0, 1}
    PROVE  /\ Turns(<<>>, a, a)
           /\ Turns(q, a, r) /\ q # <<>> =>
                 /\ Turn(Head(q)) => /\ Head(q).value \in {0, 1} /\ Head(q).value # a
                                     /\ Turns(Tail(q), Head(q).value, r)
                 /\ Head(q).kind = "refresh" => a = 1
                 /\ ~Turn(Head(q)) => Turns(Tail(q), a, r)
           /\ Turns(q, a, r) /\ a # r => \E j \in DOMAIN q : Turn(q[j])
           /\ \A i \in Items :
                 /\ Turns(q, a, r) /\ Turn(i) /\ i.value \in {0, 1} /\ i.value # r
                       => Turns(Append(q, i), a, i.value)
                 /\ Turns(q, a, r) /\ ~Turn(i) /\ (i.kind = "refresh" => r = 1)
                       => Turns(Append(q, i), a, r)
                 /\ Turn(i) /\ i.value = 1 => Turns(<<i>>, 0, 1)
<1>1. Turns(<<>>, a, a)
  <2> DEFINE s == [i \in 0..0 |-> a]
  <2>1. s \in [0..Len(<<>>) -> {0, 1}] /\ Turned(<<>>, s, a, a)
    BY DEF Turned
  <2>2. QED
    BY <2>1 DEF Turns
<1>2. ASSUME Turns(q, a, r), q # <<>>
      PROVE  /\ Turn(Head(q)) => /\ Head(q).value \in {0, 1} /\ Head(q).value # a
                                 /\ Turns(Tail(q), Head(q).value, r)
             /\ Head(q).kind = "refresh" => a = 1
             /\ ~Turn(Head(q)) => Turns(Tail(q), a, r)
  <2>1. PICK s \in [0..Len(q) -> {0, 1}] : Turned(q, s, a, r)
    BY <1>2 DEF Turns
  <2>2. /\ Len(q) \in Nat /\ Len(q) >= 1 /\ Head(q) = q[1] /\ Len(Tail(q)) = Len(q) - 1
        /\ \A i \in 1..Len(Tail(q)) : Tail(q)[i] = q[i + 1]
    BY <1>2
  <2> DEFINE t == [i \in 0..(Len(q) - 1) |-> s[i + 1]]
  <2>3. t \in [0..Len(Tail(q)) -> {0, 1}] /\ s[1] \in {0, 1} /\ s[0] = a
    BY <2>1, <2>2 DEF Turned
  <2>4. \A i \in 0..(Len(q) - 1) : t[i] = s[i + 1]
    OBVIOUS
  <2> HIDE DEF t
  <2>5. Turned(Tail(q), t, s[1], r)
    <3>1. t[0] = s[1] /\ t[Len(Tail(q))] = r
      BY <2>1, <2>2, <2>4 DEF Turned
    <3>2. ASSUME NEW i \in 1..Len(Tail(q))
          PROVE  /\ Turn(Tail(q)[i]) => Tail(q)[i].value = t[i] /\ t[i] # t[i - 1]
                 /\ ~Turn(Tail(q)[i]) => t[i] = t[i - 1]
                 /\ Tail(q)[i].kind = "refresh" => t[i] = 1
      <4>1. i + 1 \in 1..Len(q) /\ (i + 1) - 1 = i /\ i \in 0..(Len(q) - 1)
            /\ i - 1 \in 0..(Len(q) - 1) /\ (i - 1) + 1 = i
        BY <2>2
      <4>2. t[i] = s[i + 1] /\ t[i - 1] = s[i] /\ Tail(q)[i] = q[i + 1]
        BY <2>2, <2>4, <4>1
      <4>3. /\ Turn(q[i + 1]) => q[i + 1].value = s[i + 1] /\ s[i + 1] # s[i]
            /\ ~Turn(q[i + 1]) => s[i + 1] = s[i]
            /\ q[i + 1].kind = "refresh" => s[i + 1] = 1
        BY <2>1, <4>1 DEF Turned
      <4>4. QED
        BY <4>2, <4>3
    <3>3. ASSUME NEW i \in 0..Len(Tail(q)), t[i] # r
          PROVE  \E j \in (i + 1)..Len(Tail(q)) : Turn(Tail(q)[j])
      <4>1. i + 1 \in 0..Len(q) /\ s[i + 1] # r
        BY <2>2, <2>4, <3>3
      <4>2. PICK j \in (i + 2)..Len(q) : Turn(q[j])
        BY <2>1, <4>1 DEF Turned
      <4>3. j - 1 \in (i + 1)..Len(Tail(q)) /\ Tail(q)[j - 1] = q[j]
        BY <2>2
      <4>4. QED
        BY <4>2, <4>3
    <3>4. QED
      BY <3>1, <3>2, <3>3 DEF Turned
  <2>6. Turns(Tail(q), s[1], r)
    BY <2>3, <2>5 DEF Turns
  <2>7. /\ Turn(Head(q)) => Head(q).value = s[1] /\ s[1] # a
        /\ ~Turn(Head(q)) => s[1] = a
        /\ Head(q).kind = "refresh" => s[1] = 1
    BY <2>1, <2>2 DEF Turned
  <2>8. Head(q).kind = "refresh" => ~Turn(Head(q))
    BY DEF Turn
  <2>9. QED
    BY <2>3, <2>6, <2>7, <2>8
<1>3. ASSUME Turns(q, a, r), a # r PROVE \E j \in DOMAIN q : Turn(q[j])
  <2>1. PICK s \in [0..Len(q) -> {0, 1}] : Turned(q, s, a, r)
    BY <1>3 DEF Turns
  <2>2. 0 \in 0..Len(q) /\ DOMAIN q = 1..Len(q)
    OBVIOUS
  <2>3. QED
    BY <1>3, <2>1, <2>2 DEF Turned
<1>4. ASSUME NEW i \in Items, NEW v \in {0, 1}, Turns(q, a, r),
             \/ Turn(i) /\ i.value = v /\ v # r
             \/ ~Turn(i) /\ v = r /\ (i.kind = "refresh" => v = 1)
      PROVE  Turns(Append(q, i), a, v)
  <2>1. PICK s \in [0..Len(q) -> {0, 1}] : Turned(q, s, a, r)
    BY <1>4 DEF Turns
  <2> DEFINE p == Append(q, i)
             n == Len(q)
             t == [k \in 0..(n + 1) |-> IF k = n + 1 THEN v ELSE s[k]]
  <2>2. /\ n \in Nat /\ Len(p) = n + 1 /\ p[n + 1] = i
        /\ \A k \in 1..n : p[k] = q[k]
    OBVIOUS
  <2>3. /\ t \in [0..Len(p) -> {0, 1}] /\ t[n + 1] = v
        /\ \A k \in 0..n : t[k] = s[k]
    BY <2>2
  <2> HIDE DEF p, n, t
  <2>4. s[0] = a /\ s[n] = r
    BY <2>1 DEF Turned, n
  <2>5. ASSUME NEW k \in 1..Len(p)
        PROVE  /\ Turn(p[k]) => p[k].value = t[k] /\ t[k] # t[k - 1]
               /\ ~Turn(p[k]) => t[k] = t[k - 1]
               /\ p[k].kind = "refresh" => t[k] = 1
    <3>1. CASE k = n + 1
      BY <1>4, <2>2, <2>3, <2>4, <3>1 DEF Turn
    <3>2. CASE k # n + 1
      <4>1. k \in 1..n /\ k \in 0..n /\ k - 1 \in 0..n
        BY <2>2, <3>2
      <4>2. /\ Turn(q[k]) => q[k].value = s[k] /\ s[k] # s[k - 1]
            /\ ~Turn(q[k]) => s[k] = s[k - 1]
            /\ q[k].kind = "refresh" => s[k] = 1
        BY <2>1, <4>1 DEF Turned, n
      <4>3. p[k] = q[k] /\ t[k] = s[k] /\ t[k - 1] = s[k - 1]
        BY <2>2, <2>3, <4>1
      <4>4. QED
        BY <4>2, <4>3
    <3>3. QED
      BY <3>1, <3>2
  <2>6. ASSUME NEW k \in 0..Len(p), t[k] # v
        PROVE  \E j \in (k + 1)..Len(p) : Turn(p[j])
    <3>1. k \in 0..n /\ s[k] # v
      BY <2>2, <2>3, <2>6
    <3>2. CASE Turn(i)
      <4>1. n + 1 \in (k + 1)..Len(p) /\ p[n + 1] = i
        BY <2>2, <3>1
      <4>2. QED
        BY <3>2, <4>1
    <3>3. CASE ~Turn(i)
      <4>1. PICK j \in (k + 1)..n : Turn(q[j])
        BY <1>4, <2>1, <3>1, <3>3 DEF Turned, n
      <4>2. j \in (k + 1)..Len(p) /\ p[j] = q[j]
        BY <2>2, <3>1
      <4>3. QED
        BY <4>1, <4>2
    <3>4. QED
      BY <3>2, <3>3
  <2>7. t[0] = a /\ t[Len(p)] = v
    BY <2>2, <2>3, <2>4
  <2>8. Turned(p, t, a, v)
    BY <2>5, <2>6, <2>7 DEF Turned
  <2>9. QED
    BY <2>3, <2>8 DEF Turns, p
<1>5. ASSUME NEW i \in Items, Turn(i), i.value = 1 PROVE Turns(<<i>>, 0, 1)
  <2> DEFINE s == [k \in 0..1 |-> k]
  <2>1. s \in [0..Len(<<i>>) -> {0, 1}]
    OBVIOUS
  <2>2. Turned(<<i>>, s, 0, 1)
    BY <1>5 DEF Turned, Turn
  <2>3. QED
    BY <2>1, <2>2 DEF Turns
<1>6. QED
  BY <1>1, <1>2, <1>3, <1>4, <1>5

\* A batch that is under way stays so until it is taken.
LEMMA StillFlies ==
    ASSUME NEW q \in Seq(Items), NEW c \in Items, NEW f \in Seq(Items), NEW x \in Items
    PROVE  /\ Ahead(q, c, f, x, x) <=> Batch(x) /\ (Holds(q, x) \/ x = c \/ Holds(f, x))
           /\ \A i \in Items : /\ Holds(q, x) => Holds(Append(q, i), x)
                               /\ Holds(Append(q, i), i)
                               /\ Ahead(q, c, f, x, x) => /\ Ahead(Append(q, i), c, f, x, x)
                                                          /\ Ahead(q, c, Append(f, i), x, x)
                               /\ Batch(i) => Ahead(q, c, Append(f, i), i, i)
           /\ q # <<>> /\ x # Head(q) =>
                 /\ Holds(q, x) => Holds(Tail(q), x)
                 /\ Ahead(q, c, f, x, x) => Ahead(Tail(q), c, f, x, x)
           /\ f # <<>> /\ Ahead(q, NoItem, f, x, x) => Ahead(q, Head(f), Tail(f), x, x)
           /\ Ahead(q, c, f, x, x) => Ahead(Append(q, c), NoItem, f, x, x)
<1>1. \A s \in Seq(Items), i \in Items :
         /\ Holds(s, i) => Orders(s, i, i)
         /\ Orders(s, i, i) => Holds(s, i)
  BY Ends
<1>2. \A s \in Seq(Items), d \in Items, t \in Seq(Items), i \in Items :
         Ahead(s, d, t, i, i) <=> Batch(i) /\ (Holds(s, i) \/ i = d \/ Holds(t, i))
  BY <1>1 DEF Ahead
<1>3. ASSUME NEW s \in Seq(Items), NEW i \in Items
      PROVE  /\ Holds(s, x) => Holds(Append(s, i), x)
             /\ Holds(Append(s, i), i)
             /\ Append(s, i) \in Seq(Items)
  <2>1. /\ DOMAIN Append(s, i) = DOMAIN s \cup {Len(s) + 1}
        /\ \A j \in DOMAIN s : Append(s, i)[j] = s[j]
        /\ Append(s, i)[Len(s) + 1] = i
    OBVIOUS
  <2>2. QED
    BY <2>1 DEF Holds
<1>4. ASSUME NEW s \in Seq(Items), s # <<>>, Holds(s, x)
      PROVE  (x = Head(s) \/ Holds(Tail(s), x)) /\ Tail(s) \in Seq(Items) /\ Head(s) \in Items
  <2>1. /\ Head(s) = s[1]
        /\ \A j \in DOMAIN s : j \in Nat /\ (j = 1 \/ (j - 1 \in DOMAIN Tail(s) /\ Tail(s)[j - 1] = s[j]))
    BY <1>4
  <2>2. QED
    BY <1>4, <2>1, Queues DEF Holds
<1>5. ~Batch(NoItem) /\ NoItem \in Items
  BY ItemTyped DEF Batch, NoItem, Item
<1>6. \A s \in Seq(Items) : s # <<>> => Head(s) \in Items /\ Tail(s) \in Seq(Items)
  BY Queues
<1>7. QED
  BY <1>2, <1>3, <1>4, <1>5, <1>6

-----------------------------------------------------------------------------
(* What the authority owes, and keeps owing *)

\* Nothing is asked for or acknowledged, and nothing gets better.
Firm(x, y) == /\ y.life = x.life /\ y.running = x.running
              /\ y.requested = x.requested /\ y.applied = x.applied
Plain(a, b) ==
    /\ \A l \in Lanes : Firm(a.lanes[l], b.lanes[l])
    /\ a.closed => b.closed
    /\ Sure(b) => Sure(a)
    /\ Doomed(a) => Doomed(b)

\* A calm call leaves no view surer, and a doomed one doomed.
LEMMA CalmDoomed ==
    ASSUME NEW a, NEW b, Calm(a, b)
    PROVE  /\ a.closed => b.closed
           /\ Sure(b) => Sure(a)
           /\ Doomed(a) => Doomed(b)
  BY DEF Calm, LanesCalm, Sure, Doomed

\* The plain methods, which may be chained.
LEMMA PlainMethods ==
    ASSUME NEW a \in Authorities, NEW l \in Lanes
    PROVE  /\ Plain(a, a) /\ Plain(a, Poison(a)) /\ Plain(a, Hold(a)) /\ Plain(a, Close(a))
           /\ \A life \in Nat : Plain(a, StartOperation(a, l, life))
           /\ \A op \in Stamps : Plain(a, RecordApplication(a, l, op))
           /\ \A b, c : Plain(a, b) /\ Plain(b, c) => Plain(a, c)
<1>1. /\ Calm(a, a) /\ Calm(a, Poison(a)) /\ Calm(a, Hold(a)) /\ Calm(a, Close(a))
      /\ \A life \in Nat : Calm(a, StartOperation(a, l, life))
      /\ \A op \in Stamps : Calm(a, RecordApplication(a, l, op))
  BY CalmMethods
<1>2. \A b : Calm(a, b) /\ (\A k \in Lanes : Firm(a.lanes[k], b.lanes[k])) => Plain(a, b)
  BY CalmDoomed DEF Plain
<1>3. Poison(a).lanes = a.lanes /\ Hold(a).lanes = a.lanes /\ Close(a).lanes = a.lanes
      /\ Poison(a) \in Authorities
  BY PoisonFacts, HoldFacts, CloseFacts DEF Advances
<1>4. \A x : Firm(x, x)
  BY DEF Firm
<1>5. ASSUME NEW life \in Nat, NEW k \in Lanes
      PROVE  Firm(a.lanes[k], StartOperation(a, l, life).lanes[k])
  <2> DEFINE x == [a.lanes[l] EXCEPT !.started = [life |-> life,
                                                  order |-> a.lanes[l].started.order + 1]]
  <2>1. a.lanes[l] \in LaneStates /\ a.lanes[l].started.order \in Nat
    BY Fields, LaneFields DEF Stamps
  <2>2. x \in LaneStates /\ Firm(a.lanes[l], x)
    BY <2>1, <1>5 DEF LaneStates, Stamps, Firm
  <2>3. StartOperation(a, l, life) = IF Owns(a, l, life) THEN [a EXCEPT !.lanes[l] = x] ELSE a
    BY DEF StartOperation, Authorities
  <2> HIDE DEF x
  <2>4. QED
    BY <1>4, <2>2, <2>3, LaneSet
<1>6. ASSUME NEW op \in Stamps, NEW k \in Lanes
      PROVE  Firm(a.lanes[k], RecordApplication(a, l, op).lanes[k])
  <2> DEFINE b == IF Obsolete(a, l, op) THEN Poison(a) ELSE a
             x == [b.lanes[l] EXCEPT !.provenance = op]
  <2>1. b \in Authorities /\ b.lanes = a.lanes
    BY <1>3
  <2>2. RecordApplication(a, l, op) = IF a.closed THEN a ELSE [b EXCEPT !.lanes[l] = x]
    BY <2>1 DEF RecordApplication, Authorities
  <2> HIDE DEF b
  <2>3. b.lanes[l] \in LaneStates
    BY <2>1, Fields
  <2>4. x \in LaneStates /\ Firm(b.lanes[l], x)
    BY <2>3, <1>6 DEF LaneStates, Firm
  <2> HIDE DEF x
  <2>5. QED
    BY <1>4, <2>1, <2>2, <2>4, LaneSet
<1>7. \A b, c : Plain(a, b) /\ Plain(b, c) => Plain(a, c)
  BY DEF Plain, Firm
<1>8. QED
  BY <1>1, <1>2, <1>3, <1>4, <1>5, <1>6, <1>7

\* What the calls for one applied batch acknowledge while the views may be shown: the
\* receipt of the batch, or all of them when a reset is over.
LEMMA FinishSettles ==
    ASSUME NEW a \in Authorities, NEW d \in DispS, NEW item \in Items,
           d.boundary = disp.boundary, ~a.closed => d.boundary = a.pending
    PROVE  LET f == Finish(a, d, item)
               l == LaneOf(item)
           IN  /\ f.auth.closed = a.closed
               /\ \A k \in Lanes : f.auth.lanes[k].running = a.lanes[k].running
               /\ Doomed(a) => Doomed(f.auth)
               /\ Sure(f.auth) =>
                     \/ Complete(f.auth)
                     \/ /\ Sure(a)
                        /\ \A k \in Lanes : k # l => Firm(a.lanes[k], f.auth.lanes[k])
                        /\ f.auth.lanes[l].life = a.lanes[l].life
                        /\ f.auth.lanes[l].requested = a.lanes[l].requested
                        /\ item.d.op = NoOperation => Roster(item)
                        /\ f.auth.lanes[l].applied =
                              IF /\ item.d.op # NoOperation
                                 /\ Roster(item) \/ item.d.invalidates
                                 /\ Acknowledges(a, l, item.d.receipt)
                              THEN item.d.receipt.order ELSE a.lanes[l].applied
<1> DEFINE l == LaneOf(item)
           b == RecordApplication(a, l, item.d.op)
           c == IF Roster(item) \/ item.d.invalidates
                THEN Applied(b, l, item.d.receipt) ELSE b
           ok == CanRestate(c, d.boundary, l, item.d)
           e == IF Restates(item) THEN Restated(c, d.boundary, l, item.d) ELSE c
           restated == IF ~Restates(item) THEN d.restated
                       ELSE IF ok THEN d.restated \cup {l} ELSE d.restated \ {l}
           reseeds == d.boundary # 0 /\ restated = Lanes
           t == [d EXCEPT !.restated = restated,
                          !.boundary = IF reseeds /\ CanReseed(e, d.boundary)
                                       THEN 0 ELSE d.boundary]
           g == IF reseeds THEN Reseeded(e, d.boundary) ELSE e
           f == Finish(a, d, item)
<1>1. l \in Lanes /\ d.boundary \in Nat
  BY DEF Lanes, DispS, LaneOf
<1>2. item.d \in Deliveries /\ item.d.op \in Stamps /\ item.d.receipt \in Stamps
  BY ItemFields
<1>3. f = IF item.d.op = NoOperation
          THEN [auth |-> IF Roster(item) THEN a ELSE Poison(a), disp |-> d]
          ELSE [auth |-> g, disp |-> t]
  BY DEF Finish, LaneOf
<1> HIDE DEF f, l
<1>4. CASE item.d.op = NoOperation
  <2>1. CASE Roster(item)
    <3>1. f.auth = a
      BY <1>3, <1>4, <2>1
    <3>2. QED
      BY <1>1, <1>4, <2>1, <3>1 DEF f, l, Firm
  <2>2. CASE ~Roster(item)
    <3>1. f.auth = Poison(a)
      BY <1>3, <1>4, <2>2
    <3>2. ~Sure(Poison(a))
      <4> DEFINE p == [a EXCEPT !.poisoned = TRUE, !.clean = FALSE]
      <4>1. p \in Authorities /\ p.poisoned
        BY DEF Authorities
      <4>2. Poison(a) = Revoke(p)
        BY DEF Poison
      <4> HIDE DEF p
      <4>3. QED
        BY <4>1, <4>2, RevokeFacts DEF Sure
    <3>3. /\ Poison(a).closed = a.closed
          /\ \A k \in Lanes : Poison(a).lanes[k].running = a.lanes[k].running
          /\ Doomed(a) => Doomed(Poison(a))
      BY <1>1, PoisonFacts, PlainMethods DEF Plain
    <3>4. QED
      BY <3>1, <3>2, <3>3 DEF f, l
  <2>3. QED
    BY <2>1, <2>2
<1>5. CASE item.d.op # NoOperation
  <2>1. /\ Plain(a, b) /\ b \in Authorities /\ b.closed = a.closed
        /\ \A k \in Lanes : Firm(a.lanes[k], b.lanes[k])
        /\ ~a.closed => b.pending = a.pending
    <3>1. Plain(a, RecordApplication(a, l, item.d.op))
      BY <1>1, <1>2, PlainMethods
    <3>2. LET p == RecordApplication(a, l, item.d.op) IN
          p \in Authorities /\ p.closed = a.closed /\ (~a.closed => p.pending = a.pending)
      BY <1>1, <1>2, ObsoletePoisons
    <3> HIDE DEF b
    <3>3. b = RecordApplication(a, l, item.d.op)
      BY DEF b
    <3>4. QED
      BY <3>1, <3>2, <3>3 DEF Plain
  <2>2. Acknowledges(b, l, item.d.receipt) = Acknowledges(a, l, item.d.receipt)
    BY <1>1, <2>1 DEF Acknowledges, Owns, Firm
  <2> HIDE DEF b
  <2>3. /\ Answers(b, c, l, item.d.receipt) /\ c \in Authorities
        /\ c.lanes[l].applied = IF /\ Roster(item) \/ item.d.invalidates
                                   /\ Acknowledges(b, l, item.d.receipt)
                                THEN item.d.receipt.order ELSE b.lanes[l].applied
        /\ \A k \in Lanes : c.lanes[k].running = b.lanes[k].running
    <3> DEFINE p == Applied(b, l, item.d.receipt)
               x == [b.lanes[l] EXCEPT !.applied = item.d.receipt.order]
    <3>1. p \in Authorities /\ \A k \in Lanes : p.lanes[k].running = b.lanes[k].running
      BY <1>1, <1>2, <2>1, AppliedFacts DEF Advances
    <3>2. Answers(b, p, l, item.d.receipt) /\ Answers(b, b, l, item.d.receipt)
      BY <1>1, <1>2, <2>1, Acknowledging, AnswersChain
    <3>3. p = IF Acknowledges(b, l, item.d.receipt) THEN [b EXCEPT !.lanes[l] = x] ELSE b
      BY <2>1 DEF Applied, Authorities
    <3>4. x \in LaneStates /\ x.applied = item.d.receipt.order
      <4>1. b.lanes[l] \in LaneStates /\ item.d.receipt.order \in Nat
        BY <1>1, <1>2, <2>1, Fields DEF Stamps
      <4>2. QED
        BY <4>1 DEF LaneStates
    <3> HIDE DEF x
    <3>5. [b EXCEPT !.lanes[l] = x].lanes[l] = x
      BY <1>1, <2>1, <3>4, LaneSet
    <3>6. p.lanes[l].applied = IF Acknowledges(b, l, item.d.receipt)
                               THEN item.d.receipt.order ELSE b.lanes[l].applied
      BY <3>3, <3>4, <3>5
    <3> HIDE DEF p
    <3>7. c = IF Roster(item) \/ item.d.invalidates THEN p ELSE b
      BY DEF p
    <3> HIDE DEF c
    <3>8. QED
      BY <2>1, <3>1, <3>2, <3>6, <3>7
  <2> HIDE DEF c
  <2>4. /\ e \in Authorities /\ Answers(c, e, l, item.d.receipt)
        /\ \A k \in Lanes : e.lanes[k].running = c.lanes[k].running
        /\ ~Restates(item) => e = c
    <3>1. /\ Restated(c, d.boundary, l, item.d) \in Authorities
          /\ \A k \in Lanes : Restated(c, d.boundary, l, item.d).lanes[k].running
                              = c.lanes[k].running
      BY <1>1, <1>2, <2>3, RestatedFacts DEF Advances
    <3>2. /\ Answers(c, Restated(c, d.boundary, l, item.d), l, item.d.receipt)
          /\ Answers(c, c, l, item.d.receipt)
      BY <1>1, <1>2, <2>3, Acknowledging, AnswersChain
    <3>3. QED
      BY <2>3, <3>1, <3>2
  <2>5. Restates(item) => d.boundary # 0
    <3>1. item.d.reset \in Nat
      BY ItemFields
    <3>2. QED
      BY <3>1 DEF Restates
  <2> HIDE DEF e, ok, restated, reseeds
  <2>6. /\ g \in Authorities /\ g.lanes = e.lanes /\ g.closed = e.closed
        /\ g = e \/ (Complete(g) /\ e.clean /\ ~e.closed)
    <3> DEFINE r == [e EXCEPT !.pending = 0, !.poisoned = FALSE]
    <3>1. r \in Authorities /\ r.lanes = e.lanes /\ r.closed = e.closed
      BY <2>4 DEF Authorities
    <3>2. Reseeded(e, d.boundary) = IF CanReseed(e, d.boundary) THEN Revoke(r) ELSE e
      BY DEF Reseeded
    <3> HIDE DEF r
    <3>3. CanReseed(e, d.boundary) => Complete(e) /\ e.clean /\ ~e.closed
      BY DEF CanReseed, Recovering
    <3>4. Complete(e) /\ Revoke(r).lanes = e.lanes => Complete(Revoke(r))
      BY DEF Complete
    <3>5. QED
      BY <2>4, <3>1, <3>2, <3>3, <3>4, RevokeFacts
  <2> HIDE DEF g, t
  <2>7. f.auth = g
    BY <1>3, <1>5
  <2>8. Answers(b, e, l, item.d.receipt)
    BY <1>1, <2>3, <2>4, AnswersChain
  <2>9. /\ g.closed = a.closed
        /\ \A k \in Lanes : g.lanes[k].running = a.lanes[k].running
    BY <2>1, <2>3, <2>4, <2>6, <2>8 DEF Answers, SameRest, Firm
  <2>10. Doomed(a) => Doomed(g)
    <3>1. Doomed(a) => Doomed(b)
      BY <2>1 DEF Plain
    <3>2. Doomed(b) => Doomed(e) /\ (e.closed \/ ~e.clean)
      BY <2>8 DEF Answers, SameRest, Doomed
    <3>3. QED
      BY <2>6, <3>1, <3>2 DEF Doomed
  <2>11. ASSUME Sure(g), ~Complete(g)
         PROVE  /\ Sure(a)
                /\ \A k \in Lanes : k # l => Firm(a.lanes[k], g.lanes[k])
                /\ g.lanes[l].life = a.lanes[l].life
                /\ g.lanes[l].requested = a.lanes[l].requested
                /\ g.lanes[l].applied =
                      IF /\ Roster(item) \/ item.d.invalidates
                         /\ Acknowledges(a, l, item.d.receipt)
                      THEN item.d.receipt.order ELSE a.lanes[l].applied
    <3>1. g = e /\ Sure(e)
      BY <2>6, <2>11
    <3>2. Sure(b)
      BY <2>8, <3>1 DEF Sure, Answers, SameRest
    <3>3. Sure(a)
      BY <2>1, <3>2 DEF Plain
    <3>4. e = c
      BY <2>4, <2>5, <3>3 DEF Sure
    <3>5. \A k \in Lanes : k # l => Firm(a.lanes[k], g.lanes[k])
      BY <2>1, <2>8, <3>1 DEF Answers, Others
    <3>6. g.lanes[l].life = a.lanes[l].life /\ g.lanes[l].requested = a.lanes[l].requested
      BY <1>1, <2>1, <2>8, <3>1 DEF Answers, Firm
    <3>7. b.lanes[l].applied = a.lanes[l].applied
      BY <1>1, <2>1 DEF Firm
    <3>8. QED
      BY <2>2, <2>3, <3>1, <3>3, <3>4, <3>5, <3>6, <3>7
  <2>12. QED
    BY <1>5, <2>7, <2>9, <2>10, <2>11 DEF f, l
<1>6. QED
  BY <1>4, <1>5

-----------------------------------------------------------------------------
(* What most steps leave on its way *)

\* Nothing is forgotten yet, and the commands and completions that this rests on.
RestInv == /\ Delivered /\ Listened /\ Wishes /\ Expected /\ Failure
           /\ Newest /\ InOrder /\ Priming /\ Owing

\* A step that takes no command, queues none and tells the coordinator nothing.
Away ==
    /\ UNCHANGED <<co, pass>>
    /\ disp'.active = disp.active /\ disp'.item = disp.item
    /\ (disp'.pc = "reset") = (disp.pc = "reset")
    /\ \/ queue' = queue
       \/ queue # <<>> /\ ~Commands(Head(queue)) /\ queue' = Tail(queue)
       \/ \E i \in Items : ~Commands(i) /\ queue' = Append(queue, i)
    /\ auth'.closed = auth.closed /\ (Doomed(auth) => Doomed(auth'))
    /\ \A l \in Lanes : auth'.lanes[l].running => auth.lanes[l].running
    /\ disc'.worker => disc.worker

\* Something is turning if a command is being carried out or is in the queue.
LEMMA TurningIs == Turning <=> disp.pc = "reset" \/ ~NoCommand(queue)
  BY DEF Turning, NoCommand

\* A queue that gains or loses no command turns Fleet as it did.
LEMMA QueueAway ==
    ASSUME NEW q \in Seq(Items), NEW r, NEW a \in {0, 1}, NEW b \in {0, 1}, Turns(q, a, b),
           \/ r = q
           \/ q # <<>> /\ ~Commands(Head(q)) /\ r = Tail(q)
           \/ \E i \in Items : ~Commands(i) /\ r = Append(q, i)
    PROVE  /\ Turns(r, a, b)
           /\ NoCommand(r) <=> NoCommand(q)
           /\ \A n : Numbered(q, n) => Numbered(r, n)
           /\ \A n : LastCommand(q, n) => LastCommand(r, n)
<1>1. \A i \in Items : ~Commands(i) => ~Turn(i) /\ i.kind # "refresh"
  BY DEF Commands, Turn
<1>2. q # <<>> => Head(q) \in Items
  BY Queues
<1>3. CASE r = q
  BY <1>3
<1>4. CASE q # <<>> /\ ~Commands(Head(q)) /\ r = Tail(q)
  <2>1. Turns(r, a, b)
    BY <1>1, <1>2, <1>4, TurnsQueue
  <2>2. QED
    BY <1>4, <2>1, Commanded
<1>5. ASSUME NEW i \in Items, ~Commands(i), r = Append(q, i)
      PROVE  /\ Turns(r, a, b)
             /\ NoCommand(r) <=> NoCommand(q)
             /\ \A n : Numbered(q, n) => Numbered(r, n)
             /\ \A n : LastCommand(q, n) => LastCommand(r, n)
  <2>1. Turns(r, a, b)
    BY <1>1, <1>5, TurnsQueue
  <2>2. QED
    BY <1>5, <2>1, Commanded
<1>6. QED
  BY <1>3, <1>4, <1>5

\* It leaves all that is about commands, and the subscribers.
LEMMA AwayKeeps ==
    ASSUME Typed, Listened, Wishes, Expected, Failure, Away
    PROVE  /\ Listened' /\ Wishes' /\ Expected' /\ Failure'
           /\ Turning' <=> Turning
<1>1. queue \in Seq(Items) /\ Turns(queue, Bit(disp.active), Bit(co.requested))
  BY DEF Typed, Wishes
<1>2. Bit(disp.active) \in {0, 1} /\ Bit(co.requested) \in {0, 1}
  BY DEF Bit
<1>3. /\ Turns(queue', Bit(disp.active), Bit(co.requested))
      /\ NoCommand(queue') <=> NoCommand(queue)
      /\ \A n : Numbered(queue, n) => Numbered(queue', n)
      /\ \A n : LastCommand(queue, n) => LastCommand(queue', n)
  BY <1>1, <1>2, QueueAway DEF Away
<1>4. Turning' <=> Turning
  BY <1>3 DEF Away, Turning, NoCommand
<1>5. Listened'
  BY Names DEF Listened, Away
<1>6. Wishes'
  BY <1>3 DEF Wishes, Away
<1>7. Expected'
  BY <1>3 DEF Expected, Away
<1>8. Stuck => Stuck'
  BY <1>4 DEF Stuck, Away
<1>9. Failure'
  BY <1>8 DEF Failure, Away
<1>10. QED
  BY <1>4, <1>5, <1>6, <1>7, <1>9

\* What is on its way to the dispatcher stays so.
RosterStays ==
    /\ disc'.gen = disc.gen /\ disc'.session = disc.session
    /\ disc'.latest = disc.latest /\ disc'.receipt = disc.receipt
    /\ disp'.rosterGen = disp.rosterGen
    /\ disc.pc = "deliver" \/ Holds(queue, Latest)
          => disc'.pc = "deliver" \/ Holds(queue', Latest)
BatchesStay == \A x \in Items : Flies(x, x) /\ x.d.invalidates => Flies(x, x)'

\* Then a roster, a batch and all of it is still owed to a lane that asks for nothing.
LEMMA StaysOwed ==
    /\ RosterOwed /\ Firm(auth.lanes["roster"], auth'.lanes["roster"]) /\ RosterStays
       => RosterOwed'
    /\ StreamOwed /\ Firm(auth.lanes["stream"], auth'.lanes["stream"]) /\ BatchesStay
       => StreamOwed'
<1>1. RosterStays => (Latest' = Latest)
  BY DEF RosterStays, Latest
<1>2. ASSUME RosterOwed, Firm(auth.lanes["roster"], auth'.lanes["roster"]), RosterStays
      PROVE  RosterOwed'
  BY <1>1, <1>2 DEF RosterOwed, Firm, RosterStays, Synced
<1>3. ASSUME StreamOwed, Firm(auth.lanes["stream"], auth'.lanes["stream"]), BatchesStay
      PROVE  StreamOwed'
  <2> SUFFICES ASSUME NEW n \in Nat, auth'.lanes["stream"].applied < n,
                      n <= auth'.lanes["stream"].requested.order
               PROVE  \E x \in Items : Flies(x, x)' /\ Owes(x, n)'
    BY DEF StreamOwed
  <2>1. PICK x \in Items : Flies(x, x) /\ Owes(x, n)
    BY <1>3 DEF StreamOwed, Firm
  <2>2. Owes(x, n)' /\ x.d.invalidates
    BY <1>3, <2>1 DEF Owes, Firm
  <2>3. QED
    BY <1>3, <2>1, <2>2 DEF BatchesStay
<1>4. QED
  BY <1>2, <1>3

\* A plain step owes what was owed.
LEMMA OwingStays ==
    ASSUME Owing, Plain(auth, auth'), disp'.active => disp.active, Turning => Turning',
           RosterStays, auth.lanes["stream"].running => BatchesStay
    PROVE  Owing'
<1> SUFFICES ASSUME Live', ~Turning' PROVE Owing'
  BY DEF Owing
<1>1. Live /\ ~Turning
  BY DEF Live, Plain
<1>2. \A l \in Lanes : Firm(auth.lanes[l], auth'.lanes[l])
  BY DEF Plain
<1>3. RosterOwed' /\ (auth.lanes["stream"].running => StreamOwed')
  BY <1>1, <1>2, StaysOwed, Names DEF Owing
<1>4. QED
  BY <1>1, <1>2, <1>3, Names DEF Owing, Firm, Synced

\* Nothing new flies, and no roster is queued but the latest.
LEMMA NewsStays ==
    /\ InOrder /\ (\A x, y \in Items : Flies(x, y)' => Flies(x, y)) => InOrder'
    /\ /\ Newest /\ disc'.gen = disc.gen /\ Latest' = Latest
       /\ disp'.rosterGen <= disc.gen
       /\ \A x \in Items : Holds(queue', x) /\ x.kind = "roster" => Holds(queue, x) \/ x = Latest
       => Newest'
<1>1. InOrder /\ (\A x, y \in Items : Flies(x, y)' => Flies(x, y)) => InOrder'
  BY DEF InOrder
<1>2. ASSUME Newest, disc'.gen = disc.gen, Latest' = Latest, disp'.rosterGen <= disc.gen,
             \A x \in Items : Holds(queue', x) /\ x.kind = "roster"
                              => Holds(queue, x) \/ x = Latest
      PROVE  Newest'
  BY <1>2 DEF Newest
<1>3. QED
  BY <1>1, <1>2

\* A reset, and what is withheld or acknowledged, leave nothing owed.
LEMMA NothingOwed ==
    /\ auth' \in Authorities /\ Sound(auth') /\ Complete(auth') => Owing'
    /\ ~Sure(auth') => Owing'
    /\ ResetsOnly(auth, auth') => ~Sure(auth')
<1>1. ASSUME auth' \in Authorities, Sound(auth'), Complete(auth') PROVE Owing'
  <2>1. \A l \in Lanes : /\ auth'.lanes[l].running
                         /\ auth'.lanes[l].applied = auth'.lanes[l].requested.order
                         /\ auth'.lanes[l].life # 0
    BY <1>1 DEF Sound, LaneSound, Complete
  <2>2. RosterOwed' /\ Synced(auth, "control")' /\ Synced(auth, "stream")'
    BY <2>1, Names DEF RosterOwed, Synced
  <2>3. StreamOwed'
    <3> SUFFICES ASSUME NEW n \in Nat, auth'.lanes["stream"].applied < n,
                        n <= auth'.lanes["stream"].requested.order
                 PROVE  FALSE
      BY DEF StreamOwed
    <3>1. auth'.lanes["stream"].applied = auth'.lanes["stream"].requested.order
      BY <2>1, Names
    <3>2. auth'.lanes["stream"].applied \in Nat
      BY <1>1, Names, Fields, LaneFields
    <3>3. QED
      BY <3>1, <3>2
  <2>4. QED
    BY <2>1, <2>2, <2>3, Names DEF Owing
<1>2. ~Sure(auth') => Owing'
  BY DEF Owing, Live
<1>3. ResetsOnly(auth, auth') => ~Sure(auth')
  BY DEF ResetsOnly, Sure
<1>4. QED
  BY <1>1, <1>2, <1>3

\* Batches stay under way when an item is queued, or one that reserves nothing is taken.
LEMMA BatchesKept ==
    ASSUME Typed, stream'.carried = stream.carried, stream'.fifo = stream.fifo,
           \/ queue' = queue
           \/ /\ queue # <<>> /\ queue' = Tail(queue)
              /\ ~Batch(Head(queue)) \/ ~Head(queue).d.invalidates
           \/ \E i \in Items : queue' = Append(queue, i)
    PROVE  BatchesStay
<1> DEFINE c == stream.carried
           f == stream.fifo
<1>0. queue \in Seq(Items) /\ c \in Items /\ f \in Seq(Items)
  BY Parts DEF Typed
<1> SUFFICES ASSUME NEW x \in Items, Flies(x, x), x.d.invalidates PROVE Flies(x, x)'
  BY DEF BatchesStay
<1> HIDE DEF c, f
<1>1. Ahead(queue, c, f, x, x) /\ Batch(x)
  BY DEF Flies, c, f, Ahead
<1>2. /\ \A i \in Items : Ahead(Append(queue, i), c, f, x, x)
      /\ queue # <<>> /\ x # Head(queue) => Ahead(Tail(queue), c, f, x, x)
  BY <1>0, <1>1, StillFlies
<1>3. Ahead(queue', c, f, x, x)
  BY <1>1, <1>2
<1>4. QED
  BY <1>3 DEF Flies, c, f

\* The same for the latest roster.
LEMMA LatestKept ==
    ASSUME Typed,
           \/ queue' = queue
           \/ queue # <<>> /\ queue' = Tail(queue) /\ Head(queue).kind # "roster"
           \/ \E i \in Items : queue' = Append(queue, i)
    PROVE  Holds(queue, Latest) => Holds(queue', Latest)
<1>0. queue \in Seq(Items) /\ Latest \in Items /\ Latest.kind = "roster"
  BY Parts, ItemTyped DEF Typed, Latest, Kinds, Item
<1>1. /\ \A i \in Items : Holds(queue, Latest) => Holds(Append(queue, i), Latest)
      /\ queue # <<>> /\ Latest # Head(queue) /\ Holds(queue, Latest)
            => Holds(Tail(queue), Latest)
  <2>1. NoItem \in Items /\ <<>> \in Seq(Items)
    BY ItemTyped
  <2>2. QED
    BY <1>0, <2>1, StillFlies
<1>2. QED
  BY <1>0, <1>1

\* Nothing is forgotten by a plain step that leaves what is on its way.
LEMMA PlainRest ==
    ASSUME Typed, RestInv, Away, Plain(auth, auth'), RosterStays, FlightKept,
           auth.lanes["stream"].running => BatchesStay, Delivered', Priming'
    PROVE  RestInv'
<1>1. /\ Listened' /\ Wishes' /\ Expected' /\ Failure'
      /\ Turning' <=> Turning
  BY AwayKeeps DEF RestInv
<1>2. Owing'
  BY <1>1, OwingStays DEF RestInv, Away
<1>3. InOrder'
  BY NewsStays DEF RestInv, FlightKept
<1>4. disc'.gen = disc.gen /\ Latest' = Latest /\ disp'.rosterGen = disp.rosterGen
  BY DEF RosterStays, Latest
<1>5. \A x \in Items : Holds(queue', x) /\ x.kind = "roster" => Holds(queue, x) \/ x = Latest
  BY DEF FlightKept, Told
<1>6. Newest /\ disp.rosterGen <= disc.gen /\ InOrder
  BY DEF RestInv, Newest
<1>7. Newest'
  BY <1>4, <1>5, <1>6, NewsStays
<1>8. QED
  BY <1>1, <1>2, <1>3, <1>7 DEF RestInv

-----------------------------------------------------------------------------
(* The workers *)

\* A scan begins with an operation.
LEMMA ScanBeginRest ==
    ASSUME Typed, Facts, RestInv, ScanBegin
    PROVE  RestInv'
<1>1. /\ auth \in Authorities /\ disc \in DiscS /\ disc.receipt.life \in Nat
      /\ auth' = StartOperation(auth, "roster", disc.receipt.life)
      /\ UNCHANGED <<queue, stream, disp, co, pass, ticket>> /\ disc.pc = "idle"
      /\ disc' = [disc EXCEPT !.pc = "scan",
                              !.op = Started(auth', "roster", disc.receipt.life)]
  BY Parts DEF ScanBegin, Typed
<1>2. /\ Plain(auth, auth') /\ auth'.closed = auth.closed
      /\ \A l \in Lanes : auth'.lanes[l].running => auth.lanes[l].running
  BY <1>1, Names, PlainMethods, StartOperationFacts
<1>3. /\ disc'.gen = disc.gen /\ disc'.session = disc.session /\ disc'.latest = disc.latest
      /\ disc'.receipt = disc.receipt /\ disc'.worker = disc.worker
  BY <1>1 DEF DiscS
<1>4. Away
  BY <1>1, <1>2, <1>3 DEF Away, Plain
<1>5. RosterStays
  BY <1>1, <1>3 DEF RosterStays
<1>6. BatchesStay /\ FlightKept
  BY <1>1, BatchesKept, QueueKept DEF Facts, SourceTruth
<1>7. Delivered' /\ Priming'
  BY <1>1, <1>2 DEF RestInv, Delivered, Priming, Plain, Sure, StartOperation, Owns
<1>8. QED
  BY <1>2, <1>4, <1>5, <1>6, <1>7, PlainRest

\* A callback queues the latest roster.
LEMMA ScanDeliverRest ==
    ASSUME Typed, Facts, RestInv, ScanDeliver
    PROVE  RestInv'
<1>1. /\ auth \in Authorities /\ disc \in DiscS /\ queue' = Append(queue, Latest)
      /\ disc' = [disc EXCEPT !.pc = "idle"] /\ queue \in Seq(Items)
      /\ UNCHANGED <<auth, stream, disp, co, pass, ticket, tally>>
  BY DEF ScanDeliver, Typed, Latest
<1>2. Latest \in Items /\ Latest.kind = "roster" /\ NoItem \in Items /\ <<>> \in Seq(Items)
  <2>1. Latest \in Items /\ Latest.kind = "roster"
    BY Parts, ItemTyped DEF Kinds, Latest, Item
  <2>2. QED
    BY <2>1, ItemTyped
<1>3. Plain(auth, auth')
  BY <1>1, Names, PlainMethods
<1>4. /\ disc'.gen = disc.gen /\ disc'.session = disc.session /\ disc'.latest = disc.latest
      /\ disc'.receipt = disc.receipt /\ disc'.worker = disc.worker
  BY <1>1 DEF DiscS
<1>5. Away
  BY <1>1, <1>2, <1>4 DEF Away, Commands
<1>6. RosterStays
  <2>1. Holds(queue', Latest)
    BY <1>1, <1>2, StillFlies
  <2>2. QED
    BY <1>1, <1>4, <2>1 DEF RosterStays
<1>7. BatchesStay /\ FlightKept
  BY <1>1, <1>2, BatchesKept, QueueKept DEF Facts, SourceTruth, Joins, Batch
<1>8. Delivered' /\ Priming'
  BY <1>1 DEF RestInv, Delivered, Priming
<1>9. QED
  BY <1>3, <1>5, <1>6, <1>7, <1>8, PlainRest

\* A scan that found nothing, or failed.
LEMMA ScanFailedRest ==
    ASSUME Typed, Facts, RestInv, disc.pc = "scan",
           disc' = [disc EXCEPT !.pc = "idle", !.op = NoOperation],
           UNCHANGED <<auth, queue, stream, disp, co, pass, ticket, tally>>
    PROVE  RestInv'
<1>1. auth \in Authorities /\ disc \in DiscS
  BY DEF Typed
<1>2. Plain(auth, auth')
  BY <1>1, Names, PlainMethods
<1>3. /\ disc'.gen = disc.gen /\ disc'.session = disc.session /\ disc'.latest = disc.latest
      /\ disc'.receipt = disc.receipt /\ disc'.worker = disc.worker
  BY <1>1 DEF DiscS
<1>4. Away /\ RosterStays
  BY <1>3 DEF Away, RosterStays
<1>5. BatchesStay /\ FlightKept
  BY BatchesKept, QueueKept DEF Facts, SourceTruth
<1>6. Delivered' /\ Priming'
  BY DEF RestInv, Delivered, Priming
<1>7. QED
  BY <1>2, <1>4, <1>5, <1>6, PlainRest

\* A scan that has a roster to tell: while the views may be shown its operation was
\* granted and somebody listens, so that what it reserves is on its way.
LEMMA ScanCommitRest ==
    ASSUME Typed, LifeInv, Facts, RestInv, ScanCommit
    PROVE  RestInv'
<1>0. /\ auth \in Authorities /\ disc \in DiscS /\ disc.pc = "scan" /\ disc.gen \in Nat
      /\ UNCHANGED <<queue, stream, disp, co, pass, ticket, tally>>
  BY Parts DEF Typed, ScanCommit
<1>1. CASE disc' = [disc EXCEPT !.pc = "idle", !.op = NoOperation] /\ UNCHANGED auth
  BY <1>0, <1>1, ScanFailedRest
<1>2. ASSUME NEW s \in {disc.session, 0, disc.seen + 1},
             LET reserves == /\ s # disc.session
                             /\ disc.op # NoOperation
                             /\ Owns(auth, "roster", disc.op.life)
                 receipt == IF reserves THEN Granted(auth', "roster") ELSE disc.receipt
             IN  /\ auth' = IF reserves THEN ReserveLocked(auth, "roster") ELSE auth
                 /\ disc' = [disc EXCEPT
                        !.pc = IF co.discSub THEN "deliver" ELSE "idle",
                        !.session = s, !.gen = @ + 1,
                        !.seen = IF s > @ THEN s ELSE @,
                        !.receipt = receipt, !.op = NoOperation,
                        !.latest = IF disc.op = NoOperation \/ receipt = NoReceipt
                                   THEN NoDelivery
                                   ELSE Delivery(disc.op, receipt, 0, FALSE)]
      PROVE  RestInv'
  <2> DEFINE reserves == /\ s # disc.session /\ disc.op # NoOperation
                         /\ Owns(auth, "roster", disc.op.life)
             receipt == IF reserves THEN Granted(auth', "roster") ELSE disc.receipt
             latest == IF disc.op = NoOperation \/ receipt = NoReceipt
                       THEN NoDelivery ELSE Delivery(disc.op, receipt, 0, FALSE)
  <2>1. auth' = IF reserves THEN ReserveLocked(auth, "roster") ELSE auth
    BY <1>2
  <2>2. /\ disc'.gen = disc.gen + 1 /\ disc'.receipt = receipt /\ disc'.latest = latest
        /\ disc'.worker = disc.worker
        /\ disc'.pc = IF co.discSub THEN "deliver" ELSE "idle"
    BY <1>0, <1>2 DEF DiscS
  <2>3. /\ SameRest(auth, auth') /\ Others(auth, auth', "roster")
        /\ auth'.lanes["roster"].running = auth.lanes["roster"].running
        /\ auth'.lanes["roster"].life = auth.lanes["roster"].life
        /\ reserves => /\ ~auth.closed
                       /\ auth'.lanes["roster"].requested.life = auth.lanes["roster"].life
    <3>1. CASE reserves
      <4>1. auth.lanes["roster"].running /\ ~auth.closed
        BY <3>1 DEF Owns
      <4>2. /\ SameRest(auth, auth') /\ Others(auth, auth', "roster")
            /\ auth'.lanes["roster"].life = auth.lanes["roster"].life
            /\ auth'.lanes["roster"].running = auth.lanes["roster"].running
            /\ auth'.lanes["roster"].requested
                  = [life |-> auth.lanes["roster"].life,
                     order |-> auth.lanes["roster"].requested.order + 1]
        BY <1>0, <2>1, <3>1, Names, LaneEffects
      <4>3. QED
        BY <4>1, <4>2
    <3>2. CASE ~reserves
      BY <2>1, <3>2 DEF SameRest, Others
    <3>3. QED
      BY <3>1, <3>2
  <2>4. /\ disc.worker /\ disc.receipt.life = auth.lanes["roster"].life
        /\ disc.receipt.life # 0
        /\ disc.op = NoOperation => ~Owns(auth, "roster", disc.receipt.life)
    BY <1>0 DEF Facts, DiscoveryTruth, LifeInv
  <2>5. receipt.life = disc.receipt.life
    BY <2>3, <2>4 DEF Granted, SameRest
  <2> HIDE DEF latest, receipt, reserves
  <2>6. \A l \in Lanes : /\ auth'.lanes[l].running = auth.lanes[l].running
                         /\ auth'.lanes[l].life = auth.lanes[l].life
    BY <2>3 DEF Others
  <2>7. Away
    BY <1>0, <2>2, <2>3, <2>6 DEF Away, SameRest, Doomed
  <2>8. /\ Listened' /\ Wishes' /\ Expected' /\ Failure'
        /\ Turning' <=> Turning
    BY <2>7, AwayKeeps DEF RestInv
  <2>9. Delivered' /\ Priming'
    BY <1>0, <2>3 DEF RestInv, Delivered, Priming, SameRest
  <2>10. InOrder'
    BY <1>0, NewsStays DEF RestInv, Flies
  <2>11. disp'.rosterGen < disc'.gen /\ disc.gen < disc'.gen
    <3>1. disp.rosterGen \in Nat /\ disp.rosterGen <= disc.gen
      BY DEF RestInv, Newest, Typed, DispS
    <3>2. QED
      BY <1>0, <2>2, <3>1
  <2>12. Newest'
    <3>1. ASSUME NEW x \in Items, Holds(queue, x), x.kind = "roster", x.gen = disc'.gen
          PROVE  FALSE
      <4>1. x.gen <= disc.gen
        BY <3>1 DEF Facts, RosterTruth, Told, Dated
      <4>2. QED
        BY <1>0, <2>2, <3>1, <4>1
    <3>2. disp'.rosterGen <= disc'.gen
      BY <1>0, <2>2, <2>11 DEF Typed, DispS
    <3>3. QED
      BY <1>0, <3>1, <3>2 DEF Newest
  <2>13. Owing'
    <3> SUFFICES ASSUME Live', ~Turning' PROVE Owing'
      BY DEF Owing
    <3>1. Live /\ ~Turning /\ ~auth.closed
      BY <1>0, <2>3, <2>8 DEF Live, Sure, SameRest
    <3>2. /\ auth.lanes["roster"].running /\ auth.lanes["stream"].life # 0
          /\ auth.lanes["stream"].running => StreamOwed /\ Synced(auth, "control")
      BY <3>1 DEF RestInv, Owing
    <3>3. disc.op # NoOperation
      BY <2>4, <3>1, <3>2 DEF Owns
    <3>4. co.discSub
      BY <2>4, <3>1, <3>2 DEF RestInv, Listened
    <3>5. receipt # NoReceipt
      BY <2>4, <2>5 DEF NoReceipt
    <3>6. latest = Delivery(disc.op, receipt, 0, FALSE)
      BY <3>3, <3>5 DEF latest
    <3>7. RosterOwed'
      BY <2>2, <2>11, <3>3, <3>4, <3>6 DEF RosterOwed, Delivery
    <3>8. Firm(auth.lanes["stream"], auth'.lanes["stream"])
          /\ Firm(auth.lanes["control"], auth'.lanes["control"])
      BY <2>3, Names DEF Others, Firm
    <3>9. BatchesStay
      BY <1>0, BatchesKept
    <3>10. StreamOwed => StreamOwed'
      BY <3>8, <3>9, StaysOwed
    <3>11. QED
      BY <2>6, <3>2, <3>7, <3>8, <3>10, Names DEF Owing, Firm, Synced
  <2>14. QED
    BY <2>8, <2>9, <2>10, <2>12, <2>13 DEF RestInv
<1>3. QED
  BY <1>1, <1>2 DEF ScanCommit

\* An operation of the log worker begins.
LEMMA WorkBeginRest ==
    ASSUME Typed, Facts, RestInv, WorkBegin
    PROVE  RestInv'
<1>1. /\ auth \in Authorities /\ stream \in StreamS /\ stream.receipt.life \in Nat
      /\ auth' = StartOperation(auth, "stream", stream.receipt.life)
      /\ UNCHANGED <<queue, disc, disp, co, pass, ticket>>
      /\ stream' = [stream EXCEPT !.pc = "work", !.d = OperationOf(auth', stream.receipt, 0)]
  BY Parts DEF WorkBegin, Typed
<1>2. /\ Plain(auth, auth') /\ auth'.closed = auth.closed
      /\ \A l \in Lanes : auth'.lanes[l].running => auth.lanes[l].running
  BY <1>1, Names, PlainMethods, StartOperationFacts
<1>3. /\ stream'.fifo = stream.fifo /\ stream'.carried = stream.carried
      /\ stream'.drainer = stream.drainer
  BY <1>1 DEF StreamS
<1>4. Away /\ RosterStays
  BY <1>1, <1>2 DEF Away, Plain, RosterStays
<1>5. BatchesStay /\ FlightKept
  BY <1>1, <1>3, BatchesKept, QueueKept DEF Facts, SourceTruth
<1>6. Delivered' /\ Priming'
  BY <1>1, <1>2, <1>3 DEF RestInv, Delivered, Priming, Plain, Sure, StartOperation, Owns
<1>7. QED
  BY <1>2, <1>4, <1>5, <1>6, PlainRest

\* A batch without a receipt of its own joins the deliveries.
LEMMA JoinsRest ==
    ASSUME Typed, RestInv, Away, Plain(auth, auth'), RosterStays, queue' = queue,
           NEW i \in Items, Batch(i), ~i.d.invalidates, stream'.carried = stream.carried,
           stream'.fifo = Append(stream.fifo, i), disc'.gen = disc.gen, Delivered', Priming'
    PROVE  RestInv'
<1>0. queue \in Seq(Items) /\ stream.carried \in Items /\ stream.fifo \in Seq(Items)
  BY Parts DEF Typed
<1>1. /\ Listened' /\ Wishes' /\ Expected' /\ Failure'
      /\ Turning' <=> Turning
  BY AwayKeeps DEF RestInv
<1>2. BatchesStay
  <2>1. \A x \in Items : Ahead(queue, stream.carried, stream.fifo, x, x)
           => Ahead(queue, stream.carried, Append(stream.fifo, i), x, x)
    BY <1>0, StillFlies
  <2>2. QED
    BY <2>1 DEF BatchesStay, Flies
<1>3. Owing'
  BY <1>1, <1>2, OwingStays DEF RestInv, Away
<1>4. InOrder'
  <2>1. \A x, y \in Items : Ahead(queue, stream.carried, Append(stream.fifo, i), x, y)
           => Ahead(queue, stream.carried, stream.fifo, x, y) \/ y = i
    BY <1>0, DeliveryOrder
  <2>2. \A x, y \in Items : Flies(x, y)' => Flies(x, y) \/ y = i
    BY <2>1 DEF Flies
  <2>3. QED
    BY <2>2 DEF RestInv, InOrder
<1>5. Latest' = Latest /\ disp'.rosterGen = disp.rosterGen /\ Newest
  BY DEF RosterStays, Latest, RestInv
<1>6. Newest'
  BY <1>5, NewsStays DEF Newest
<1>7. QED
  BY <1>1, <1>3, <1>4, <1>6 DEF RestInv

\* The end of an operation leaves a batch to whoever owns delivery.
LEMMA WorkDoneDrains ==
    ASSUME NEW st \in StreamS
    PROVE  WorkDone(st).drainer = "none" => st.fifo = <<>> /\ st.drainer = "none"
<1> DEFINE u == [st EXCEPT !.d = NoDelivery]
           c == Claimed(u, "worker")
<1>1. u \in StreamS /\ u.fifo = st.fifo /\ u.drainer = st.drainer
  BY Stamp0 DEF StreamS
<1> HIDE DEF u
<1>2. /\ c \in StreamS
      /\ c.drainer = "none" => u.fifo = <<>> /\ u.drainer = "none"
  BY <1>1 DEF Claimed, StreamS
<1>3. WorkDone(st) = [c EXCEPT !.pc = IF c.drainer = "worker" THEN "drain" ELSE "idle"]
  BY DEF WorkDone, u
<1> HIDE DEF c
<1>4. WorkDone(st).drainer = c.drainer
  BY <1>2, <1>3 DEF StreamS
<1>5. QED
  BY <1>1, <1>2, <1>4

\* Nothing was found, or a batch of facts was left.
LEMMA WorkReadRest ==
    ASSUME Typed, Facts, RestInv, stream.pc = "work", WorkRest, auth' = auth,
           \/ stream' = WorkDone(stream)
           \/ stream' = WorkDone([stream EXCEPT
                           !.fifo = Append(@, Item("facts", 0, 0, stream.d, 0))])
    PROVE  RestInv'
<1> DEFINE i == Item("facts", 0, 0, stream.d, 0)
           st == [stream EXCEPT !.fifo = Append(stream.fifo, i)]
<1>1. stream \in StreamS /\ auth \in Authorities /\ Plain(auth, auth')
  BY PlainMethods, Names DEF Typed
<1>2. i \in Items /\ i.d = stream.d /\ Batch(i)
  BY Parts, ItemTyped DEF Kinds, Item, Batch
<1> HIDE DEF i
<1>3. ~i.d.invalidates
  BY <1>2 DEF Facts, StreamTruth
<1>4. /\ st \in StreamS /\ st.fifo = Append(stream.fifo, i) /\ st.carried = stream.carried
      /\ st.drainer = stream.drainer
  BY <1>1, <1>2, Parts, Queues DEF StreamS
<1>5. stream' = WorkDone(stream) \/ stream' = WorkDone(st)
  BY DEF i
<1> HIDE DEF st
<1>6. /\ stream'.carried = stream.carried
      /\ stream'.fifo = stream.fifo \/ stream'.fifo = Append(stream.fifo, i)
      /\ stream'.drainer = "none" => stream'.fifo = <<>> /\ stream.drainer = "none"
  BY <1>1, <1>4, <1>5, WorkDoneKeeps, WorkDoneDrains
<1>7. Delivered' /\ Priming'
  BY <1>6 DEF RestInv, Delivered, Priming, WorkRest
<1>8. Away /\ RosterStays /\ disc'.gen = disc.gen /\ queue' = queue
  BY DEF Away, RosterStays, WorkRest
<1>9. CASE stream'.fifo = stream.fifo
  <2>1. BatchesStay /\ FlightKept
    BY <1>6, <1>8, <1>9, BatchesKept, QueueKept DEF Facts, SourceTruth
  <2>2. QED
    BY <1>1, <1>7, <1>8, <2>1, PlainRest
<1>10. CASE stream'.fifo = Append(stream.fifo, i)
  BY <1>1, <1>2, <1>3, <1>6, <1>7, <1>8, <1>10, JoinsRest
<1>11. QED
  BY <1>6, <1>9, <1>10

\* A log found, replaced or lost: what the lane then owes is the last batch.
LEMMA WorkMutateRest ==
    ASSUME Typed, Facts, RestInv, stream.pc = "work", WorkRest, NEW g \in Nat,
           auth' = Mutate(g).auth, stream' = WorkDone(Mutate(g).stream)
    PROVE  RestInv'
<1> DEFINE a == IF Invalidates THEN ReserveLocked(auth, "stream") ELSE auth
           r == IF Invalidates THEN Granted(a, "stream") ELSE stream.receipt
           d == IF Invalidates THEN Delivery(stream.d.op, r, 0, TRUE) ELSE stream.d
           i == Item("source", 0, g, d, 0)
           t == [stream EXCEPT !.tracked = g, !.gens = IF g > stream.gens THEN g ELSE stream.gens,
                               !.receipt = r, !.fifo = Append(stream.fifo, i)]
           lane == auth.lanes["stream"]
<1>1. auth \in Authorities /\ stream \in StreamS /\ queue \in Seq(Items)
      /\ stream.carried \in Items /\ stream.fifo \in Seq(Items)
  BY Parts DEF Typed
<1>2. auth' = a /\ stream' = WorkDone(t)
  BY DEF Mutate
<1>3. /\ lane.requested \in Stamps /\ lane.requested.order \in Nat /\ lane.life \in Nat
      /\ stream.receipt = lane.requested
      /\ stream.d.op \in Stamps /\ stream.d \in Deliveries /\ ~stream.d.invalidates
  BY <1>1, Names, Fields, LaneFields, Parts DEF Stamps, Facts, LaneTruth, StreamTruth
<1>4. IF Invalidates
      THEN /\ SameRest(auth, auth') /\ Others(auth, auth', "stream")
           /\ auth'.lanes["stream"].life = lane.life
           /\ auth'.lanes["stream"].running = lane.running
           /\ auth'.lanes["stream"].applied = lane.applied
           /\ auth'.lanes["stream"].requested
                 = [life |-> lane.life, order |-> lane.requested.order + 1]
           /\ r = auth'.lanes["stream"].requested
           /\ d = Delivery(stream.d.op, r, 0, TRUE)
      ELSE auth' = auth /\ r = stream.receipt /\ d = stream.d
  <2>1. CASE Invalidates
    <3>1. ~auth.closed
      BY <2>1 DEF Invalidates, Owns
    <3>2. auth' = ReserveLocked(auth, "stream") /\ d = Delivery(stream.d.op, r, 0, TRUE)
      BY <1>2, <2>1
    <3>3. LET b == ReserveLocked(auth, "stream") IN
          /\ SameRest(auth, b) /\ Others(auth, b, "stream")
          /\ b.lanes["stream"].life = lane.life
          /\ b.lanes["stream"].running = lane.running
          /\ b.lanes["stream"].applied = lane.applied
          /\ b.lanes["stream"].requested
                = [life |-> lane.life, order |-> lane.requested.order + 1]
      BY <1>1, Names, LaneEffects
    <3>4. r = auth'.lanes["stream"].requested
      BY <1>2, <2>1, <3>1, <3>2, <3>3 DEF Granted, SameRest
    <3> HIDE DEF a, r, d
    <3>5. QED
      BY <2>1, <3>2, <3>3, <3>4
  <2>2. CASE ~Invalidates
    BY <1>2, <2>2
  <2>3. QED
    BY <2>1, <2>2
<1> HIDE DEF a
<1>5. r \in Stamps /\ d \in Deliveries
  <2>1. r \in Stamps
    BY <1>3, <1>4 DEF Stamps
  <2> HIDE DEF r
  <2>2. QED
    BY <1>3, <2>1, DeliveryTyped
<1>6. /\ d.invalidates <=> Invalidates
      /\ Invalidates => d.receipt = r
  BY <1>3, <1>4 DEF Delivery
<1> HIDE DEF r
<1>7. i \in Items /\ i.d = d /\ i.kind = "source" /\ Batch(i)
  <2> HIDE DEF d
  <2>1. QED
    BY <1>5, ItemTyped DEF Kinds, Item, Batch
<1> HIDE DEF d, i
<1>8. /\ t \in StreamS /\ t.fifo = Append(stream.fifo, i) /\ t.carried = stream.carried
      /\ t.drainer = stream.drainer
  <2>1. Append(stream.fifo, i) \in Seq(Items) /\ stream.gens \in Nat
    BY <1>1, <1>7, Parts, Queues
  <2>2. QED
    BY <1>1, <1>5, <2>1 DEF StreamS
<1> HIDE DEF t
<1>9. /\ stream'.fifo = Append(stream.fifo, i) /\ stream'.carried = stream.carried
      /\ stream'.drainer = "none" => stream'.fifo = <<>> /\ stream.drainer = "none"
  BY <1>2, <1>8, WorkDoneKeeps, WorkDoneDrains
<1>10. Delivered'
  BY <1>9 DEF RestInv, Delivered
<1>11. Priming'
  BY <1>4 DEF RestInv, Priming, WorkRest, SameRest
<1>12. Away
  <2>1. /\ auth'.closed = auth.closed /\ (Doomed(auth) => Doomed(auth'))
        /\ \A l \in Lanes : auth'.lanes[l].running => auth.lanes[l].running
    BY <1>4 DEF SameRest, Others, Doomed
  <2>2. QED
    BY <2>1 DEF Away, WorkRest
<1>13. RosterStays
  BY DEF RosterStays, WorkRest
<1>14. CASE ~Invalidates
  <2>1. Plain(auth, auth')
    BY <1>1, <1>4, <1>14, PlainMethods, Names
  <2>2. QED
    BY <1>6, <1>7, <1>9, <1>10, <1>11, <1>12, <1>13, <1>14, <2>1, JoinsRest DEF WorkRest
<1>15. CASE Invalidates
  <2>1. /\ Listened' /\ Wishes' /\ Expected' /\ Failure'
        /\ Turning' <=> Turning
    BY <1>12, AwayKeeps DEF RestInv
  <2>2. Newest'
    BY DEF RestInv, Newest, WorkRest, Latest
  <2>3. \A x, y \in Items : Flies(x, y)' => Flies(x, y) \/ (y = i /\ (x = i \/ Flies(x, x)))
    BY <1>1, <1>7, <1>9, DeliveryOrder DEF Flies, WorkRest
  <2>4. i.d.receipt = [life |-> lane.life, order |-> lane.requested.order + 1]
    BY <1>4, <1>6, <1>7, <1>15
  <2>5. InOrder'
    <3> SUFFICES ASSUME NEW x \in Items, NEW y \in Items, Flies(x, y)',
                        x.d.invalidates, y.d.invalidates,
                        x.d.receipt.life = y.d.receipt.life
                 PROVE  x.d.receipt.order <= y.d.receipt.order
      BY DEF InOrder
    <3>0. x.d.receipt.order \in Nat
      BY ItemFields DEF Stamps
    <3>1. CASE Flies(x, y)
      BY <3>1 DEF RestInv, InOrder
    <3>2. CASE y = i /\ x = i
      BY <3>0, <3>2
    <3>3. CASE y = i /\ Flies(x, x)
      <4>1. Issued(x.d.receipt, lane, lane.requested)
        BY <1>3, <3>3 DEF Facts, SourceTruth, Past
      <4>2. lane.requested.life = lane.life
        BY Names DEF Facts, LaneTruth, Sound, LaneSound
      <4>3. x.d.receipt.order <= lane.requested.order
        BY <2>4, <3>3, <4>1, <4>2 DEF Issued
      <4>4. QED
        BY <1>3, <2>4, <3>0, <3>3, <4>3
    <3>4. QED
      BY <2>3, <3>1, <3>2, <3>3
  <2>6. Owing'
    <3> SUFFICES ASSUME Live', ~Turning' PROVE Owing'
      BY DEF Owing
    <3>1. Live /\ ~Turning
      BY <1>4, <1>15, <2>1 DEF Live, Sure, SameRest, WorkRest
    <3>2. /\ auth.lanes["roster"].running /\ lane.life # 0 /\ RosterOwed
          /\ lane.running => StreamOwed /\ Synced(auth, "control")
      BY <3>1 DEF RestInv, Owing
    <3>3. RosterOwed'
      BY <1>4, <1>13, <1>15, <3>2, StaysOwed, Names DEF Others, Firm
    <3>4. ASSUME StreamOwed PROVE StreamOwed'
      <4> SUFFICES ASSUME NEW n \in Nat, auth'.lanes["stream"].applied < n,
                          n <= auth'.lanes["stream"].requested.order
                   PROVE  \E x \in Items : Flies(x, x)' /\ Owes(x, n)'
        BY DEF StreamOwed
      <4>1. CASE n <= lane.requested.order
        <5>1. PICK x \in Items : Flies(x, x) /\ Owes(x, n)
          BY <1>4, <1>15, <3>4, <4>1 DEF StreamOwed
        <5>2. Flies(x, x)'
          <6>1. Ahead(queue, stream.carried, Append(stream.fifo, i), x, x)
            BY <1>1, <1>7, <5>1, StillFlies DEF Flies
          <6>2. QED
            BY <1>9, <6>1 DEF Flies, WorkRest
        <5>3. Owes(x, n)'
          BY <1>4, <1>15, <5>1 DEF Owes
        <5>4. QED
          BY <5>2, <5>3
      <4>2. CASE ~(n <= lane.requested.order)
        <5>1. n = lane.requested.order + 1
          BY <1>3, <1>4, <1>15, <4>2
        <5>2. PICK x \in Items : x = i
          BY <1>7
        <5>3. Owes(x, n)'
          BY <1>4, <1>6, <1>7, <1>15, <2>4, <5>1, <5>2 DEF Owes
        <5>4. Flies(x, x)'
          <6>1. Ahead(queue, stream.carried, Append(stream.fifo, i), i, i)
            BY <1>1, <1>7, StillFlies
          <6>2. Ahead(queue, stream.carried, Append(stream.fifo, i), x, x)
            BY <5>2, <6>1
          <6>3. QED
            BY <1>9, <6>2 DEF Flies, WorkRest
        <5>5. QED
          BY <5>3, <5>4
      <4>3. QED
        BY <4>1, <4>2
    <3>5. QED
      BY <1>4, <1>15, <3>2, <3>3, <3>4, Names DEF Owing, Others, Synced
  <2>7. QED
    BY <1>10, <1>11, <2>1, <2>2, <2>5, <2>6 DEF RestInv
<1>16. QED
  BY <1>14, <1>15

\* Finding, losing or reading a log.
LEMMA WorkKeepsRest ==
    ASSUME Typed, Facts, RestInv, Work
    PROVE  RestInv'
<1>1. stream.pc = "work" /\ WorkRest
  BY DEF Work, WorkRest
<1>2. \A g \in {0, stream.gens + 1} : g \in Nat
  BY Parts
<1>3. CASE auth' = auth /\ stream' = WorkDone(stream)
  BY <1>1, <1>3, WorkReadRest
<1>4. CASE /\ auth' = auth
           /\ stream' = WorkDone([stream EXCEPT
                           !.fifo = Append(@, Item("facts", 0, 0, stream.d, 0))])
  BY <1>1, <1>4, WorkReadRest
<1>5. ASSUME NEW g \in {0, stream.gens + 1} \ {stream.tracked},
             auth' = Mutate(g).auth, stream' = WorkDone(Mutate(g).stream)
      PROVE  RestInv'
  BY <1>1, <1>2, <1>5, WorkMutateRest
<1>6. QED
  BY <1>3, <1>4, <1>5 DEF Work

\* The owner of delivery leaves when nothing is left.
LEMMA DrainLeaves ==
    ASSUME Typed, NEW st \in StreamS, st.drainer # "none",
           stream' = DrainEnds(st), disp' = DispatcherAfter(stream'),
           UNCHANGED <<auth, disc, co, pass>>,
           \/ queue' = queue
           \/ \E i \in Items : ~Commands(i) /\ queue' = Append(queue, i)
    PROVE  /\ stream'.fifo = st.fifo /\ stream'.carried = st.carried
           /\ Delivered' /\ Away /\ (Priming => Priming') /\ Plain(auth, auth')
           /\ disp'.rosterGen = disp.rosterGen
<1>1. disp \in DispS /\ auth \in Authorities
  BY DEF Typed
<1>2. /\ stream'.fifo = st.fifo /\ stream'.carried = st.carried
      /\ stream'.drainer = "none" => st.fifo = <<>> /\ st.carried = NoItem
  BY DEF DrainEnds, StreamS
<1>3. /\ disp'.active = disp.active /\ disp'.item = disp.item
      /\ disp'.rosterGen = disp.rosterGen
      /\ disp'.pc = disp.pc \/ (disp.pc = "draining" /\ disp'.pc = "idle")
  BY <1>1 DEF DispatcherAfter, DispS
<1>4. Away
  BY <1>3 DEF Away
<1>5. Delivered'
  BY <1>2 DEF Delivered
<1>6. Priming => Priming'
  BY <1>3 DEF Priming
<1>7. QED
  BY <1>1, <1>2, <1>3, <1>4, <1>5, <1>6, PlainMethods, Names

\* A batch is taken, or dropped when the stream was stopped.
LEMMA DrainTakeRest ==
    ASSUME Typed, DrainInv, Facts, RestInv, DrainTake
    PROVE  RestInv'
<1> DEFINE c == IF co.streamSub THEN Head(stream.fifo) ELSE NoItem
           t == [stream EXCEPT !.fifo = Tail(stream.fifo), !.carried = c]
<1>0. /\ stream \in StreamS /\ queue \in Seq(Items) /\ stream.fifo \in Seq(Items)
      /\ stream.carried \in Items
  BY Parts DEF Typed
<1>1. stream.fifo # <<>> /\ stream.drainer # "none" /\ stream.carried = NoItem
  BY DEF DrainTake, DrainInv
<1>2. /\ c \in Items /\ Tail(stream.fifo) \in Seq(Items) /\ Head(stream.fifo) \in Items
      /\ c = Head(stream.fifo) \/ c = NoItem
      /\ co.streamSub => c = Head(stream.fifo)
  BY <1>0, <1>1, Queues, ItemTyped
<1>3. stream' = DrainEnds(t) /\ disp' = DispatcherAfter(stream')
      /\ UNCHANGED <<auth, queue, disc, co, pass, ticket, tally>>
  BY DEF DrainTake
<1> HIDE DEF c
<1>4. /\ t \in StreamS /\ t.drainer # "none" /\ t.fifo = Tail(stream.fifo) /\ t.carried = c
  BY <1>0, <1>1, <1>2 DEF StreamS
<1> HIDE DEF t
<1>5. /\ stream'.fifo = Tail(stream.fifo) /\ stream'.carried = c
      /\ Delivered' /\ Away /\ Priming' /\ Plain(auth, auth')
      /\ disp'.rosterGen = disp.rosterGen
  <2>1. Priming
    BY DEF RestInv
  <2>2. QED
    BY <1>3, <1>4, <2>1, DrainLeaves
<1>6. FlightKept
  <2>1. OnlyBatches'
    <3>1. Holds(stream.fifo, Head(stream.fifo))
      BY <1>0, <1>1, <1>2, Ends
    <3>2. \A x \in Items : Holds(Tail(stream.fifo), x) => Holds(stream.fifo, x)
      BY <1>0, <1>1, Ends
    <3>3. QED
      BY <1>2, <1>5, <3>1, <3>2 DEF OnlyBatches, Facts, SourceTruth
  <2>2. \A x, y \in Items : Ahead(queue, c, Tail(stream.fifo), x, y)
                               => Ahead(queue, stream.carried, stream.fifo, x, y)
    BY <1>0, <1>1, <1>2, DeliveryOrder
  <2>3. \A x, y \in Items : Flies(x, y)' => Flies(x, y)
    BY <1>3, <1>5, <2>2 DEF Flies
  <2>4. \A x \in Items : Holds(queue', x) /\ x.kind = "roster" => Told(x)
    BY <1>3 DEF Told
  <2>5. QED
    BY <2>1, <2>3, <2>4 DEF FlightKept
<1>7. auth.lanes["stream"].running => BatchesStay
  <2> SUFFICES ASSUME auth.lanes["stream"].running, NEW x \in Items, Flies(x, x)
               PROVE  Flies(x, x)'
    BY DEF BatchesStay
  <2>1. c = Head(stream.fifo)
    BY <1>2 DEF RestInv, Listened
  <2>2. Ahead(queue, Head(stream.fifo), Tail(stream.fifo), x, x)
    BY <1>0, <1>1, StillFlies DEF Flies
  <2>3. QED
    BY <1>3, <1>5, <2>1, <2>2 DEF Flies
<1>8. RosterStays
  BY <1>3, <1>5 DEF RosterStays
<1>9. QED
  BY <1>5, <1>6, <1>7, <1>8, PlainRest

\* The batch that was taken is queued.
LEMMA DrainPutRest ==
    ASSUME Typed, DrainInv, Facts, RestInv, DrainPut
    PROVE  RestInv'
<1> DEFINE t == [stream EXCEPT !.carried = NoItem]
           c == stream.carried
<1>0. /\ stream \in StreamS /\ queue \in Seq(Items) /\ stream.fifo \in Seq(Items)
      /\ c \in Items /\ NoItem \in Items
  BY Parts, ItemTyped DEF Typed
<1>1. Batch(c) /\ ~Commands(c) /\ c.kind # "roster"
  BY DEF DrainPut, Facts, SourceTruth, OnlyBatches, Batch, Commands
<1>2. stream' = DrainEnds(t) /\ disp' = DispatcherAfter(stream')
      /\ queue' = Append(queue, c) /\ stream.drainer # "none"
      /\ UNCHANGED <<auth, disc, co, pass, ticket, tally>>
  BY DEF DrainPut
<1>3. /\ t \in StreamS /\ t.drainer # "none" /\ t.fifo = stream.fifo /\ t.carried = NoItem
  BY <1>0, <1>2 DEF StreamS
<1> HIDE DEF t
<1>4. /\ stream'.fifo = stream.fifo /\ stream'.carried = NoItem
      /\ Delivered' /\ Away /\ Priming' /\ Plain(auth, auth')
      /\ disp'.rosterGen = disp.rosterGen
  <2>1. Priming
    BY DEF RestInv
  <2>2. \E i \in Items : ~Commands(i) /\ queue' = Append(queue, i)
    BY <1>0, <1>1, <1>2
  <2>3. QED
    BY <1>2, <1>3, <2>1, <2>2, DrainLeaves
<1>5. FlightKept
  <2>1. OnlyBatches'
    BY <1>4 DEF OnlyBatches, Facts, SourceTruth
  <2>2. \A x, y \in Items : Ahead(Append(queue, c), NoItem, stream.fifo, x, y)
                               => Ahead(queue, c, stream.fifo, x, y)
    <3> HIDE DEF c
    <3>1. QED
      BY <1>0, DeliveryOrder
  <2>3. \A x, y \in Items : Flies(x, y)' => Flies(x, y)
    BY <1>2, <1>4, <2>2 DEF Flies
  <2>4. \A x \in Items : Holds(Append(queue, c), x) => Holds(queue, x) \/ x = c
    <3> HIDE DEF c
    <3>1. QED
      BY <1>0, Ends
  <2>5. \A x \in Items : Holds(queue', x) /\ x.kind = "roster" => Told(x)
    BY <1>1, <1>2, <2>4 DEF Told
  <2>6. QED
    BY <2>1, <2>3, <2>5 DEF FlightKept
<1>6. BatchesStay
  <2>1. \A x \in Items : Ahead(queue, c, stream.fifo, x, x)
                            => Ahead(Append(queue, c), NoItem, stream.fifo, x, x)
    <3> HIDE DEF c
    <3>1. QED
      BY <1>0, StillFlies
  <2>2. QED
    BY <1>2, <1>4, <2>1 DEF BatchesStay, Flies
<1>7. RosterStays
  <2>1. Holds(queue, Latest) => Holds(queue', Latest)
    BY <1>0, <1>2, LatestKept
  <2>2. QED
    BY <1>2, <1>4, <2>1 DEF RosterStays
<1>8. QED
  BY <1>4, <1>5, <1>6, <1>7, PlainRest

-----------------------------------------------------------------------------
(* Nothing is forgotten: the dispatcher *)

\* What is poisoned is withheld.
LEMMA PoisonUnsure ==
    ASSUME NEW a \in Authorities
    PROVE  /\ ~Sure(Poison(a)) /\ Poison(a).closed = a.closed /\ Poison(a).lanes = a.lanes
           /\ a.pending # 0 => Doomed(Poison(a))
<1> DEFINE p == [a EXCEPT !.poisoned = TRUE, !.clean = FALSE]
<1>1. /\ p \in Authorities /\ p.poisoned /\ ~p.clean /\ p.pending = a.pending
      /\ p.closed = a.closed /\ p.lanes = a.lanes
  BY DEF Authorities
<1>2. Poison(a) = Revoke(p)
  BY DEF Poison
<1> HIDE DEF p
<1>3. /\ Revoke(p).poisoned /\ ~Revoke(p).clean /\ Revoke(p).pending = a.pending
      /\ Revoke(p).closed = a.closed /\ Revoke(p).lanes = a.lanes
  BY <1>1, RevokeFacts
<1>4. QED
  BY <1>2, <1>3 DEF Sure, Doomed

\* A step of the dispatcher that acknowledges nothing and takes nothing.
LEMMA QuietRest ==
    ASSUME Typed, Facts, RestInv, UNCHANGED <<queue, disc, stream, co, pass>>,
           Plain(auth, auth'), auth'.closed = auth.closed,
           disp'.active = disp.active, disp'.item = disp.item, disp'.rosterGen = disp.rosterGen,
           disp.pc # "reset", disp'.pc \notin {"reset", "prime"}
    PROVE  RestInv'
<1>1. Away
  BY DEF Away, Plain, Firm
<1>2. RosterStays
  BY DEF RosterStays
<1>3. FlightKept
  BY QueueKept DEF Facts, SourceTruth
<1>4. BatchesStay
  BY BatchesKept
<1>5. Delivered' /\ Priming'
  BY DEF RestInv, Delivered, Priming
<1>6. QED
  BY <1>1, <1>2, <1>3, <1>4, <1>5, PlainRest

\* A step that takes what is no command.
LEMMA TakesRest ==
    ASSUME Typed, Facts, RestInv, NEW item, Takes(item), ~Commands(item),
           UNCHANGED <<disc, stream, co, pass>>,
           disp'.active = disp.active, disp'.item = disp.item,
           disp'.pc \notin {"reset", "prime"}, disp'.rosterGen <= disc.gen,
           auth'.closed = auth.closed, Doomed(auth) => Doomed(auth'),
           \A l \in Lanes : auth'.lanes[l].running => auth.lanes[l].running
    PROVE  (Turning' <=> Turning) /\ (Owing' => RestInv')
<1>1. /\ item \in Items /\ FlightKept /\ queue # <<>> /\ item = Head(queue)
      /\ queue' = Tail(queue) /\ disp.pc = "idle" /\ queue \in Seq(Items)
  BY TakesKeeps
<1>2. Away
  BY <1>1 DEF Away
<1>3. /\ Listened' /\ Wishes' /\ Expected' /\ Failure' /\ (Turning' <=> Turning)
  BY <1>2, AwayKeeps DEF RestInv
<1>4. Delivered' /\ Priming'
  BY DEF RestInv, Delivered, Priming
<1>5. InOrder'
  BY <1>1, NewsStays DEF RestInv, FlightKept
<1>6. \A x \in Items : Holds(queue', x) => Holds(queue, x)
  BY <1>1, Ends
<1>7. Newest'
  BY <1>6, NewsStays DEF RestInv, Latest
<1>8. QED
  BY <1>3, <1>4, <1>5, <1>7 DEF RestInv

\* A roster applied to an authority that owes no less: what the calls settle.
LEMMA ApplyRosterSettles ==
    ASSUME Typed, NEW a \in Authorities, ~a.closed => disp.boundary = a.pending,
           NEW item \in Items, Roster(item), ApplyRoster(a, item)
    PROVE  /\ auth'.closed = a.closed
           /\ \A k \in Lanes : auth'.lanes[k].running = a.lanes[k].running
           /\ Doomed(a) => Doomed(auth')
           /\ disp'.active = disp.active /\ disp'.item = disp.item
           /\ disp'.pc = "republish" /\ disp'.rosterGen = item.gen
           /\ Sure(auth') =>
                 \/ Complete(auth')
                 \/ /\ Sure(a)
                    /\ \A k \in Lanes : k # "roster" => Firm(a.lanes[k], auth'.lanes[k])
                    /\ auth'.lanes["roster"].requested = a.lanes["roster"].requested
                    /\ auth'.lanes["roster"].applied =
                          IF item.d.op # NoOperation /\ Acknowledges(a, "roster", item.d.receipt)
                          THEN item.d.receipt.order ELSE a.lanes["roster"].applied
<1> DEFINE d == ConsumeRoster(item.value)
           f == Finish(a, d, item)
<1>1. disp \in DispS /\ item.value \in Nat
  BY ItemFields DEF Typed
<1>2. d \in DispS /\ d.boundary = disp.boundary /\ d.active = disp.active /\ d.item = disp.item
  BY <1>1 DEF ConsumeRoster, DispS
<1> HIDE DEF d
<1>3. LaneOf(item) = "roster"
  BY DEF LaneOf
<1>4. /\ f.auth.closed = a.closed
      /\ \A k \in Lanes : f.auth.lanes[k].running = a.lanes[k].running
      /\ Doomed(a) => Doomed(f.auth)
      /\ Sure(f.auth) =>
            \/ Complete(f.auth)
            \/ /\ Sure(a)
               /\ \A k \in Lanes : k # "roster" => Firm(a.lanes[k], f.auth.lanes[k])
               /\ f.auth.lanes["roster"].requested = a.lanes["roster"].requested
               /\ f.auth.lanes["roster"].applied =
                     IF item.d.op # NoOperation /\ Acknowledges(a, "roster", item.d.receipt)
                     THEN item.d.receipt.order ELSE a.lanes["roster"].applied
  BY <1>2, <1>3, FinishSettles
<1>5. f.disp \in DispS /\ f.disp.active = d.active /\ f.disp.item = d.item
  <2>1. f.disp \in DispS
    BY <1>2, FinishFacts DEF Same
  <2>2. f.disp.active = d.active /\ f.disp.item = d.item
    BY <1>2, Zenon DEF Finish, DispS
  <2>3. QED
    BY <2>1, <2>2
<1>6. auth' = f.auth /\ disp' = [f.disp EXCEPT !.rosterGen = item.gen, !.complete = TRUE,
                                              !.pc = "republish", !.asks = item.value]
  BY DEF ApplyRoster, d
<1> HIDE DEF f
<1>7. /\ disp'.active = f.disp.active /\ disp'.item = f.disp.item
      /\ disp'.pc = "republish" /\ disp'.rosterGen = item.gen
  BY <1>5, <1>6 DEF DispS
<1>8. QED
  BY <1>2, <1>4, <1>5, <1>6, <1>7

\* A roster that is taken is not the one that is owed, or it settles the debt.
LEMMA TakeRosterRest ==
    ASSUME Typed, Typed', Facts, Facts', RestInv, TakeRoster
    PROVE  RestInv'
<1>1. PICK item : /\ Takes(item) /\ item.kind = "roster"
                  /\ \/ ~NewRoster(item) /\ UNCHANGED <<auth, disp, tally>>
                     \/ NewRoster(item) /\ ApplyRoster(auth, item) /\ UNCHANGED tally
                     \/ /\ NewRoster(item) /\ Failing
                        /\ auth' = Poison(auth) /\ tally' = Failed
                        /\ UNCHANGED disp
                  /\ UNCHANGED <<disc, stream, co, pass, ticket>>
  BY DEF TakeRoster
<1>2. /\ item \in Items /\ Holds(queue, item)
      /\ queue # <<>> /\ item = Head(queue) /\ queue' = Tail(queue) /\ disp.pc = "idle"
      /\ queue \in Seq(Items) /\ ~Commands(item) /\ ~Batch(item) /\ Roster(item)
  BY <1>1, TakesKeeps DEF Commands, Batch, Roster
<1>3. /\ auth \in Authorities /\ disc.gen \in Nat /\ disp.rosterGen \in Nat /\ item.gen \in Nat
      /\ Latest \in Items /\ Latest.gen = disc.gen /\ Latest.d = disc.latest
  <2>1. Latest \in Items
    BY Parts, ItemTyped DEF Latest, Kinds
  <2>2. QED
    BY <1>2, <2>1, Parts, ItemFields DEF Typed, DispS, Latest, Item
<1>4. /\ item.gen <= disc.gen
      /\ item.gen = disc.gen => item = Latest
      /\ disp.rosterGen <= disc.gen
  <2>1. item.gen <= disc.gen
    BY <1>1, <1>2 DEF Facts, RosterTruth, Told, Dated
  <2>2. QED
    BY <1>1, <1>2, <2>1 DEF RestInv, Newest
<1>5. BatchesStay
  BY <1>1, <1>2, BatchesKept
<1>6. item # Latest /\ Holds(queue, Latest) => Holds(queue', Latest)
  BY <1>2, <1>3, StillFlies, Parts
<1>7. CASE ~NewRoster(item) /\ UNCHANGED <<auth, disp>>
  <2>1. (Turning' <=> Turning) /\ (Owing' => RestInv')
    BY <1>1, <1>2, <1>4, <1>7, TakesRest
  <2>2. Owing'
    <3> SUFFICES ASSUME Live', ~Turning' PROVE Owing'
      BY DEF Owing
    <3>1. Live /\ ~Turning /\ disp.active /\ Owing
      BY <1>7, <2>1 DEF Live, RestInv
    <3>2. item = Latest => ~(disp.rosterGen < disc.gen)
      BY <1>3, <1>7, <3>1 DEF NewRoster
    <3>3. RosterOwed'
      BY <1>1, <1>6, <1>7, <3>1, <3>2 DEF Owing, RosterOwed, Synced, Latest
    <3>4. auth.lanes["stream"].running => StreamOwed'
      BY <1>5, <1>7, <3>1, StaysOwed DEF Owing, Firm
    <3>5. QED
      BY <1>7, <3>1, <3>3, <3>4 DEF Owing, Synced
  <2>3. QED
    BY <2>1, <2>2
<1>8. CASE NewRoster(item) /\ ApplyRoster(auth, item)
  <2>1. ~auth.closed => disp.boundary = auth.pending
    BY DEF Facts, LaneTruth
  <2>2. /\ auth'.closed = auth.closed
        /\ \A k \in Lanes : auth'.lanes[k].running = auth.lanes[k].running
        /\ Doomed(auth) => Doomed(auth')
        /\ disp'.active = disp.active /\ disp'.item = disp.item
        /\ disp'.pc = "republish" /\ disp'.rosterGen = item.gen
        /\ Sure(auth') =>
              \/ Complete(auth')
              \/ /\ Sure(auth)
                 /\ \A k \in Lanes : k # "roster" => Firm(auth.lanes[k], auth'.lanes[k])
                 /\ auth'.lanes["roster"].requested = auth.lanes["roster"].requested
                 /\ auth'.lanes["roster"].applied =
                       IF item.d.op # NoOperation /\ Acknowledges(auth, "roster", item.d.receipt)
                       THEN item.d.receipt.order ELSE auth.lanes["roster"].applied
    BY <1>2, <1>3, <1>8, <2>1, ApplyRosterSettles
  <2>3. (Turning' <=> Turning) /\ (Owing' => RestInv')
    BY <1>1, <1>2, <1>4, <2>2, TakesRest
  <2>4. Owing'
    <3> SUFFICES ASSUME Live', ~Turning' PROVE Owing'
      BY DEF Owing
    <3>1. CASE Complete(auth')
      BY <3>1, NothingOwed DEF Typed, Facts, LaneTruth
    <3>2. CASE ~Complete(auth')
      <4> DEFINE r == auth.lanes["roster"]
                 r1 == auth'.lanes["roster"]
      <4>1. /\ Sure(auth) /\ Sure(auth')
            /\ \A k \in Lanes : k # "roster" => Firm(auth.lanes[k], auth'.lanes[k])
            /\ r1.requested = r.requested
            /\ r1.applied = IF item.d.op # NoOperation
                               /\ Acknowledges(auth, "roster", item.d.receipt)
                            THEN item.d.receipt.order ELSE r.applied
        BY <2>2, <3>2 DEF Live
      <4>2. Live /\ ~Turning /\ Owing
        BY <2>2, <2>3, <4>1 DEF Live, RestInv
      <4>3. /\ r.running /\ RosterOwed /\ auth.lanes["stream"].life # 0
            /\ auth.lanes["stream"].running => StreamOwed /\ Synced(auth, "control")
        BY <4>2 DEF Owing
      <4>4. /\ r.applied \in Nat /\ r.requested.order \in Nat /\ r.applied <= r.requested.order
            /\ r.requested.life = r.life /\ r.requested = disc.receipt
        <5>1. r \in LaneStates /\ r.requested \in Stamps
          BY <1>3, Names, Fields, LaneFields
        <5>2. LaneSound(r) /\ r.requested = disc.receipt
          BY Names DEF Facts, LaneTruth, Sound
        <5>3. QED
          BY <5>1, <5>2 DEF LaneSound, LaneStates, Stamps
      <4>5. RosterOwed'
        <5>1. CASE Synced(auth, "roster")
          <6>1. ~Acknowledges(auth, "roster", item.d.receipt)
            <7>1. item.d.receipt.order \in Nat
              BY <1>2, ItemFields DEF Stamps
            <7>2. QED
              BY <4>4, <5>1, <7>1 DEF Acknowledges, Synced
          <6>2. r1.applied = r.applied
            BY <4>1, <6>1
          <6>3. QED
            BY <4>1, <5>1, <6>2 DEF RosterOwed, Synced
        <5>2. CASE ~Synced(auth, "roster") /\ item = Latest
          <6>1. item.d.receipt = r.requested /\ item.d.op # NoOperation
            BY <1>3, <4>3, <4>4, <5>2 DEF RosterOwed
          <6>2. Acknowledges(auth, "roster", item.d.receipt)
            <7>1. Owns(auth, "roster", item.d.receipt.life)
              BY <4>1, <4>3, <4>4, <6>1 DEF Owns, Sure
            <7>2. r.applied < item.d.receipt.order
              BY <4>4, <5>2, <6>1 DEF Synced
            <7>3. QED
              BY <4>4, <6>1, <7>1, <7>2 DEF Acknowledges
          <6>3. r1.applied = r1.requested.order
            BY <4>1, <6>1, <6>2
          <6>4. QED
            BY <6>3 DEF RosterOwed, Synced
        <5>3. CASE ~Synced(auth, "roster") /\ item # Latest
          <6>1. /\ disc.pc = "deliver" \/ Holds(queue, Latest)
                /\ disc.latest.receipt = disc.receipt /\ disc.latest.op # NoOperation
            BY <4>3, <5>3 DEF RosterOwed
          <6>2. item.gen < disc.gen
            BY <1>3, <1>4, <5>3
          <6>3. QED
            BY <1>1, <1>6, <2>2, <5>3, <6>1, <6>2 DEF RosterOwed, Latest
        <5>4. QED
          BY <5>1, <5>2, <5>3
      <4>6. auth.lanes["stream"].running => StreamOwed'
        BY <1>5, <4>1, <4>3, Names, StaysOwed
      <4>7. QED
        BY <2>2, <4>1, <4>3, <4>5, <4>6, Names DEF Owing, Firm, Synced
    <3>3. QED
      BY <3>1, <3>2
  <2>5. QED
    BY <2>3, <2>4
<1>9. CASE auth' = Poison(auth) /\ UNCHANGED disp
  <2>1. Owing'
    BY <1>3, <1>9, PoisonUnsure, NothingOwed
  <2>2. Plain(auth, Poison(auth)) /\ auth'.closed = auth.closed /\ auth'.lanes = auth.lanes
    BY <1>3, <1>9, Names, PlainMethods, PoisonUnsure
  <2>3. QED
    BY <1>1, <1>2, <1>4, <1>9, <2>1, <2>2, TakesRest DEF Plain
<1>10. QED
  BY <1>1, <1>7, <1>8, <1>9

\* A batch that is taken acknowledges the next receipt, as batches come in their order.
LEMMA TakeBatchRest ==
    ASSUME Typed, Typed', Facts, Facts', RestInv, TakeBatch
    PROVE  RestInv'
<1>1. PICK item :
        LET d == IF item.kind = "source" THEN ConsumeSource(item.value) ELSE disp
            f == Finish(auth, d, item)
        IN  /\ Takes(item) /\ item.kind \in {"source", "facts"}
            /\ \/ ~disp.active /\ UNCHANGED <<auth, disp, tally>>
               \/ auth' = f.auth /\ disp' = f.disp /\ UNCHANGED tally
               \/ Failing /\ auth' = Poison(auth) /\ tally' = Failed /\ UNCHANGED disp
            /\ UNCHANGED <<disc, stream, co, pass, ticket>>
  BY DEF TakeBatch
<1> DEFINE d == IF item.kind = "source" THEN ConsumeSource(item.value) ELSE disp
           f == Finish(auth, d, item)
<1>2. UNCHANGED <<disc, stream, co, pass, ticket>> /\ Takes(item) /\ Batch(item)
      /\ item.kind # "roster" /\ ~Roster(item) /\ ~Commands(item)
  BY <1>1 DEF Batch, Roster, Commands
<1>3. /\ item \in Items
      /\ queue # <<>> /\ item = Head(queue) /\ queue' = Tail(queue) /\ disp.pc = "idle"
      /\ queue \in Seq(Items)
  BY <1>2, TakesKeeps
<1>4. auth \in Authorities /\ disp \in DispS /\ disp.rosterGen <= disc.gen
  BY DEF Typed, RestInv, Newest
<1>5. CASE ~disp.active /\ UNCHANGED <<auth, disp>>
  <2>1. Owing'
    BY <1>5 DEF Owing, Live
  <2>2. QED
    BY <1>2, <1>3, <1>4, <1>5, <2>1, TakesRest
<1>6. CASE auth' = Poison(auth) /\ UNCHANGED disp
  <2>1. Owing'
    BY <1>4, <1>6, PoisonUnsure, NothingOwed
  <2>2. Plain(auth, Poison(auth)) /\ auth'.closed = auth.closed /\ auth'.lanes = auth.lanes
    BY <1>4, <1>6, Names, PlainMethods, PoisonUnsure
  <2>3. QED
    BY <1>2, <1>3, <1>4, <1>6, <2>1, <2>2, TakesRest DEF Plain
<1>7. CASE auth' = f.auth /\ disp' = f.disp
  <2>1. /\ d \in DispS /\ d.boundary = disp.boundary /\ d.active = disp.active
        /\ d.item = disp.item /\ d.rosterGen = disp.rosterGen /\ d.pc = disp.pc
    <3>1. item.value \in Nat
      BY <1>3, ItemFields
    <3>2. QED
      BY <1>4, <3>1 DEF ConsumeSource, DispS
  <2> HIDE DEF d
  <2>2. LaneOf(item) = "stream"
    BY <1>2 DEF LaneOf
  <2>3. ~auth.closed => d.boundary = auth.pending
    BY <2>1 DEF Facts, LaneTruth
  <2>4. /\ f.auth.closed = auth.closed
        /\ \A k \in Lanes : f.auth.lanes[k].running = auth.lanes[k].running
        /\ Doomed(auth) => Doomed(f.auth)
        /\ Sure(f.auth) =>
              \/ Complete(f.auth)
              \/ /\ Sure(auth)
                 /\ \A k \in Lanes : k # "stream" => Firm(auth.lanes[k], f.auth.lanes[k])
                 /\ f.auth.lanes["stream"].life = auth.lanes["stream"].life
                 /\ f.auth.lanes["stream"].requested = auth.lanes["stream"].requested
                 /\ item.d.op # NoOperation
                 /\ f.auth.lanes["stream"].applied =
                       IF item.d.invalidates /\ Acknowledges(auth, "stream", item.d.receipt)
                       THEN item.d.receipt.order ELSE auth.lanes["stream"].applied
    <3>1. d.boundary = disp.boundary
      BY <2>1
    <3>2. QED
      BY <1>2, <1>3, <1>4, <2>1, <2>2, <2>3, <3>1, FinishSettles
  <2>5. /\ f.disp.active = d.active /\ f.disp.item = d.item /\ f.disp.rosterGen = d.rosterGen
        /\ f.disp.pc = d.pc
    <3>1. f.disp.active = d.active /\ f.disp.item = d.item /\ f.disp.rosterGen = d.rosterGen
      BY <2>1, Zenon DEF Finish, DispS
    <3>2. QED
      BY <1>3, <1>4, <2>1, <3>1, FinishFacts
  <2> HIDE DEF f
  <2>6. (Turning' <=> Turning) /\ (Owing' => RestInv')
    BY <1>2, <1>3, <1>4, <1>7, <2>1, <2>4, <2>5, TakesRest
  <2>7. Owing'
    <3> SUFFICES ASSUME Live', ~Turning', ~Complete(auth') PROVE Owing'
      BY NothingOwed DEF Owing, Typed, Facts, LaneTruth
    <3> DEFINE s == auth.lanes["stream"]
               s1 == auth'.lanes["stream"]
    <3>1. /\ Sure(auth)
          /\ \A k \in Lanes : k # "stream" => Firm(auth.lanes[k], auth'.lanes[k])
          /\ s1.life = s.life /\ s1.requested = s.requested /\ s1.running = s.running
          /\ s1.applied = IF item.d.invalidates /\ Acknowledges(auth, "stream", item.d.receipt)
                          THEN item.d.receipt.order ELSE s.applied
      BY <1>7, <2>4, Names DEF Live
    <3>2. Live /\ ~Turning /\ Owing
      BY <1>7, <2>1, <2>5, <2>6, <3>1 DEF Live, RestInv
    <3>3. /\ auth.lanes["roster"].running /\ RosterOwed /\ s.life # 0
          /\ s.running => StreamOwed /\ Synced(auth, "control")
      BY <3>2 DEF Owing
    <3>4. s.applied \in Nat /\ s.requested.order \in Nat /\ item.d.receipt.order \in Nat
      <4>1. s \in LaneStates /\ s.requested \in Stamps /\ item.d.receipt \in Stamps
        BY <1>3, <1>4, Names, Fields, LaneFields, ItemFields
      <4>2. QED
        BY <4>1 DEF LaneStates, Stamps
    <3>5. RosterOwed'
      <4>1. Holds(queue, Latest) => Holds(queue', Latest)
        BY <1>2, <1>3, LatestKept
      <4>2. RosterStays
        BY <1>2, <1>7, <2>1, <2>5, <4>1 DEF RosterStays
      <4>3. QED
        BY <3>1, <3>3, <4>2, Names, StaysOwed
    <3>6. ASSUME s.running PROVE StreamOwed'
      <4> SUFFICES ASSUME NEW n \in Nat, s1.applied < n, n <= s1.requested.order
                   PROVE  \E x \in Items : Flies(x, x)' /\ Owes(x, n)'
        BY DEF StreamOwed
      <4>1. s.applied <= s1.applied
        BY <3>1, <3>4 DEF Acknowledges
      <4>2. s1.applied \in Nat
        BY <3>1, <3>4
      <4>3. s.applied < n /\ n <= s.requested.order
        BY <3>1, <3>4, <4>1, <4>2
      <4>4. PICK x \in Items : Flies(x, x) /\ Owes(x, n)
        BY <3>3, <3>6, <4>3 DEF StreamOwed
      <4>5. Owes(x, n)'
        BY <3>1, <4>4 DEF Owes
      <4>6. stream.carried \in Items /\ stream.fifo \in Seq(Items)
        BY Parts
      <4>7. ASSUME x = item PROVE FALSE
        <5>1. item.d.invalidates /\ item.d.receipt.life = s.life /\ item.d.receipt.order = n
          BY <4>4, <4>7 DEF Owes
        <5>2. n = s.applied + 1
          <6> SUFFICES ASSUME s.applied + 1 < n PROVE FALSE
            BY <3>4, <4>3
          <6>1. s.applied + 1 \in Nat /\ s.applied < s.applied + 1
                /\ s.applied + 1 <= s.requested.order
            BY <3>4, <4>3
          <6>2. PICK y \in Items : Flies(y, y) /\ Owes(y, s.applied + 1)
            BY <3>3, <3>6, <6>1 DEF StreamOwed
          <6>3. Flies(item, y)
            BY <1>2, <1>3, <4>6, <6>2, HeadFirst DEF Flies
          <6>4. y.d.invalidates /\ y.d.receipt.life = s.life /\ y.d.receipt.order = s.applied + 1
            BY <6>2 DEF Owes
          <6>5. n <= s.applied + 1
            BY <1>3, <5>1, <6>2, <6>3, <6>4 DEF RestInv, InOrder
          <6>6. QED
            BY <3>4, <6>5
        <5>3. Acknowledges(auth, "stream", item.d.receipt)
          BY <3>1, <3>6, <4>3, <5>1, <5>2 DEF Acknowledges, Owns, Sure
        <5>4. s1.applied = n
          BY <3>1, <5>1, <5>3
        <5>5. QED
          BY <4>2, <5>4
      <4>8. Flies(x, x)'
        BY <1>2, <1>3, <4>4, <4>6, <4>7, StillFlies DEF Flies
      <4>9. QED
        BY <4>5, <4>8
    <3>7. QED
      BY <3>1, <3>3, <3>5, <3>6, Names DEF Owing, Firm, Synced
  <2>8. QED
    BY <2>6, <2>7
<1>8. QED
  BY <1>1, <1>5, <1>6, <1>7

\* A mode or a refresh that is taken resets, and until it has nothing is owed.
LEMMA TakeControlRest ==
    ASSUME Typed, Facts, RestInv, TakeControl
    PROVE  RestInv'
<1>1. PICK item :
        LET on == item.value = 1
            resets == IF item.kind = "mode" THEN on # disp.active ELSE disp.active
        IN  /\ Takes(item)
            /\ \/ /\ item.kind \in {"mode", "refresh"}
                  /\ disp' = [disp EXCEPT !.pc = "reset", !.item = item,
                           !.active = IF item.kind = "mode" THEN on ELSE @,
                           !.activation = CASE item.kind = "refresh" -> @
                                            [] item.kind # "refresh" /\ on -> item.gen
                                            [] OTHER -> 0]
                  /\ UNCHANGED co
               \/ /\ item.kind \in {"mode", "refresh"} /\ ~resets
                  /\ disp' = [disp EXCEPT !.activation =
                                 IF item.kind = "mode" /\ on THEN item.gen ELSE @]
                  /\ co' = Signal(item.id, FALSE)
               \/ /\ item.kind = "ready"
                  /\ disp' = [disp EXCEPT !.asked = @ \/ Reseeds,
                                 !.pc = IF Reseeds THEN "askAll" ELSE "idle"]
                  /\ UNCHANGED co
            /\ UNCHANGED <<auth, disc, stream, pass, ticket, tally>>
  BY DEF TakeControl
<1>2. UNCHANGED <<auth, disc, stream, pass, ticket, tally>> /\ Takes(item)
  BY <1>1
<1>3. /\ item \in Items /\ FlightKept /\ disp.pc = "idle"
      /\ queue # <<>> /\ item = Head(queue) /\ queue' = Tail(queue)
      /\ queue \in Seq(Items)
  BY <1>2, TakesKeeps
<1>4. /\ auth \in Authorities /\ disp \in DispS /\ disp.active \in BOOLEAN
      /\ item.id \in Nat /\ co.completions \in Nat
  BY <1>3, Parts, ItemFields DEF Typed, DispS
<1>5. Bit(disp.active) \in {0, 1} /\ Bit(co.requested) \in {0, 1}
      /\ Turns(queue, Bit(disp.active), Bit(co.requested))
  BY DEF Bit, RestInv, Wishes
<1>6. /\ item.kind = "mode" => /\ item.value \in {0, 1} /\ item.value # Bit(disp.active)
                               /\ Turns(queue', item.value, Bit(co.requested))
      /\ item.kind = "refresh" => /\ Bit(disp.active) = 1
                                  /\ Turns(queue', Bit(disp.active), Bit(co.requested))
  BY <1>3, <1>5, TurnsQueue DEF Turn
<1>7. CASE /\ item.kind \in {"mode", "refresh"}
           /\ disp' = [disp EXCEPT !.pc = "reset", !.item = item,
                           !.active = IF item.kind = "mode" THEN item.value = 1 ELSE @,
                           !.activation = CASE item.kind = "refresh" -> @
                                            [] item.kind # "refresh" /\ item.value = 1 -> item.gen
                                            [] OTHER -> 0]
           /\ UNCHANGED co
  <2> DEFINE act == CASE item.kind = "refresh" -> disp.activation
                      [] item.kind # "refresh" /\ item.value = 1 -> item.gen
                      [] OTHER -> 0
             was == IF item.kind = "mode" THEN item.value = 1 ELSE disp.active
  <2>1. disp' = [disp EXCEPT !.pc = "reset", !.item = item, !.active = was, !.activation = act]
    BY <1>7
  <2> HIDE DEF act
  <2>2. /\ disp'.pc = "reset" /\ disp'.item = item /\ disp'.active = was
        /\ disp'.rosterGen = disp.rosterGen
    BY <1>4, <2>1 DEF DispS
  <2>3. Turning /\ Turning' /\ Commands(item)
    <3>1. Commands(item)
      BY <1>7 DEF Commands
    <3>2. ~NoCommand(queue)
      BY <1>3, <3>1, Commanded
    <3>3. QED
      BY <2>2, <3>1, <3>2, TurningIs DEF Turning
  <2>4. Delivered' /\ Listened'
    BY <1>2, <1>7 DEF RestInv, Delivered, Listened
  <2>5. Wishes'
    <3>1. Turns(queue', Bit(was), Bit(co.requested))
      BY <1>6, <1>7 DEF Bit
    <3>2. QED
      BY <1>2, <1>7, <2>2, <3>1 DEF RestInv, Wishes
  <2>6. Expected'
    <3>1. /\ Numbered(queue', co.completions) /\ item.id <= co.completions
          /\ \A n : LastCommand(queue, n) => LastCommand(queue', n)
          /\ \A n : item.id = n /\ LastCommand(queue, n) => NoCommand(queue')
      BY <1>3, <2>3, Commanded DEF RestInv, Expected
    <3>2. QED
      BY <1>7, <2>2, <3>1 DEF RestInv, Expected
  <2>7. Failure'
    BY <1>2, <1>7, <2>3 DEF RestInv, Failure, Stuck
  <2>8. Newest'
    <3>1. \A x \in Items : Holds(queue', x) => Holds(queue, x)
      BY <1>3, Ends
    <3>2. QED
      BY <1>2, <2>2, <3>1, NewsStays DEF RestInv, Newest, Latest
  <2>9. InOrder'
    BY <1>3, NewsStays DEF RestInv, FlightKept
  <2>10. Priming' /\ Owing'
    BY <2>2, <2>3 DEF Priming, Owing
  <2>11. QED
    BY <2>4, <2>5, <2>6, <2>7, <2>8, <2>9, <2>10 DEF RestInv
<1>8. CASE /\ item.kind \in {"mode", "refresh"}
           /\ ~(IF item.kind = "mode" THEN (item.value = 1) # disp.active ELSE disp.active)
  BY <1>4, <1>6, <1>8 DEF Bit
<1>9. CASE /\ item.kind = "ready" /\ UNCHANGED co
           /\ disp' = [disp EXCEPT !.asked = @ \/ Reseeds,
                               !.pc = IF Reseeds THEN "askAll" ELSE "idle"]
  <2>1. /\ disp'.pc \in {"askAll", "idle"} /\ disp'.item = disp.item
        /\ disp'.active = disp.active /\ disp'.rosterGen = disp.rosterGen
    BY <1>4, <1>9 DEF DispS
  <2>2. ~Commands(item) /\ ~Batch(item) /\ item.kind # "roster"
    BY <1>9 DEF Commands, Batch
  <2>3. (Turning' <=> Turning) /\ (Owing' => RestInv')
    BY <1>2, <1>3, <1>9, <2>1, <2>2, TakesRest DEF RestInv, Newest
  <2>4. RosterStays
    <3>1. Holds(queue, Latest) => Holds(queue', Latest)
      BY <1>3, <2>2, LatestKept
    <3>2. QED
      BY <1>2, <2>1, <3>1 DEF RosterStays
  <2>5. BatchesStay
    BY <1>2, <1>3, <2>2, BatchesKept
  <2>6. Plain(auth, auth')
    BY <1>2, <1>4, Names, PlainMethods
  <2>7. Owing'
    BY <2>1, <2>3, <2>4, <2>5, <2>6, OwingStays DEF RestInv
  <2>8. QED
    BY <2>3, <2>7
<1>10. QED
  BY <1>1, <1>7, <1>8, <1>9

\* The dispatcher goes on to its next question.
LEMMA RepublishRest ==
    ASSUME Typed, Facts, RestInv, Republish
    PROVE  RestInv'
<1> DEFINE pc == CASE Reseeds -> "askAll"
                   [] ~Reseeds /\ co.folder # 0 /\ disp.asks # 0 /\ disp.asks # disp.known
                        -> "askOne"
                   [] OTHER -> "idle"
           asked == disp.asked \/ Reseeds
<1>0. auth \in Authorities /\ disp \in DispS
  BY DEF Typed
<1>1. UNCHANGED <<auth, queue, disc, stream, co, pass, ticket, tally>> /\ disp.pc = "republish"
  BY DEF Republish
<1>2. disp' = [disp EXCEPT !.known = disp.asks, !.asks = 0, !.asked = asked, !.pc = pc]
  BY DEF Republish
<1>3. pc \in {"askAll", "askOne", "idle"}
  OBVIOUS
<1> HIDE DEF pc, asked
<1>4. /\ disp'.active = disp.active /\ disp'.item = disp.item
      /\ disp'.rosterGen = disp.rosterGen /\ disp'.pc \notin {"reset", "prime"}
  BY <1>0, <1>2, <1>3 DEF DispS
<1>5. Plain(auth, auth')
  BY <1>0, <1>1, Names, PlainMethods
<1>6. QED
  BY <1>1, <1>4, <1>5, QuietRest

\* What the dispatcher asks for comes as batches without a receipt of their own.
LEMMA AskStreamRest ==
    ASSUME Typed, Typed', Facts, RestInv, AskStream
    PROVE  RestInv'
<1> DEFINE reset == IF disp.pc = "askAll" THEN disp.boundary ELSE 0
           op == Started(auth', "stream", stream.receipt.life)
           d == OperationOf(auth', stream.receipt, reset)
           i == Item("source", 0, stream.tracked, d, 0)
           st == [stream EXCEPT !.fifo = Append(stream.fifo, i)]
<1>0. /\ auth \in Authorities /\ disp \in DispS /\ stream \in StreamS /\ reset \in Nat
      /\ stream.tracked \in Nat /\ stream.fifo \in Seq(Items) /\ stream.receipt \in Stamps
      /\ stream.receipt.life \in Nat /\ disp.pc \in {"askAll", "askOne"}
  BY Parts DEF Typed, AskStream
<1>1. /\ UNCHANGED <<queue, disc, co, pass>>
      /\ auth' = StartOperation(auth, "stream", stream.receipt.life)
      /\ stream' = Claimed(st, "disp")
      /\ disp' = [disp EXCEPT !.pc = IF stream'.drainer = "disp" THEN "draining" ELSE "idle"]
  BY DEF AskStream
<1>2. /\ Plain(auth, auth') /\ auth'.closed = auth.closed
      /\ \A l \in Lanes : auth'.lanes[l].running => auth.lanes[l].running
  BY <1>0, <1>1, Names, PlainMethods, StartOperationFacts
<1>3. d \in Deliveries /\ ~d.invalidates
  <2>1. d \in Deliveries
    BY <1>0, OperationTyped DEF Typed
  <2>2. d = IF op = NoOperation THEN NoDelivery ELSE Delivery(op, stream.receipt, reset, FALSE)
    BY DEF OperationOf
  <2> HIDE DEF op, reset
  <2>3. QED
    BY <2>1, <2>2 DEF NoDelivery, Delivery
<1> HIDE DEF d, op, reset
<1>4. i \in Items /\ i.d = d /\ Batch(i)
  BY <1>0, <1>3, ItemTyped DEF Kinds, Item, Batch
<1> HIDE DEF i
<1>5. /\ st \in StreamS /\ st.fifo = Append(stream.fifo, i) /\ st.carried = stream.carried
      /\ st.fifo # <<>>
  BY <1>0, <1>4, Queues DEF StreamS
<1> HIDE DEF st
<1>6. /\ stream'.fifo = Append(stream.fifo, i) /\ stream'.carried = stream.carried
      /\ stream'.drainer # "none"
  BY <1>1, <1>5 DEF Claimed, StreamS
<1>7. /\ disp'.active = disp.active /\ disp'.item = disp.item
      /\ disp'.rosterGen = disp.rosterGen /\ disp'.pc \in {"draining", "idle"}
  BY <1>0, <1>1 DEF DispS
<1>8. Delivered' /\ Priming' /\ RosterStays
  BY <1>1, <1>6, <1>7 DEF Delivered, Priming, RosterStays
<1>9. Away
  BY <1>0, <1>1, <1>2, <1>7 DEF Away, Plain
<1>10. QED
  BY <1>1, <1>2, <1>3, <1>4, <1>6, <1>8, <1>9, JoinsRest

\* Capturing and sealing leave everything under way.
LEMMA PublishRest ==
    ASSUME Typed, Facts, RestInv, PublishCapture \/ PublishSeal
    PROVE  RestInv'
<1>1. auth \in Authorities /\ disp \in DispS /\ UNCHANGED <<queue, disc, stream, co, pass>>
  BY DEF Typed, PublishCapture, PublishSeal
<1>2. Plain(auth, auth') /\ auth'.closed = auth.closed
  <2>1. Hold(auth).closed = auth.closed
    BY <1>1 DEF Hold, Authorities
  <2>2. QED
    BY <1>1, <2>1, Names, PlainMethods DEF PublishCapture, PublishSeal
<1>3. /\ disp.pc # "reset" /\ disp'.active = disp.active /\ disp'.item = disp.item
      /\ disp'.rosterGen = disp.rosterGen /\ disp'.pc \in {"seal", "idle"}
  BY <1>1 DEF PublishCapture, PublishSeal, DispS
<1>4. QED
  BY <1>1, <1>2, <1>3, QuietRest

\* A priming restates what a reset withheld, or leaves it withheld.
LEMMA PrimeRest ==
    ASSUME Typed, Typed', Facts, Facts', RestInv, Prime
    PROVE  RestInv'
<1> DEFINE d == PrimeDelivery(auth)
           item == Item("prime", disc.gen, disc.session, d, 0)
           started == StartOperation(auth, "roster", disc.receipt.life)
           a == IF d = NoDelivery THEN auth ELSE started
           idle == [disp EXCEPT !.pc = "idle"]
<1>0. auth \in Authorities /\ disp \in DispS /\ disp.pc = "prime"
  BY DEF Typed, Prime
<1>1. UNCHANGED <<queue, disc, stream, co, pass>>
  BY DEF Prime
<1>2. \/ auth' = a /\ disp' = idle
      \/ ApplyRoster(a, item)
      \/ auth' = Poison(a) /\ disp' = idle
  BY DEF Prime
<1>3. /\ started \in Authorities /\ Calm(auth, started) /\ Plain(auth, started)
      /\ started.closed = auth.closed
  <2>1. disc.receipt.life \in Nat
    BY Parts
  <2>2. started \in Authorities /\ started.closed = auth.closed
    BY <1>0, <2>1, StartOperationFacts, Names DEF Advances
  <2>3. Calm(auth, started) /\ Plain(auth, started)
    BY <1>0, <2>1, CalmMethods, PlainMethods, Names
  <2>4. QED
    BY <2>2, <2>3
<1>4. d \in Deliveries
  <2>1. Started(started, "roster", disc.receipt.life) \in Stamps
    BY <1>0, <1>3, Parts, StartOperationFacts, Names
  <2> HIDE DEF started
  <2>2. Delivery(Started(started, "roster", disc.receipt.life), disc.receipt, 0, FALSE)
           \in Deliveries
    BY <2>1, Parts, DeliveryTyped
  <2>3. QED
    BY <2>2, Stamp0 DEF PrimeDelivery, started
<1>5. Calm(auth, a) /\ a \in Authorities /\ Plain(auth, a) /\ a.closed = auth.closed
  BY <1>0, <1>3, CalmMethods, PlainMethods, Names
<1> HIDE DEF d
<1>6. /\ item \in Items /\ item.gen = disc.gen /\ Roster(item)
  BY <1>4, Parts, ItemTyped DEF Kinds, Item, Roster
<1> HIDE DEF a, item
<1>7. ~Sure(a) /\ (~a.closed => disp.boundary = a.pending)
  <2>1. ~Sure(auth) /\ (~auth.closed => disp.boundary = auth.pending)
    BY <1>0 DEF RestInv, Priming, Sure, Facts, LaneTruth
  <2>2. QED
    BY <1>5, <2>1 DEF Plain, Calm, LanesCalm
<1>8. CASE disp' = idle /\ (auth' = a \/ auth' = Poison(a))
  <2>1. /\ disp'.active = disp.active /\ disp'.item = disp.item
        /\ disp'.rosterGen = disp.rosterGen /\ disp'.pc = "idle"
    BY <1>0, <1>8 DEF DispS
  <2>2. /\ Plain(a, Poison(a)) /\ Poison(a).closed = a.closed
        /\ \A b, c : Plain(auth, b) /\ Plain(b, c) => Plain(auth, c)
    BY <1>0, <1>5, Names, PlainMethods, PoisonUnsure
  <2>3. Plain(auth, auth') /\ auth'.closed = auth.closed
    BY <1>5, <1>8, <2>2
  <2>4. QED
    BY <1>0, <1>1, <2>1, <2>3, QuietRest
<1>9. CASE ApplyRoster(a, item)
  <2>1. /\ auth'.closed = a.closed
        /\ \A k \in Lanes : auth'.lanes[k].running = a.lanes[k].running
        /\ Doomed(a) => Doomed(auth')
        /\ disp'.active = disp.active /\ disp'.item = disp.item
        /\ disp'.pc = "republish" /\ disp'.rosterGen = disc.gen
        /\ Sure(auth') => Complete(auth')
    BY <1>5, <1>6, <1>7, <1>9, ApplyRosterSettles
  <2>2. Away
    BY <1>0, <1>1, <1>5, <2>1 DEF Away, Plain, Firm
  <2>3. Listened' /\ Wishes' /\ Expected' /\ Failure'
    BY <2>2, AwayKeeps DEF RestInv
  <2>4. Delivered' /\ Priming'
    BY <1>1, <2>1 DEF RestInv, Delivered, Priming
  <2>5. Owing'
    BY <2>1, NothingOwed DEF Typed, Facts, LaneTruth
  <2>6. Newest' /\ InOrder'
    BY <1>1, <2>1, Parts DEF RestInv, Newest, InOrder, Latest, Flies
  <2>7. QED
    BY <2>3, <2>4, <2>5, <2>6 DEF RestInv
<1>10. QED
  BY <1>2, <1>8, <1>9

\* What a signal changes: the completion it is of, unless the coordinator waits no more.
LEMMA SignalTells ==
    ASSUME Typed, NEW id, NEW ok \in BOOLEAN
    PROVE  LET c == Signal(id, ok) IN
           /\ c.requested = co.requested /\ c.reqGen = co.reqGen
           /\ c.discSub = co.discSub /\ c.discOn = co.discOn /\ c.streamSub = co.streamSub
           /\ c.completions = co.completions /\ c.completion.id = co.completion.id
           /\ c.completion.gen = co.completion.gen
           /\ c.completion.st = "failed" =>
                 \/ c.completion.st = co.completion.st
                 \/ ~ok /\ id # 0 /\ id = co.completion.id
<1>1. co.completion \in Completions /\ co \in CoS
  BY Parts DEF Typed
<1>2. ASSUME NEW st \in {"ready", "failed"}
      PROVE  LET c == [co EXCEPT !.completion.st = st] IN
             /\ c.requested = co.requested /\ c.reqGen = co.reqGen
             /\ c.discSub = co.discSub /\ c.discOn = co.discOn /\ c.streamSub = co.streamSub
             /\ c.completions = co.completions /\ c.completion.id = co.completion.id
             /\ c.completion.gen = co.completion.gen /\ c.completion.st = st
  <2>1. [co EXCEPT !.completion.st = st]
          = [co EXCEPT !.completion = [co.completion EXCEPT !.st = st]]
    BY <1>1 DEF CoS
  <2>2. LET e == [co.completion EXCEPT !.st = st] IN
        e.id = co.completion.id /\ e.gen = co.completion.gen /\ e.st = st
    BY <1>1 DEF Completions
  <2>3. QED
    BY <1>1, <2>1, <2>2 DEF CoS
<1>3. QED
  BY <1>2 DEF Signal

\* A reset that failed leaves the views withheld, and the command it was of was the last.
LEMMA ResetRest ==
    ASSUME Typed, Facts, RestInv, Reset
    PROVE  RestInv'
<1> DEFINE item == disp.item
           a == ResetStarted(auth)
<1>0. disp \in DispS /\ auth \in Authorities /\ disp.pc = "reset" /\ disc.gen \in Nat
  BY Parts DEF Typed, Reset
<1>1. UNCHANGED <<queue, disc, stream, pass>>
  BY DEF Reset
<1>2. /\ ResetsOnly(auth, auth') /\ ResetsOnly(auth, a) /\ a \in Authorities
  BY ResetCarries
<1>3. /\ disp'.active = disp.active /\ disp'.pc \in {"prime", "idle"}
      /\ disp'.rosterGen \in {0, disp.rosterGen}
      /\ \/ co' = Signal(item.id, TRUE)
         \/ auth' = Poison(a) /\ co' = Signal(item.id, FALSE) /\ disp'.pc = "idle"
  <2> DEFINE b == Cut(a)
             receipt == item.d.receipt
             c == StartOperation(b, "control", receipt.life)
             op == Started(c, "control", receipt.life)
             d == Delivery(op, receipt, 0, FALSE)
             e == RecordApplication(c, "control", op)
             some == IF /\ item.d # NoDelivery /\ Owns(b, "control", receipt.life)
                        /\ CanRestate(e, Boundary(a), "control", d)
                     THEN {"control"} ELSE {}
             over == [Cleared(ResetOf(a, disp)) EXCEPT
                        !.restated = some, !.known = 0, !.rosterGen = 0, !.complete = FALSE,
                        !.item = NoItem, !.pc = IF Primes(item) THEN "prime" ELSE "idle"]
             failed == [ResetOf(a, disp) EXCEPT !.pc = "idle", !.item = NoItem]
  <2>1. \/ disp' = over /\ co' = Signal(item.id, TRUE)
        \/ disp' = failed /\ co' = Signal(item.id, FALSE) /\ auth' = Poison(a)
    BY DEF Reset
  <2> HIDE DEF some, item, a
  <2>2. over.active = disp.active /\ over.pc \in {"prime", "idle"} /\ over.rosterGen = 0
    BY <1>0 DEF Cleared, ResetOf, DispS
  <2>3. failed.active = disp.active /\ failed.pc = "idle" /\ failed.rosterGen = disp.rosterGen
    BY <1>0 DEF ResetOf, DispS
  <2> HIDE DEF over, failed
  <2>4. QED
    BY <2>1, <2>2, <2>3
<1>4. /\ co'.requested = co.requested /\ co'.reqGen = co.reqGen
      /\ co'.discSub = co.discSub /\ co'.discOn = co.discOn /\ co'.streamSub = co.streamSub
      /\ co'.completions = co.completions /\ co'.completion.id = co.completion.id
      /\ co'.completion.gen = co.completion.gen
      /\ co'.completion.st = "failed" =>
            \/ co'.completion.st = co.completion.st
            \/ /\ item.id # 0 /\ item.id = co.completion.id
               /\ auth' = Poison(a) /\ disp'.pc = "idle"
  <2> HIDE DEF item, a
  <2>1. CASE co' = Signal(item.id, TRUE)
    BY <2>1, SignalTells
  <2>2. CASE auth' = Poison(a) /\ co' = Signal(item.id, FALSE) /\ disp'.pc = "idle"
    BY <2>2, SignalTells
  <2>3. QED
    BY <1>3, <2>1, <2>2
<1>5. \A l \in Watched : auth'.lanes[l].running => auth.lanes[l].running
  BY <1>2 DEF ResetsOnly, LanesCalm
<1>6. auth.closed => auth'.closed
  BY <1>2 DEF ResetsOnly, LanesCalm
<1>7. Delivered' /\ Listened' /\ Wishes'
  BY <1>1, <1>3, <1>4, <1>5, <1>6 DEF RestInv, Delivered, Listened, Wishes, Watched
<1>8. Expected'
  BY <1>1, <1>3, <1>4 DEF RestInv, Expected
<1>9. Stuck => Stuck'
  BY <1>0, <1>6 DEF Stuck, Turning
<1>10. Failure'
  <2>1. ASSUME item.id # 0, item.id = co.completion.id, auth' = Poison(a), disp'.pc = "idle"
        PROVE  Stuck'
    <3>1. NoCommand(queue)
      BY <1>0, <2>1 DEF RestInv, Expected
    <3>2. ~Turning'
      BY <1>1, <2>1, <3>1 DEF Turning, NoCommand
    <3>3. Doomed(auth')
      <4> HIDE DEF a
      <4>1. CASE a.closed
        BY <1>2, <2>1, <4>1, PoisonUnsure DEF Doomed
      <4>2. CASE ~a.closed
        BY <1>2, <2>1, <4>2, PoisonUnsure DEF ResetsOnly
      <4>3. QED
        BY <4>1, <4>2
    <3>4. QED
      BY <3>2, <3>3 DEF Stuck
  <2>2. QED
    BY <1>1, <1>4, <1>9, <2>1 DEF RestInv, Failure
<1>11. Newest' /\ InOrder'
  BY <1>0, <1>1, <1>3 DEF RestInv, Newest, InOrder, Latest, Flies
<1>12. Priming' /\ Owing'
  BY <1>2, NothingOwed DEF Priming, ResetsOnly
<1>13. QED
  BY <1>7, <1>8, <1>10, <1>11, <1>12 DEF RestInv

-----------------------------------------------------------------------------
(* What a pass leaves on its way *)

\* Where a pass goes from p, told by what c holds: it stays the same pass, and stops
\* discovery only if there is something to stop.
Goes(c, p, q) == /\ q.pc # "dispatcher"
                 /\ q.pc # "idle" => q.fleet = p.fleet /\ q.disc = p.disc
                 /\ q.pc = "disc" => DiscStops(c, p)

\* Every place a pass is sent to is one of those.
LEMMA PassGoes ==
    ASSUME NEW c, NEW p \in PassS
    PROVE  /\ \A q \in {AtEnd(p), AtStart(c, p), AtStream(c, p)} :
                 Goes(c, p, q) /\ q.pc \notin {"await", "disc"}
           /\ Goes(c, p, AtDisc(c, p)) /\ AtDisc(c, p).pc # "await"
           /\ Goes(c, p, AtAwait(c, p))
           /\ Goes(c, p, NoPass)
<1>1. \A pc \in {"await", "disc", "startDisc", "stream", "startStream", "end"} :
         LET q == [p EXCEPT !.pc = pc] IN
         q.pc = pc /\ q.fleet = p.fleet /\ q.disc = p.disc
  BY PassTyped
<1>2. NoPass.pc = "idle"
  BY DEF NoPass
<1>3. Goes(c, p, AtEnd(p)) /\ AtEnd(p).pc \notin {"await", "disc"}
  BY <1>1, <1>2 DEF Goes, AtEnd
<1>4. Goes(c, p, AtStart(c, p)) /\ AtStart(c, p).pc \notin {"await", "disc"}
  BY <1>1, <1>3 DEF Goes, AtStart
<1>5. Goes(c, p, AtStream(c, p)) /\ AtStream(c, p).pc \notin {"await", "disc"}
  BY <1>1, <1>4 DEF Goes, AtStream
<1>6. Goes(c, p, AtDisc(c, p)) /\ AtDisc(c, p).pc # "await"
  BY <1>1, <1>5 DEF Goes, AtDisc
<1>7. Goes(c, p, AtAwait(c, p))
  BY <1>1, <1>6 DEF Goes, AtAwait
<1>8. QED
  BY <1>2, <1>3, <1>4, <1>5, <1>6, <1>7 DEF Goes

\* A step of a pass that asks the dispatcher for nothing and recovers nothing.
Onward ==
    /\ disp'.active = disp.active /\ disp'.item = disp.item /\ disp'.pc = disp.pc
    /\ disp'.rosterGen = disp.rosterGen
    /\ queue' = queue \/ \E i \in Items : i.kind = "ready" /\ queue' = Append(queue, i)
    /\ co'.requested = co.requested /\ co'.reqGen = co.reqGen
    /\ co'.completion = co.completion /\ co'.completions = co.completions
    /\ stream'.drainer = stream.drainer /\ stream'.fifo = stream.fifo
    /\ stream'.carried = stream.carried
    /\ disc'.gen = disc.gen /\ disc'.session = disc.session /\ disc'.latest = disc.latest
    /\ SameRest(auth, auth')

\* It leaves the news and the commands under way as they are.
LEMMA OnwardKeeps ==
    ASSUME Typed, Facts, RestInv, Onward
    PROVE  /\ Delivered' /\ Expected' /\ Newest' /\ InOrder' /\ Priming'
           /\ Turns(queue', Bit(disp'.active), Bit(co'.requested))
           /\ Turning' <=> Turning
           /\ Stuck => Stuck'
           /\ Sure(auth') <=> Sure(auth)
           /\ \A x \in Items : Holds(queue, x) => Holds(queue', x)
           /\ BatchesStay
<1>1. queue \in Seq(Items) /\ Turns(queue, Bit(disp.active), Bit(co.requested))
  BY DEF Typed, RestInv, Wishes
<1>2. Bit(disp.active) \in {0, 1} /\ Bit(co.requested) \in {0, 1}
  BY DEF Bit
<1>3. \A i \in Items : i.kind = "ready" => ~Commands(i) /\ ~Batch(i)
  BY DEF Commands, Batch
<1>4. /\ Turns(queue', Bit(disp.active), Bit(co.requested))
      /\ NoCommand(queue') <=> NoCommand(queue)
      /\ \A n : Numbered(queue, n) => Numbered(queue', n)
      /\ \A n : LastCommand(queue, n) => LastCommand(queue', n)
  BY <1>1, <1>2, <1>3, QueueAway DEF Onward
<1>5. Turning' <=> Turning
  BY <1>4 DEF Onward, Turning, NoCommand
<1>6. SameRest(auth, auth')
  BY DEF Onward
<1>7. (Stuck => Stuck') /\ (Sure(auth') <=> Sure(auth)) /\ Priming'
  BY <1>5, <1>6 DEF SameRest, Stuck, Doomed, Sure, Onward, RestInv, Priming
<1>8. Expected'
  BY <1>4 DEF Expected, RestInv, Onward
<1>9. Delivered'
  BY DEF Delivered, RestInv, Onward
<1>10. stream.carried \in Items /\ stream.fifo \in Seq(Items)
  BY Parts
<1>11. (\A x \in Items : Holds(queue, x) => Holds(queue', x)) /\ BatchesStay
  <2>1. CASE queue' = queue
    BY <2>1 DEF BatchesStay, Flies, Onward
  <2>2. ASSUME NEW i \in Items, queue' = Append(queue, i)
        PROVE  (\A x \in Items : Holds(queue, x) => Holds(queue', x)) /\ BatchesStay
    BY <1>1, <1>10, <2>2, StillFlies DEF BatchesStay, Flies, Onward
  <2>3. QED
    BY <2>1, <2>2 DEF Onward
<1>12. FlightKept
  BY <1>3, QueueKept DEF Onward, Joins, Facts, SourceTruth
<1>13. Newest' /\ InOrder'
  <2>1. Latest' = Latest /\ disp.rosterGen <= disc.gen
    BY DEF Latest, Onward, RestInv, Newest
  <2>2. /\ \A x, y \in Items : Flies(x, y)' => Flies(x, y)
        /\ \A x \in Items : Holds(queue', x) /\ x.kind = "roster" => Holds(queue, x) \/ x = Latest
    BY <1>12 DEF FlightKept, Told
  <2>3. QED
    BY <2>1, <2>2, NewsStays DEF RestInv, Onward
<1>14. QED
  BY <1>4, <1>5, <1>7, <1>8, <1>9, <1>11, <1>13 DEF Onward

\* If the lanes are what they were, all that is owed is still on its way.
LEMMA OnwardOwes ==
    ASSUME Typed, Facts, RestInv, Onward, auth' = auth,
           disc'.receipt = disc.receipt, disc'.pc = disc.pc
    PROVE  Owing'
<1>1. Plain(auth, auth')
  BY PlainMethods, Names DEF Typed
<1>2. /\ Turning' <=> Turning
      /\ \A x \in Items : Holds(queue, x) => Holds(queue', x)
      /\ BatchesStay
  BY OnwardKeeps
<1>3. Latest \in Items
  BY Parts, ItemTyped DEF Kinds, Latest
<1>4. RosterStays
  BY <1>2, <1>3 DEF RosterStays, Onward
<1>5. QED
  BY <1>1, <1>2, <1>4, OwingStays DEF RestInv, Onward

\* The pass itself goes on as it said it would.
LEMMA OnwardRest ==
    ASSUME Typed, Facts, RestInv, Onward, Listened', Owing',
           NEW p \in PassS, Goes(co', p, pass'), p.fleet = co.requested,
           pass'.pc = "await" => p.disc,
           pass'.pc = "disc" /\ p.fleet /\ ~p.disc => Stuck
    PROVE  RestInv'
<1>1. /\ Delivered' /\ Expected' /\ Newest' /\ InOrder' /\ Priming'
      /\ Turns(queue', Bit(disp'.active), Bit(co'.requested))
      /\ Stuck => Stuck'
  BY OnwardKeeps
<1>2. Wishes'
  BY <1>1 DEF Wishes, Goes, Onward
<1>3. Failure'
  BY <1>1 DEF Failure, RestInv, Goes, DiscStops, Onward
<1>4. QED
  BY <1>1, <1>2, <1>3 DEF RestInv

\* Waiting for a reset, and telling the dispatcher to stop.
LEMMA WaitsRest ==
    ASSUME Typed, Facts, FlowInv, RestInv, AwaitReset \/ AwaitRefresh \/ StopDispatcher
    PROVE  RestInv'
<1>0. disp \in DispS /\ pass \in PassS /\ queue \in Seq(Items)
  BY DEF Typed
<1>1. /\ UNCHANGED <<auth, queue, disc, stream, co, ticket>>
      /\ disp' = disp \/ disp' = [disp EXCEPT !.stopping = TRUE]
  BY DEF AwaitReset, AwaitRefresh, StopDispatcher
<1>2. Onward
  BY <1>0, <1>1 DEF Onward, DispS, SameRest
<1>3. Listened' /\ Owing'
  BY <1>1, <1>2, OnwardOwes DEF RestInv, Listened
<1>4. pass.pc # "idle" /\ pass.fleet = co.requested
  BY DEF AwaitReset, AwaitRefresh, StopDispatcher, RestInv, Wishes
<1>5. CASE AwaitReset
  <2> DEFINE p == [pass EXCEPT !.disc = pass.previews, !.folder = IF pass.previews THEN @ ELSE 0]
  <2>1. p \in PassS /\ p.fleet = pass.fleet /\ p.disc = pass.previews
    BY <1>0, Names DEF PassS
  <2>2. pass.disc /\ pass.pc = "await"
    BY <1>5 DEF AwaitReset, RestInv, Wishes
  <2>3. CASE Outcome = "ready"
    <3>1. pass' = AtDisc(co, pass)
      BY <1>5, <2>3 DEF AwaitReset
    <3>2. Goes(co', pass, pass') /\ pass'.pc # "await"
      BY <1>0, <1>1, <3>1, PassGoes
    <3>3. QED
      BY <1>0, <1>2, <1>3, <1>4, <2>2, <3>2, OnwardRest
  <2>4. CASE Outcome = "failed"
    <3>1. pass' = AtDisc(co, p)
      BY <1>5, <2>4 DEF AwaitReset
    <3>2. Stuck
      BY <2>4 DEF Outcome, RestInv, Failure
    <3> HIDE DEF p
    <3>3. Goes(co', p, pass') /\ pass'.pc # "await"
      BY <1>1, <2>1, <3>1, PassGoes
    <3>4. QED
      BY <1>2, <1>3, <1>4, <2>1, <3>2, <3>3, OnwardRest
  <2>5. CASE Outcome \notin {"ready", "failed"}
    <3>1. pass' = NoPass
      BY <1>5, <2>5 DEF AwaitReset
    <3>2. Goes(co', pass, pass') /\ pass'.pc = "idle"
      BY <1>0, <3>1, PassGoes DEF NoPass
    <3>3. QED
      BY <1>0, <1>2, <1>3, <1>4, <3>2, OnwardRest
  <2>6. QED
    BY <2>3, <2>4, <2>5
<1>6. CASE AwaitRefresh \/ StopDispatcher
  <2>1. \/ pass' \in {AtStart(co, pass), AtEnd(pass)}
        \/ pass' = [pass EXCEPT !.pc = "dispJoin"]
    BY <1>6 DEF AwaitRefresh, StopDispatcher
  <2>2. Goes(co', pass, pass') /\ pass'.pc \notin {"await", "disc"}
    <3>1. CASE pass' \in {AtStart(co, pass), AtEnd(pass)}
      BY <1>0, <1>1, <3>1, PassGoes
    <3>2. CASE pass' = [pass EXCEPT !.pc = "dispJoin"]
      <4>1. pass'.pc = "dispJoin" /\ pass'.fleet = pass.fleet /\ pass'.disc = pass.disc
        BY <1>0, <3>2 DEF PassS
      <4>2. QED
        BY <4>1 DEF Goes
    <3>3. QED
      BY <2>1, <3>1, <3>2
  <2>3. QED
    BY <1>0, <1>2, <1>3, <1>4, <2>2, OnwardRest
<1>7. QED
  BY <1>5, <1>6

\* What is reserved of control is control's alone.
LEMMA ReservesControl ==
    ASSUME NEW a \in Authorities, NEW receipt \in Stamps,
           receipt.life = a.lanes["control"].life
    PROVE  LET b == ReserveControl(a, receipt).auth IN
           b \in Authorities /\ SameRest(a, b) /\ Others(a, b, "control")
<1> DEFINE b == IF receipt = NoReceipt THEN Begin(a, "control") ELSE a
           r == IF receipt = NoReceipt THEN Granted(b, "control") ELSE receipt
           c == StartOperation(b, "control", r.life)
           d == Reserve(c, "control", r.life)
<1>1. /\ b \in Authorities /\ SameRest(a, b) /\ Others(a, b, "control")
  <2>1. SameRest(a, a) /\ Others(a, a, "control")
    BY DEF SameRest, Others
  <2>2. CASE a.closed
    BY <2>1, <2>2 DEF Begin
  <2>3. CASE ~a.closed
    BY <2>1, <2>3, Names, BegunLane
  <2>4. QED
    BY <2>2, <2>3
<1>2. r.life \in Nat
  <2>1. r \in Stamps
    BY <1>1, Names, Fields, LaneFields, Stamp0 DEF Granted
  <2>2. QED
    BY <2>1 DEF Stamps
<1>3. ReserveControl(a, receipt).auth
        = IF r # NoReceipt /\ Owns(b, "control", r.life) THEN d ELSE b
  BY DEF ReserveControl
<1> HIDE DEF b, r
<1>4. c \in Authorities /\ SameRest(b, c) /\ Others(b, c, "control")
  <2>1. c \in Authorities
    BY <1>1, <1>2, Names, StartOperationFacts DEF Advances
  <2>2. \A x \in LaneStates :
           LET e == [b EXCEPT !.lanes["control"] = x] IN
           SameRest(b, e) /\ Others(b, e, "control")
    BY <1>1, Names, LaneSet DEF SameRest, Others
  <2>3. CASE Owns(b, "control", r.life)
    <3> DEFINE x == [b.lanes["control"] EXCEPT !.started = [life |-> r.life, order |-> @.order + 1]]
    <3>1. x \in LaneStates
      <4>1. b.lanes["control"] \in LaneStates /\ b.lanes["control"].started \in Stamps
        BY <1>1, Names, Fields, LaneFields
      <4>2. [life |-> r.life, order |-> b.lanes["control"].started.order + 1] \in Stamps
        BY <1>2, <4>1 DEF Stamps
      <4>3. QED
        BY <4>1, <4>2 DEF LaneStates
    <3>2. c = [b EXCEPT !.lanes["control"] = x]
      BY <2>3 DEF StartOperation
    <3> HIDE DEF x, c
    <3>3. QED
      BY <2>1, <2>2, <3>1, <3>2
  <2>4. CASE ~Owns(b, "control", r.life)
    BY <2>1, <2>4 DEF StartOperation, SameRest, Others
  <2>5. QED
    BY <2>3, <2>4
<1> HIDE DEF c
<1>5. d \in Authorities /\ SameRest(c, d) /\ Others(c, d, "control")
  <2>1. d \in Authorities
    BY <1>4, Names, ReserveFacts DEF Advances
  <2>2. SameRest(c, ReserveLocked(c, "control")) /\ Others(c, ReserveLocked(c, "control"), "control")
    BY <1>4, Names, LaneEffects
  <2>3. QED
    BY <2>1, <2>2 DEF Reserve, SameRest, Others
<1> HIDE DEF d
<1>6. QED
  BY <1>1, <1>3, <1>4, <1>5 DEF SameRest, Others

\* A lane that is stopped runs no more; the other workers' lanes are as they were.
LEMMA StopsLane ==
    ASSUME Typed, LifeInv, NEW l \in Watched
    PROVE  LET b == Stop(ReserveControl(auth, co.control).auth, l, auth.lanes[l].life) IN
           /\ SameRest(auth, b) /\ ~b.lanes[l].running
           /\ \A k \in Watched : /\ k # l => b.lanes[k] = auth.lanes[k]
                                 /\ b.lanes[k].running => auth.lanes[k].running
           /\ b.lanes[l].life = auth.lanes[l].life
<1> DEFINE a == ReserveControl(auth, co.control).auth
           life == auth.lanes[l].life
           e == [a EXCEPT !.lanes[l].running = FALSE]
           b == Stop(a, l, life)
<1>0. l \in Lanes /\ l # "control" /\ Watched \subseteq Lanes /\ "control" \notin Watched
  BY DEF Watched, Lanes
<1>1. a \in Authorities /\ SameRest(auth, a) /\ Others(auth, a, "control")
  BY Parts, ReservesControl DEF Typed, LifeInv
<1> HIDE DEF a
<1>2. a.lanes[l] = auth.lanes[l] /\ \A k \in Watched : a.lanes[k] = auth.lanes[k]
  BY <1>0, <1>1 DEF Others
<1>3. b.lanes[l].running = FALSE /\ b.lanes[l].life = life
  BY <1>0, <1>1, <1>2, StopFacts, Fields, LaneFields DEF SameLives
<1>4. SameRest(a, b) /\ \A k \in Lanes : k # l => b.lanes[k] = a.lanes[k]
  <2>1. CASE b = a
    BY <2>1 DEF SameRest
  <2>2. CASE b = Revoke(e)
    <3> DEFINE x == [a.lanes[l] EXCEPT !.running = FALSE]
    <3>1. x \in LaneStates /\ e = [a EXCEPT !.lanes[l] = x]
      BY <1>0, <1>1, Fields DEF LaneStates
    <3> HIDE DEF x
    <3>2. e \in Authorities /\ SameRest(a, e) /\ Others(a, e, l)
      BY <1>0, <1>1, <3>1, LaneSet DEF SameRest, Others
    <3> HIDE DEF e, b
    <3>3. SameRest(e, Revoke(e)) /\ Revoke(e).lanes = e.lanes
      BY <3>2, RevokeFacts DEF SameRest
    <3>4. QED
      BY <2>2, <3>2, <3>3 DEF SameRest, Others
  <2>3. QED
    BY <2>1, <2>2 DEF Stop
<1> HIDE DEF b
<1>5. QED
  BY <1>0, <1>1, <1>2, <1>3, <1>4 DEF SameRest, b, a

\* A Fleet that is on although nobody wants it is about to be turned off.
LEMMA TurningOff ==
    ASSUME Typed, RestInv, ~co.requested, disp.active
    PROVE  Turning
<1>1. queue \in Seq(Items) /\ Turns(queue, 1, 0)
  BY DEF Typed, RestInv, Wishes, Bit
<1>2. \E j \in DOMAIN queue : Turn(queue[j])
  BY <1>1, TurnsQueue
<1>3. QED
  BY <1>2 DEF Turning, Commands, Turn

\* Whoever stops discovery is not about to leave anything unsaid: with nothing turning,
\* the views are withheld or Fleet is off.
LEMMA StopDiscoveryRest ==
    ASSUME Typed, LifeInv, Facts, RestInv, StopDiscovery
    PROVE  RestInv'
<1> DEFINE receipt == ReserveControl(auth, co.control).receipt
<1>0. /\ disc \in DiscS /\ co \in CoS /\ pass \in PassS /\ queue \in Seq(Items)
      /\ pass.pc = "disc" /\ disc.receipt.life = auth.lanes["roster"].life
      /\ "roster" \in Watched /\ "stream" \in Watched
  BY DEF Typed, LifeInv, StopDiscovery, Watched
<1>1. /\ UNCHANGED <<queue, stream, disp>>
      /\ auth' = Stop(ReserveControl(auth, co.control).auth, "roster", disc.receipt.life)
      /\ co' = [co EXCEPT !.control = receipt, !.discSub = FALSE]
      /\ disc' = [disc EXCEPT !.stopping = TRUE]
      /\ pass' = [pass EXCEPT !.pc = "discJoin"]
  BY DEF StopDiscovery
<1> HIDE DEF receipt
<1>2. /\ SameRest(auth, auth') /\ ~auth'.lanes["roster"].running
      /\ auth'.lanes["stream"] = auth.lanes["stream"]
  BY <1>0, <1>1, StopsLane
<1>3. /\ co'.requested = co.requested /\ co'.reqGen = co.reqGen /\ co'.discOn = co.discOn
      /\ co'.completion = co.completion /\ co'.completions = co.completions
      /\ co'.streamSub = co.streamSub
      /\ disc'.gen = disc.gen /\ disc'.session = disc.session /\ disc'.latest = disc.latest
  BY <1>0, <1>1 DEF CoS, DiscS
<1>4. Onward
  BY <1>1, <1>2, <1>3 DEF Onward
<1>5. (Turning' <=> Turning) /\ (Sure(auth') <=> Sure(auth))
  BY <1>4, OnwardKeeps
<1>6. Listened'
  BY <1>1, <1>2, <1>3 DEF Listened, RestInv
<1>7. pass.fleet = co.requested /\ pass.fleet \in BOOLEAN /\ pass.disc \in BOOLEAN
  BY <1>0 DEF RestInv, Wishes, PassS
<1>8. ~(Live /\ ~Turning)
  <2> SUFFICES ASSUME Live, ~Turning PROVE FALSE
    OBVIOUS
  <2>1. CASE pass.disc
    BY <1>0, <2>1 DEF RestInv, Failure, Listened, Owing
  <2>2. CASE ~pass.disc /\ pass.fleet
    BY <1>0, <2>2 DEF RestInv, Failure, Stuck, Doomed, Live, Sure
  <2>3. CASE ~pass.fleet
    BY <1>7, <2>3, TurningOff DEF Live
  <2>4. QED
    BY <1>7, <2>1, <2>2, <2>3
<1>9. Owing'
  BY <1>1, <1>5, <1>8 DEF Owing, Live
<1>10. Goes(co', pass, pass') /\ pass'.pc \notin {"await", "disc"}
  BY <1>0, <1>1, PassTyped DEF Goes
<1>11. QED
  BY <1>0, <1>4, <1>6, <1>7, <1>9, <1>10, OnwardRest

\* A stream that is stopped owes nothing more.
LEMMA StopStreamRest ==
    ASSUME Typed, LifeInv, Facts, RestInv, StopStream
    PROVE  RestInv'
<1> DEFINE receipt == ReserveControl(auth, co.control).receipt
           delivery == ReserveControl(auth, co.control).delivery
<1>0. /\ stream \in StreamS /\ co \in CoS /\ pass \in PassS /\ queue \in Seq(Items)
      /\ pass.pc = "stream" /\ stream.receipt.life = auth.lanes["stream"].life
      /\ "roster" \in Watched /\ "stream" \in Watched
  BY DEF Typed, LifeInv, StopStream, Watched
<1>1. /\ UNCHANGED <<queue, disc, disp>>
      /\ auth' = Stop(ReserveControl(auth, co.control).auth, "stream", stream.receipt.life)
      /\ co' = [co EXCEPT !.control = receipt, !.streamSub = FALSE]
      /\ stream' = [stream EXCEPT !.stopping = TRUE]
      /\ pass' = [pass EXCEPT !.pc = "streamJoin", !.refresh = delivery]
  BY DEF StopStream
<1> HIDE DEF receipt, delivery
<1>2. /\ SameRest(auth, auth') /\ ~auth'.lanes["stream"].running
      /\ auth'.lanes["roster"] = auth.lanes["roster"]
      /\ auth'.lanes["stream"].life = auth.lanes["stream"].life
  BY <1>0, <1>1, StopsLane
<1>3. /\ co'.requested = co.requested /\ co'.reqGen = co.reqGen /\ co'.discOn = co.discOn
      /\ co'.completion = co.completion /\ co'.completions = co.completions
      /\ co'.discSub = co.discSub
      /\ stream'.drainer = stream.drainer /\ stream'.fifo = stream.fifo
      /\ stream'.carried = stream.carried
      /\ pass'.pc = "streamJoin" /\ pass'.fleet = pass.fleet /\ pass'.disc = pass.disc
  BY <1>0, <1>1 DEF CoS, StreamS, PassS
<1>4. Onward
  BY <1>1, <1>2, <1>3 DEF Onward
<1>5. (Turning' <=> Turning) /\ (Sure(auth') <=> Sure(auth))
  BY <1>4, OnwardKeeps
<1>6. Listened'
  BY <1>1, <1>2, <1>3 DEF Listened, RestInv, SameRest
<1>7. Owing'
  <2> SUFFICES ASSUME Live', ~Turning'
               PROVE  /\ auth'.lanes["roster"].running /\ auth'.lanes["stream"].life # 0
                      /\ RosterOwed'
    BY <1>2 DEF Owing
  <2>1. Live /\ ~Turning
    BY <1>1, <1>5 DEF Live
  <2>2. /\ auth.lanes["roster"].running /\ auth.lanes["stream"].life # 0
        /\ RosterOwed
    BY <2>1 DEF RestInv, Owing
  <2>3. RosterOwed'
    BY <1>1, <1>2, <2>2 DEF RosterOwed, Synced, Latest
  <2>4. QED
    BY <1>2, <2>2, <2>3
<1>8. Goes(co', pass, pass') /\ pass'.pc \notin {"await", "disc"}
  BY <1>3 DEF Goes
<1>9. pass.fleet = co.requested
  BY <1>0 DEF RestInv, Wishes
<1>10. QED
  BY <1>0, <1>4, <1>6, <1>7, <1>8, <1>9, OnwardRest

\* A command is numbered with its completion, the one that is waited for from then on.
LEMMA AwaitedCommand ==
    ASSUME NEW c \in CoS, NEW item \in Items, NEW gen \in Nat
    PROVE  LET w == Awaited(c, item, gen) IN
           /\ w.co \in CoS /\ w.item \in Items
           /\ w.item.kind = item.kind /\ w.item.value = item.value
           /\ w.item.id \in {0, c.completions + 1}
           /\ w.co.completion.id = w.item.id /\ w.co.completion.st # "failed"
           /\ w.co.completions = IF w.item.id = 0 THEN c.completions ELSE c.completions + 1
           /\ w.co.requested = c.requested /\ w.co.reqGen = c.reqGen
<1> DEFINE fresh == (item.kind = "refresh" \/ item.value = 1) /\ ~auth.closed
           id == IF fresh THEN c.completions + 1 ELSE 0
           n == IF fresh THEN c.completions + 1 ELSE c.completions
           m == IF fresh THEN [id |-> id, gen |-> gen, st |-> "open"] ELSE NoCompletion
           e == [c EXCEPT !.completions = n, !.completion = m]
           i == [item EXCEPT !.id = id]
<1>1. Awaited(c, item, gen) = [co |-> e, item |-> i]
  BY DEF Awaited
<1>2. /\ id \in {0, c.completions + 1} /\ c.completions \in Nat
      /\ n = IF id = 0 THEN c.completions ELSE c.completions + 1
      /\ m.id = id /\ m.st # "failed" /\ m \in Completions /\ n \in Nat
  <2>1. c.completions \in Nat
    BY DEF CoS
  <2>2. QED
    BY <2>1 DEF NoCompletion, Completions
<1> HIDE DEF n, m, id
<1>3. /\ e \in CoS /\ e.completion = m /\ e.completions = n
      /\ e.requested = c.requested /\ e.reqGen = c.reqGen
  BY <1>2 DEF CoS
<1>4. i \in Items /\ i.kind = item.kind /\ i.value = item.value /\ i.id = id
  BY <1>2 DEF Items
<1> HIDE DEF e, i
<1>5. Awaited(c, item, gen).co = e /\ Awaited(c, item, gen).item = i
  BY <1>1
<1>6. QED
  BY <1>2, <1>3, <1>4, <1>5

\* The places a pass may be at.
Placed == /\ pass'.pc # "idle" => pass'.fleet = co'.requested
          /\ pass'.pc \in {"dispatcher", "await"} => pass'.disc
          /\ pass'.pc = "disc" => /\ DiscStops(co', pass')
                                  /\ pass'.fleet => pass'.disc

\* A command is queued behind the others, for the mode they leave.
LEMMA CommandRest ==
    ASSUME Typed, Facts, RestInv, NEW c \in CoS, NEW item \in Items, NEW gen \in Nat,
           Commands(item), c.completions = co.completions,
           queue' = Append(queue, Awaited(c, item, gen).item),
           co' = Awaited(c, item, gen).co,
           Turn(item) => item.value \in {0, 1} /\ item.value # Bit(co.requested)
                         /\ Bit(c.requested) = item.value,
           item.kind = "refresh" => co.requested /\ c.requested,
           disp' = disp, UNCHANGED disc,
           stream'.drainer = stream.drainer, stream'.fifo = stream.fifo,
           stream'.carried = stream.carried,
           SameRest(auth, auth'), Listened', Placed
    PROVE  RestInv'
<1> DEFINE w == Awaited(c, item, gen)
<1>0. queue \in Seq(Items) /\ disp \in DispS /\ co \in CoS /\ co.completions \in Nat
      /\ disp.item \in Items /\ disp.item.id \in Nat
  BY Parts, ItemFields DEF Typed
<1>1. /\ w.item \in Items /\ w.item.kind = item.kind /\ w.item.value = item.value
      /\ w.item.id \in {0, c.completions + 1}
      /\ w.co.completion.id = w.item.id /\ w.co.completion.st # "failed"
      /\ w.co.completions = IF w.item.id = 0 THEN c.completions ELSE c.completions + 1
      /\ w.co.requested = c.requested
  BY AwaitedCommand
<1>2. Commands(w.item) /\ queue' = Append(queue, w.item) /\ co' = w.co
  BY <1>1 DEF Commands
<1> HIDE DEF w
<1>3. Numbered(queue, co.completions) /\ Turns(queue, Bit(disp.active), Bit(co.requested))
  BY DEF RestInv, Expected, Wishes
<1>4. Expected'
  <2>1. /\ Numbered(Append(queue, w.item), co.completions + 1)
        /\ w.item.id = 0 => Numbered(Append(queue, w.item), co.completions)
        /\ LastCommand(Append(queue, w.item), co.completions + 1)
    BY <1>0, <1>1, <1>3, Commanded
  <2>2. /\ co'.completion.id \in {0, co.completions + 1}
        /\ co'.completions = IF co'.completion.id = 0 THEN co.completions ELSE co.completions + 1
        /\ co'.completion.id = w.item.id
    BY <1>1, <1>2
  <2>3. disp.pc = "reset" => disp.item.id <= co.completions
    BY DEF RestInv, Expected
  <2>4. /\ co'.completion.id <= co'.completions /\ Numbered(queue', co'.completions)
        /\ disp'.pc = "reset" => disp'.item.id <= co'.completions
    BY <1>0, <1>2, <2>1, <2>2, <2>3
  <2>5. co'.completion.id # 0 => LastCommand(queue', co'.completion.id)
    BY <1>2, <2>1, <2>2
  <2>6. ~(disp'.pc = "reset" /\ disp'.item.id # 0 /\ disp'.item.id = co'.completion.id)
    BY <1>0, <2>2, <2>3
  <2>7. QED
    BY <2>4, <2>5, <2>6 DEF Expected
<1>5. Turns(queue', Bit(disp'.active), Bit(co'.requested))
  <2>1. Bit(disp.active) \in {0, 1} /\ Bit(co.requested) \in {0, 1}
    BY DEF Bit
  <2>2. CASE Turn(item)
    <3>1. Turn(w.item) /\ w.item.value \in {0, 1} /\ w.item.value # Bit(co.requested)
          /\ Bit(co'.requested) = w.item.value
      BY <1>1, <1>2, <2>2 DEF Turn
    <3>2. QED
      BY <1>0, <1>1, <1>2, <1>3, <2>1, <3>1, TurnsQueue
  <2>3. CASE ~Turn(item)
    <3>1. ~Turn(w.item) /\ Bit(co.requested) = 1 /\ Bit(co'.requested) = 1
      BY <1>1, <1>2, <2>3 DEF Turn, Commands, Bit
    <3>2. Turns(Append(queue, w.item), Bit(disp.active), Bit(co.requested))
      BY <1>0, <1>1, <1>3, <2>1, <3>1, TurnsQueue
    <3>3. QED
      BY <1>2, <3>1, <3>2
  <2>4. QED
    BY <2>2, <2>3
<1>6. Turning'
  <2>1. ~NoCommand(queue')
    <3>1. \A i \in Items : Commands(i) => ~NoCommand(Append(queue, i)) /\ ~NoCommand(<<i>>)
      BY <1>0, Commanded
    <3>2. QED
      BY <1>1, <1>2, <3>1
  <2>2. QED
    BY <2>1 DEF Turning, NoCommand
<1>7. ~Batch(w.item) /\ w.item.kind # "roster"
  BY <1>2 DEF Commands, Batch
<1>8. FlightKept
  BY <1>1, <1>2, <1>7, QueueKept DEF Joins, Facts, SourceTruth
<1>9. Newest' /\ InOrder'
  <2>1. Latest' = Latest /\ disp.rosterGen <= disc.gen
    BY DEF Latest, RestInv, Newest
  <2>2. /\ \A x, y \in Items : Flies(x, y)' => Flies(x, y)
        /\ \A x \in Items : Holds(queue', x) /\ x.kind = "roster" => Holds(queue, x) \/ x = Latest
    BY <1>8 DEF FlightKept, Told
  <2>3. QED
    BY <2>1, <2>2, NewsStays DEF RestInv
<1>10. Delivered' /\ Priming'
  BY DEF RestInv, Delivered, Priming, SameRest
<1>11. Owing'
  BY <1>6 DEF Owing
<1>12. Wishes' /\ Failure'
  BY <1>1, <1>2, <1>5 DEF Wishes, Failure, Placed, DiscStops
<1>13. QED
  BY <1>4, <1>9, <1>10, <1>11, <1>12 DEF RestInv

\* Discovery ends only when its lane was stopped, and then nothing is owed.
LEMMA JoinDiscoveryRest ==
    ASSUME Typed, LifeInv, Facts, RestInv, JoinDiscovery
    PROVE  RestInv'
<1>0. /\ auth \in Authorities /\ disc \in DiscS /\ co \in CoS /\ pass \in PassS
      /\ pass.pc = "discJoin" /\ pass.fleet = co.requested
      /\ UNCHANGED <<queue, stream, disp>>
  BY DEF Typed, JoinDiscovery, RestInv, Wishes
<1>1. CASE ~DiscoveryDead
  <2>1. UNCHANGED <<auth, disc, co>> /\ pass' = AtStream(co, pass)
    BY <1>1 DEF JoinDiscovery
  <2>2. Onward
    BY <1>0, <2>1 DEF Onward, SameRest
  <2>3. Listened' /\ Owing'
    BY <2>1, <2>2, OnwardOwes DEF RestInv, Listened
  <2>4. Goes(co', pass, pass') /\ pass'.pc \notin {"await", "disc"}
    BY <1>0, <2>1, PassGoes
  <2>5. QED
    BY <1>0, <2>2, <2>3, <2>4, OnwardRest
<1>2. CASE DiscoveryDead
  <2>1. /\ auth' = Stopped(auth, "roster", disc.receipt.life)
        /\ disc' = [disc EXCEPT !.worker = FALSE, !.stopping = FALSE, !.receipt = NoReceipt]
        /\ co' = [co EXCEPT !.discOn = FALSE]
        /\ pass' = AtDisc(co', pass)
    BY <1>2 DEF JoinDiscovery
  <2>2. /\ SameRest(auth, auth') /\ Others(auth, auth', "roster")
        /\ ~auth'.lanes["roster"].running /\ ~auth.lanes["roster"].running
    <3>1. disc.receipt.life = auth.lanes["roster"].life /\ ~auth.lanes["roster"].running
      BY <1>0 DEF LifeInv
    <3>2. LET b == Stopped(auth, "roster", disc.receipt.life) IN
          /\ SameRest(auth, b) /\ Others(auth, b, "roster") /\ ~b.lanes["roster"].running
      BY <1>0, <3>1, Names, FreedLane
    <3>3. QED
      BY <2>1, <3>1, <3>2
  <2>3. /\ disc'.gen = disc.gen /\ disc'.session = disc.session /\ disc'.latest = disc.latest
        /\ ~co'.discOn /\ co'.requested = co.requested /\ co'.reqGen = co.reqGen
        /\ co'.completion = co.completion /\ co'.completions = co.completions
        /\ co'.streamSub = co.streamSub
    BY <1>0, <2>1 DEF DiscS, CoS
  <2>4. Onward
    BY <1>0, <2>2, <2>3 DEF Onward
  <2>5. (Turning' <=> Turning) /\ (Sure(auth') <=> Sure(auth))
    BY <2>4, OnwardKeeps
  <2>6. Owing'
    BY <1>0, <2>2, <2>5 DEF RestInv, Owing, Live
  <2>7. Listened'
    <3>1. auth'.lanes["stream"] = auth.lanes["stream"]
      BY <2>2, Names DEF Others
    <3>2. QED
      BY <2>2, <2>3, <3>1 DEF RestInv, Listened
  <2>8. Goes(co', pass, pass') /\ pass'.pc # "await"
    BY <1>0, <2>1, PassGoes
  <2>9. pass'.pc # "disc"
    BY <2>3, <2>8 DEF Goes, DiscStops
  <2>10. QED
    BY <1>0, <2>4, <2>6, <2>7, <2>8, <2>9, OnwardRest
<1>3. QED
  BY <1>1, <1>2

\* Discovery goes on with the lifetime it has, or none was there to owe anything.
LEMMA StartDiscoveryRest ==
    ASSUME Typed, LifeInv, Facts, RestInv, StartDiscovery
    PROVE  RestInv'
<1> DEFINE begins == disc.receipt = NoReceipt
           a == IF begins THEN Begin(auth, "roster") ELSE auth
           r == IF begins THEN Granted(a, "roster") ELSE disc.receipt
<1>0. /\ auth \in Authorities /\ disc \in DiscS /\ co \in CoS /\ pass \in PassS
      /\ pass.pc = "startDisc" /\ pass.fleet = co.requested
      /\ UNCHANGED <<queue, stream, disp>> /\ pass' = AtStream(co', pass)
  BY DEF Typed, StartDiscovery, RestInv, Wishes
<1>1. Goes(co', pass, pass') /\ pass'.pc \notin {"await", "disc"}
  BY <1>0, PassGoes
<1>2. CASE auth.closed
  <2>1. UNCHANGED <<auth, disc, co>>
    BY <1>2 DEF StartDiscovery
  <2>2. Onward
    BY <1>0, <2>1 DEF Onward, SameRest
  <2>3. Listened' /\ Owing'
    BY <2>1, <2>2, OnwardOwes DEF RestInv, Listened
  <2>4. QED
    BY <1>0, <1>1, <2>2, <2>3, OnwardRest
<1>3. CASE ~auth.closed
  <2>1. /\ auth' = a
        /\ disc' = [disc EXCEPT !.worker = TRUE, !.receipt = r]
        /\ co' = [co EXCEPT !.discOn = TRUE, !.discSub = TRUE]
    BY <1>3 DEF StartDiscovery
  <2>2. SameRest(auth, a) /\ Others(auth, a, "roster")
    <3>1. SameRest(auth, auth) /\ Others(auth, auth, "roster")
      BY DEF SameRest, Others
    <3>2. QED
      BY <1>0, <1>3, <3>1, Names, BegunLane
  <2>3. /\ begins => auth.lanes["roster"].life = 0
        /\ ~begins => auth' = auth /\ r = disc.receipt
    BY <2>1 DEF LifeInv, NoReceipt
  <2>4. begins => ~auth.lanes["roster"].running
    BY <2>3, Names DEF Facts, LaneTruth, Sound, LaneSound
  <2> HIDE DEF begins, a, r
  <2>5. /\ disc'.gen = disc.gen /\ disc'.session = disc.session /\ disc'.latest = disc.latest
        /\ disc'.receipt = r /\ disc'.pc = disc.pc
        /\ co'.discSub /\ co'.requested = co.requested /\ co'.reqGen = co.reqGen
        /\ co'.completion = co.completion /\ co'.completions = co.completions
        /\ co'.streamSub = co.streamSub
    BY <1>0, <2>1 DEF DiscS, CoS
  <2>6. Onward
    BY <1>0, <2>1, <2>2, <2>5 DEF Onward
  <2>7. Owing'
    <3>1. CASE begins
      <4>1. (Turning' <=> Turning) /\ (Sure(auth') <=> Sure(auth))
        BY <2>6, OnwardKeeps
      <4>2. QED
        BY <1>0, <2>4, <3>1, <4>1 DEF RestInv, Owing, Live
    <3>2. CASE ~begins
      BY <2>3, <2>5, <2>6, <3>2, OnwardOwes
    <3>3. QED
      BY <3>1, <3>2
  <2>8. Listened'
    <3>1. auth'.lanes["stream"] = auth.lanes["stream"]
      BY <2>1, <2>2, Names DEF Others
    <3>2. QED
      BY <2>5, <3>1 DEF RestInv, Listened
  <2>9. QED
    BY <1>0, <1>1, <2>6, <2>7, <2>8, OnwardRest
<1>4. QED
  BY <1>2, <1>3

\* No stream ran, so nothing was owed; one that begins has its subscriber.
LEMMA StartStreamRest ==
    ASSUME Typed, LifeInv, FlowInv, Facts, RestInv, StartStream
    PROVE  RestInv'
<1> DEFINE r == Granted(auth', "stream")
           i == Item("ready", 0, 0, NoDelivery, 0)
<1>0. /\ auth \in Authorities /\ stream \in StreamS /\ co \in CoS /\ pass \in PassS
      /\ pass.pc = "startStream" /\ pass.fleet = co.requested
      /\ UNCHANGED <<disc, disp>> /\ pass' = AtEnd(pass)
      /\ co.folder = 0 /\ auth.lanes["stream"].life = 0
  BY DEF Typed, StartStream, RestInv, Wishes, FlowInv, Flow, LifeInv
<1>1. Goes(co', pass, pass') /\ pass'.pc \notin {"await", "disc"}
  BY <1>0, PassGoes
<1>2. CASE auth.closed
  <2>1. UNCHANGED <<auth, queue, stream, co>>
    BY <1>2 DEF StartStream
  <2>2. Onward
    BY <1>0, <2>1 DEF Onward, SameRest
  <2>3. Listened' /\ Owing'
    BY <1>0, <2>1, <2>2, OnwardOwes DEF RestInv, Listened
  <2>4. QED
    BY <1>0, <1>1, <2>2, <2>3, OnwardRest
<1>3. CASE ~auth.closed
  <2>1. /\ auth' = Begin(auth, "stream")
        /\ stream' = [stream EXCEPT !.worker = TRUE, !.tracked = 0, !.receipt = r]
        /\ co' = [co EXCEPT !.folder = pass.folder, !.streamSub = TRUE]
        /\ queue' = Append(queue, i)
    BY <1>3 DEF StartStream
  <2>2. SameRest(auth, auth') /\ Others(auth, auth', "stream")
    BY <1>0, <1>3, <2>1, Names, BegunLane
  <2>3. i \in Items /\ i.kind = "ready"
    BY Stamp0, ItemTyped DEF Kinds, Item
  <2> HIDE DEF i, r
  <2>4. /\ stream'.drainer = stream.drainer /\ stream'.fifo = stream.fifo
        /\ stream'.carried = stream.carried
        /\ co'.streamSub /\ co'.requested = co.requested /\ co'.reqGen = co.reqGen
        /\ co'.completion = co.completion /\ co'.completions = co.completions
        /\ co'.discSub = co.discSub /\ co'.discOn = co.discOn
    BY <1>0, <2>1 DEF StreamS, CoS
  <2>5. Onward
    BY <1>0, <2>1, <2>2, <2>3, <2>4 DEF Onward
  <2>6. (Turning' <=> Turning) /\ (Sure(auth') <=> Sure(auth))
    BY <2>5, OnwardKeeps
  <2>7. Owing'
    BY <1>0, <2>6 DEF RestInv, Owing, Live
  <2>8. Listened'
    <3>1. auth'.lanes["roster"] = auth.lanes["roster"]
      BY <2>2, Names DEF Others
    <3>2. QED
      BY <1>0, <2>2, <2>4, <3>1 DEF RestInv, Listened, SameRest
  <2>9. QED
    BY <1>0, <1>1, <2>5, <2>7, <2>8, OnwardRest
<1>4. QED
  BY <1>2, <1>3

\* A stream that has ended is refreshed if Fleet is on; if not, nothing is owed.
LEMMA JoinStreamRest ==
    ASSUME Typed, LifeInv, Facts, RestInv, JoinStream
    PROVE  RestInv'
<1> DEFINE c == [co EXCEPT !.folder = 0]
           p == [pass EXCEPT !.refresh = NoDelivery]
           i == Item("refresh", 0, 0, pass.refresh, 0)
           w == Awaited(c, i, co.reqGen)
           q == [p EXCEPT !.pc = "awaitRefresh"]
<1>0. /\ auth \in Authorities /\ stream \in StreamS /\ co \in CoS /\ pass \in PassS
      /\ pass.pc = "streamJoin" /\ pass.fleet = co.requested /\ pass.fleet \in BOOLEAN
      /\ UNCHANGED <<disc, disp>> /\ co.reqGen \in Nat /\ pass.refresh \in Deliveries
  BY Parts, PassTyped DEF Typed, JoinStream, RestInv, Wishes
<1>1. CASE ~StreamDead
  <2>1. UNCHANGED <<auth, queue, stream, co>> /\ pass' = AtEnd(pass)
    BY <1>1 DEF JoinStream
  <2>2. Onward
    BY <1>0, <2>1 DEF Onward, SameRest
  <2>3. Listened' /\ Owing'
    BY <1>0, <2>1, <2>2, OnwardOwes DEF RestInv, Listened
  <2>4. Goes(co', pass, pass') /\ pass'.pc \notin {"await", "disc"}
    BY <1>0, <2>1, PassGoes
  <2>5. QED
    BY <1>0, <2>2, <2>3, <2>4, OnwardRest
<1>2. CASE StreamDead
  <2>1. /\ auth' = Stopped(auth, "stream", stream.receipt.life)
        /\ stream' = [stream EXCEPT !.worker = FALSE, !.stopping = FALSE, !.receipt = NoReceipt]
        /\ IF pass.fleet THEN co' = w.co /\ queue' = Append(queue, w.item)
                         ELSE co' = c /\ UNCHANGED queue
        /\ pass' = q \/ pass' = AtStart(c, p)
    BY <1>2 DEF JoinStream, WantsMetrics
  <2>2. /\ SameRest(auth, auth') /\ Others(auth, auth', "stream")
        /\ ~auth'.lanes["stream"].running
    <3>1. stream.receipt.life = auth.lanes["stream"].life /\ ~auth.lanes["stream"].running
      BY <1>0 DEF LifeInv
    <3>2. LET b == Stopped(auth, "stream", stream.receipt.life) IN
          /\ SameRest(auth, b) /\ Others(auth, b, "stream") /\ ~b.lanes["stream"].running
      BY <1>0, <3>1, Names, FreedLane
    <3>3. QED
      BY <2>1, <3>1, <3>2
  <2>3. /\ c \in CoS /\ c.requested = co.requested /\ c.reqGen = co.reqGen
        /\ c.completion = co.completion /\ c.completions = co.completions
        /\ c.discSub = co.discSub /\ c.discOn = co.discOn /\ c.streamSub = co.streamSub
        /\ p \in PassS /\ p.fleet = pass.fleet /\ p.disc = pass.disc
        /\ i \in Items /\ i.kind = "refresh"
    BY <1>0, Names, Stamp0, ItemTyped DEF CoS, PassS, Kinds, Item
  <2>4. q.pc = "awaitRefresh" /\ q.fleet = p.fleet /\ q.disc = p.disc
    BY <2>3 DEF PassS
  <2> HIDE DEF c, p, i, q
  <2>5. w.co.discSub = c.discSub /\ w.co.discOn = c.discOn /\ w.co.streamSub = c.streamSub
    BY <1>0, <2>3, AwaitedFacts DEF Booked
  <2>6. w.co.requested = c.requested
    BY <1>0, <2>3, AwaitedCommand
  <2> HIDE DEF w
  <2>7. Goes(c, p, pass') /\ pass'.pc \notin {"await", "disc"}
    BY <2>1, <2>3, <2>4, PassGoes DEF Goes
  <2>8. /\ stream'.drainer = stream.drainer /\ stream'.fifo = stream.fifo
        /\ stream'.carried = stream.carried
    BY <1>0, <2>1 DEF StreamS
  <2>9. Listened'
    <3>1. auth'.lanes["roster"] = auth.lanes["roster"]
      BY <2>2, Names DEF Others
    <3>2. QED
      BY <1>0, <2>1, <2>2, <2>3, <2>5, <3>1 DEF RestInv, Listened, SameRest
  <2>10. CASE pass.fleet
    <3>1. /\ co' = Awaited(c, i, co.reqGen).co
          /\ queue' = Append(queue, Awaited(c, i, co.reqGen).item)
      BY <2>1, <2>10 DEF w
    <3>2. Placed
      BY <1>0, <2>1, <2>3, <2>6, <2>7, <2>10 DEF Placed, Goes
    <3>3. Commands(i) /\ ~Turn(i)
      BY <2>3 DEF Commands, Turn
    <3>4. QED
      BY <1>0, <2>2, <2>3, <2>8, <2>9, <2>10, <3>1, <3>2, <3>3, CommandRest
  <2>11. CASE ~pass.fleet
    <3>1. co' = c /\ queue' = queue
      BY <2>1, <2>11
    <3>2. Onward
      BY <1>0, <2>2, <2>3, <2>8, <3>1 DEF Onward
    <3>3. (Turning' <=> Turning)
      BY <3>2, OnwardKeeps
    <3>4. Owing'
      BY <1>0, <2>11, <3>3, TurningOff DEF Owing, Live
    <3>5. Goes(co', p, pass')
      BY <2>7, <3>1
    <3>6. QED
      BY <1>0, <2>3, <2>7, <2>9, <3>2, <3>4, <3>5, OnwardRest
  <2>12. QED
    BY <2>10, <2>11
<1>3. QED
  BY <1>1, <1>2

\* A pass with another aim is placed as well.
LEMMA OnwardPlaced ==
    ASSUME Typed, Facts, RestInv, Onward, Listened', Owing', Placed
    PROVE  RestInv'
<1>1. /\ Delivered' /\ Expected' /\ Newest' /\ InOrder' /\ Priming'
      /\ Turns(queue', Bit(disp'.active), Bit(co'.requested))
      /\ Stuck => Stuck'
  BY OnwardKeeps
<1>2. Wishes'
  BY <1>1 DEF Wishes, Placed, Onward
<1>3. Failure'
  BY <1>1 DEF Failure, RestInv, Placed, DiscStops, Onward
<1>4. QED
  BY <1>1, <1>2, <1>3 DEF RestInv

\* Another mode is asked for, or the same one.
LEMMA ReconcileRest ==
    ASSUME Typed, LifeInv, Facts, RestInv, Reconcile
    PROVE  RestInv'
<1>1. PICK fleet \in FleetChoices, previews \in PreviewChoices,
           folder \in IF co.folder = 0 THEN {1} ELSE 1..Folders :
         LET wanted == fleet \/ previews
             r == ReserveControl(auth, co.control)
             gen == co.reqGen + 1
             w == Awaited([co EXCEPT !.requested = fleet, !.reqGen = gen,
                                     !.control = r.receipt],
                          Item("mode", gen, IF fleet THEN 1 ELSE 0, r.delivery, 0),
                          gen)
             p == [pc |-> "dispatcher", fleet |-> fleet, previews |-> previews,
                   disc |-> wanted, folder |-> IF wanted THEN folder ELSE 0,
                   refresh |-> NoDelivery]
         IN  /\ pass' = IF wanted THEN p ELSE AtDisc(co, p)
             /\ IF fleet = co.requested
                THEN UNCHANGED <<auth, queue, co>>
                ELSE /\ auth' = r.auth
                     /\ co' = w.co
                     /\ queue' = Append(queue, w.item)
  BY DEF Reconcile
<1> DEFINE wanted == fleet \/ previews
           r == ReserveControl(auth, co.control)
           gen == co.reqGen + 1
           m == [co EXCEPT !.requested = fleet, !.reqGen = gen, !.control = r.receipt]
           i == Item("mode", gen, IF fleet THEN 1 ELSE 0, r.delivery, 0)
           w == Awaited(m, i, gen)
           p == [pc |-> "dispatcher", fleet |-> fleet, previews |-> previews,
                 disc |-> wanted, folder |-> IF wanted THEN folder ELSE 0,
                 refresh |-> NoDelivery]
<1>2. /\ auth \in Authorities /\ co.control \in Stamps /\ co \in CoS
      /\ gen \in Nat /\ fleet \in BOOLEAN /\ previews \in BOOLEAN
      /\ co.control.life = auth.lanes["control"].life
      /\ UNCHANGED <<disc, stream, disp, ticket>>
  BY <1>1, Parts DEF Typed, LifeInv, Reconcile
<1>3. ASSUME NEW c, c.requested = fleet, c.discOn = co.discOn, c.discSub = co.discSub, co' = c
      PROVE  Placed
  <2>1. CASE wanted
    <3>1. pass'.pc = "dispatcher" /\ pass'.fleet = fleet /\ pass'.disc
      BY <1>1, <2>1
    <3>2. QED
      BY <1>3, <3>1 DEF Placed
  <2>2. CASE ~wanted
    <3>1. pass' = AtDisc(co, p) /\ ~fleet
      BY <1>1, <2>2
    <3>2. p \in PassS /\ p.fleet = fleet /\ p.disc = FALSE
      BY <1>2, <2>2, Names, Stamp0 DEF PassS
    <3> HIDE DEF p
    <3>3. Goes(co, p, pass') /\ pass'.pc # "await"
      BY <3>1, <3>2, PassGoes
    <3>4. QED
      BY <1>3, <3>1, <3>2, <3>3 DEF Placed, Goes, DiscStops
  <2>3. QED
    BY <2>1, <2>2
<1>4. CASE fleet = co.requested
  <2>1. UNCHANGED <<auth, queue, co>>
    BY <1>1, <1>4
  <2>2. Placed
    BY <1>3, <1>4, <2>1
  <2>3. Onward
    BY <1>2, <2>1 DEF Onward, SameRest
  <2>4. Listened' /\ Owing'
    BY <1>2, <2>1, <2>3, OnwardOwes DEF RestInv, Listened
  <2>5. QED
    BY <2>2, <2>3, <2>4, OnwardPlaced
<1>5. CASE fleet # co.requested
  <2>1. auth' = r.auth /\ co' = w.co /\ queue' = Append(queue, w.item)
    BY <1>1, <1>5
  <2>2. SameRest(auth, auth') /\ Others(auth, auth', "control")
    BY <1>2, <2>1, ReservesControl
  <2>3. r.receipt \in Stamps /\ r.delivery \in Deliveries
    BY <1>2, ReserveControlFacts
  <2> HIDE DEF r, gen, p, wanted
  <2>4. /\ m \in CoS /\ m.requested = fleet /\ m.completions = co.completions
        /\ m.discOn = co.discOn /\ m.discSub = co.discSub /\ m.streamSub = co.streamSub
    BY <1>2, <2>3 DEF CoS
  <2>5. i \in Items /\ i.kind = "mode" /\ i.value = Bit(fleet)
    <3>1. (IF fleet THEN 1 ELSE 0) \in Nat
      OBVIOUS
    <3>2. i \in Items
      BY <1>2, <2>3, <3>1, ItemTyped DEF Kinds
    <3>3. QED
      BY <3>2 DEF Item, Bit
  <2> HIDE DEF m, i
  <2>6. /\ w.co.discSub = m.discSub /\ w.co.discOn = m.discOn /\ w.co.streamSub = m.streamSub
    BY <1>2, <2>4, <2>5, AwaitedFacts DEF Booked
  <2>7. w.co.requested = m.requested
    BY <1>2, <2>4, <2>5, AwaitedCommand
  <2>8. Placed
    BY <1>3, <2>1, <2>4, <2>6, <2>7
  <2>9. Listened'
    <3>1. /\ auth'.lanes["roster"] = auth.lanes["roster"]
          /\ auth'.lanes["stream"] = auth.lanes["stream"]
      BY <2>2, Names DEF Others
    <3>2. /\ co'.discSub = co.discSub /\ co'.discOn = co.discOn
          /\ co'.streamSub = co.streamSub
      BY <2>1, <2>4, <2>6
    <3>3. QED
      BY <1>2, <2>2, <3>1, <3>2 DEF RestInv, Listened, SameRest
  <2>10. Commands(i) /\ i.value \in {0, 1} /\ i.value # Bit(co.requested)
         /\ Bit(m.requested) = i.value
    BY <1>2, <1>5, <2>4, <2>5 DEF Commands, Bit, CoS
  <2>11. co' = Awaited(m, i, gen).co /\ queue' = Append(queue, Awaited(m, i, gen).item)
    BY <2>1
  <2> HIDE DEF w
  <2>12. QED
    BY <1>2, <2>2, <2>4, <2>5, <2>8, <2>9, <2>10, <2>11, CommandRest
<1>6. QED
  BY <1>4, <1>5

\* A dispatcher that is finalized serves nobody, and owes nobody anything.
LEMMA FinalizedRest ==
    ASSUME Typed, Facts, RestInv, ResetsOnly(auth, auth'), UNCHANGED <<disc, stream>>,
           disp'.pc = disp.pc, disp'.item = disp.item, disp'.rosterGen = 0, ~disp'.active,
           co'.discOn = co.discOn, co'.discSub = co.discSub, co'.streamSub = co.streamSub,
           co'.completion.st # "failed", co'.completions \in Nat,
           co.completions <= co'.completions,
           \/ queue' = <<>> /\ ~co'.requested /\ co'.completion.id = 0
           \/ \E i \in Items : /\ i.kind = "mode" /\ i.value = 1 /\ queue' = <<i>>
                               /\ co'.requested /\ disp.pc # "reset"
                               /\ i.id <= co'.completions /\ co'.completion.id = i.id,
           Placed
    PROVE  RestInv'
<1>0. /\ queue \in Seq(Items) /\ disc.gen \in Nat /\ co.completions \in Nat
      /\ disp.item \in Items /\ disp.item.id \in Nat
  BY Parts, ItemFields DEF Typed
<1>1. /\ Turns(<<>>, 0, 0) /\ NoCommand(<<>>)
      /\ \A i \in Items : i.kind = "mode" =>
            /\ i.value = 1 => Turns(<<i>>, 0, 1)
            /\ \A n \in Nat : i.id <= n => Numbered(<<i>>, n)
            /\ \A n : LastCommand(<<i>>, n)
  <2>1. Turns(<<>>, 0, 0) /\ NoCommand(<<>>)
    BY <1>0, TurnsQueue, Commanded
  <2>2. \A i \in Items : Turn(i) /\ i.value = 1 => Turns(<<i>>, 0, 1)
    BY <1>0, TurnsQueue
  <2>3. \A i \in Items : /\ \A n \in Nat : i.id <= n => Numbered(<<i>>, n)
                         /\ \A n : LastCommand(<<i>>, n)
    BY <1>0, Commanded
  <2>4. QED
    BY <2>1, <2>2, <2>3 DEF Turn
<1>2. Turns(queue', Bit(disp'.active), Bit(co'.requested))
  BY <1>1 DEF Bit
<1>3. Numbered(queue', co'.completions) /\ co'.completion.id <= co'.completions
      /\ (co'.completion.id # 0 => LastCommand(queue', co'.completion.id))
  <2>1. CASE queue' = <<>> /\ co'.completion.id = 0
    BY <2>1 DEF Numbered, LastCommand
  <2>2. ASSUME NEW i \in Items, i.kind = "mode", queue' = <<i>>, i.id <= co'.completions,
               co'.completion.id = i.id
        PROVE  <1>3
    BY <1>1, <2>2
  <2>3. QED
    BY <2>1, <2>2
<1>4. Expected'
  BY <1>0, <1>3 DEF Expected, RestInv
<1>5. Wishes' /\ Failure'
  BY <1>2 DEF Wishes, Failure, Placed, DiscStops
<1>6. /\ \A l \in Watched : auth'.lanes[l].running => auth.lanes[l].running
      /\ auth.closed => auth'.closed
      /\ ~auth'.closed => auth'.pending # 0
  BY DEF ResetsOnly, LanesCalm
<1>7. Listened' /\ Priming' /\ Delivered'
  BY <1>6 DEF Listened, Priming, Delivered, RestInv, Watched
<1>8. Owing'
  BY DEF Owing, Live
<1>9. FlightKept
  <2>1. \A i \in Items : i.kind = "mode" => Joins(i)
    BY DEF Joins, Batch
  <2>2. QED
    BY <2>1, QueueKept DEF Facts, SourceTruth
<1>10. Newest' /\ InOrder'
  <2>1. Latest' = Latest /\ disp'.rosterGen <= disc.gen
    BY <1>0 DEF Latest
  <2>2. /\ \A x, y \in Items : Flies(x, y)' => Flies(x, y)
        /\ \A x \in Items : Holds(queue', x) /\ x.kind = "roster" => Holds(queue, x) \/ x = Latest
    BY <1>9 DEF FlightKept, Told
  <2>3. QED
    BY <2>1, <2>2, NewsStays DEF RestInv
<1>11. QED
  BY <1>4, <1>5, <1>7, <1>8, <1>10 DEF RestInv

\* What a finalization leaves of the dispatcher and of the coordinator.
LEMMA FinalizedTells ==
    ASSUME Typed
    PROVE  /\ LET f == Finalized IN
              /\ f.disp.item = disp.item /\ f.disp.pc = disp.pc /\ f.disp.rosterGen = 0
              /\ f.disp.active = FALSE
              /\ f.co.requested = FALSE /\ f.co.completion = NoCompletion
              /\ f.co.completions = co.completions
              /\ f.co.discOn = co.discOn /\ f.co.discSub = co.discSub
              /\ f.co.streamSub = co.streamSub
           /\ LET f == NotFinalized IN
              /\ f.disp.item = disp.item /\ f.disp.pc = disp.pc
              /\ f.disp.rosterGen = disp.rosterGen /\ f.disp.active = disp.active
              /\ Doomed(f.auth)
<1> DEFINE a == ResetStarted(auth)
           n == Boundary(a)
           d == [Cleared(disp) EXCEPT
                   !.worker = FALSE, !.stopping = FALSE, !.boundary = n,
                   !.restated = {}, !.asked = FALSE, !.known = 0,
                   !.active = FALSE, !.activation = 0, !.rosterGen = 0,
                   !.complete = FALSE]
           k == [co EXCEPT !.completion = NoCompletion, !.control = NoReceipt,
                           !.requested = FALSE]
           e == [disp EXCEPT !.boundary = n, !.restated = {}, !.asked = FALSE]
<1>0. auth \in Authorities /\ disp \in DispS /\ co \in CoS
  BY DEF Typed
<1>1. Finalized.disp = d /\ Finalized.co = k
  BY DEF Finalized
<1>2. NotFinalized.disp = e /\ NotFinalized.auth = Poison(a)
  BY DEF NotFinalized
<1>3. a \in Authorities /\ (~a.closed => a.pending # 0)
  BY <1>0, Methods, Names, ResetEffects DEF Steady, Advances, ResetsOnly
<1> HIDE DEF a, n
<1>4. Doomed(Poison(a))
  BY <1>3, PoisonUnsure DEF Doomed
<1>5. /\ d.item = disp.item /\ d.pc = disp.pc /\ d.rosterGen = 0 /\ d.active = FALSE
      /\ e.item = disp.item /\ e.pc = disp.pc /\ e.rosterGen = disp.rosterGen
      /\ e.active = disp.active
  BY <1>0 DEF DispS, Cleared
<1>6. /\ k.requested = FALSE /\ k.completion = NoCompletion /\ k.completions = co.completions
      /\ k.discOn = co.discOn /\ k.discSub = co.discSub /\ k.streamSub = co.streamSub
  BY <1>0 DEF CoS
<1>7. QED
  BY <1>1, <1>2, <1>4, <1>5, <1>6

\* One that cannot be finalized withholds the views until the next reset.
LEMMA NotFinalizedRest ==
    ASSUME Typed, LifeInv, Facts, RestInv, auth' = NotFinalized.auth,
           disp' = NotFinalized.disp, pass' = NoPass, UNCHANGED <<queue, disc, stream, co>>
    PROVE  RestInv'
<1>1. /\ disp'.item = disp.item /\ disp'.pc = disp.pc /\ disp'.rosterGen = disp.rosterGen
      /\ disp'.active = disp.active /\ Doomed(auth')
  BY FinalizedTells
<1>2. ResetsOnly(auth, auth')
  BY FinalizedTrue
<1>3. /\ \A l \in Watched : auth'.lanes[l].running => auth.lanes[l].running
      /\ auth.closed => auth'.closed
      /\ ~auth'.closed => auth'.pending # 0
  BY <1>2 DEF ResetsOnly, LanesCalm
<1>4. Turning' <=> Turning
  BY <1>1 DEF Turning
<1>5. Wishes' /\ Expected' /\ Delivered'
  BY <1>1 DEF RestInv, Wishes, Expected, Delivered, NoPass
<1>6. Failure'
  BY <1>1, <1>3, <1>4 DEF RestInv, Failure, Stuck, NoPass
<1>7. Listened' /\ Priming'
  BY <1>3 DEF Listened, Priming, RestInv, Watched
<1>8. Owing'
  BY <1>2, NothingOwed
<1>9. FlightKept
  BY QueueKept DEF Facts, SourceTruth
<1>10. Newest' /\ InOrder'
  <2>1. Latest' = Latest /\ disp'.rosterGen <= disc.gen
    BY <1>1 DEF Latest, RestInv, Newest
  <2>2. /\ \A x, y \in Items : Flies(x, y)' => Flies(x, y)
        /\ \A x \in Items : Holds(queue', x) /\ x.kind = "roster" => Holds(queue, x) \/ x = Latest
    BY <1>9 DEF FlightKept, Told
  <2>3. QED
    BY <2>1, <2>2, NewsStays DEF RestInv
<1>11. QED
  BY <1>5, <1>6, <1>7, <1>8, <1>10 DEF RestInv

\* The dispatcher is started; one that was finalized before is asked for Fleet again.
LEMMA StartDispatcherRest ==
    ASSUME Typed, LifeInv, Facts, RestInv, StartDispatcher
    PROVE  RestInv'
<1> DEFINE f == Finalized
           r == ReserveControl(f.auth, NoReceipt)
           m == [f.co EXCEPT !.requested = TRUE, !.control = r.receipt]
           i == Item("mode", co.reqGen, 1, r.delivery, 0)
           w == Awaited(m, i, co.reqGen)
<1>0. /\ auth \in Authorities /\ disp \in DispS /\ co \in CoS /\ co.reqGen \in Nat
      /\ pass \in PassS /\ co.completions \in Nat
      /\ UNCHANGED <<disc, stream, ticket>>
      /\ pass.disc /\ pass.fleet = co.requested /\ pass.fleet \in BOOLEAN
  BY Parts, PassTyped DEF Typed, StartDispatcher, RestInv, Wishes
<1>1. ASSUME pass' = AtAwait(co', pass), pass.fleet = co'.requested
      PROVE  Placed
  BY <1>0, <1>1, PassGoes DEF Placed, Goes, DiscStops
<1>2. CASE /\ disp' = disp \/ disp' = NewDispatcher(disp)
           /\ UNCHANGED <<auth, queue, co, tally>>
           /\ pass' = NoPass \/ pass' = AtAwait(co, pass)
  <2>1. Onward
    BY <1>0, <1>2 DEF Onward, NewDispatcher, DispS, SameRest
  <2>2. Listened' /\ Owing'
    BY <1>0, <1>2, <2>1, OnwardOwes DEF RestInv, Listened
  <2>3. Placed
    <3>1. CASE pass' = NoPass
      BY <3>1 DEF Placed, NoPass
    <3>2. CASE pass' = AtAwait(co, pass)
      BY <1>0, <1>1, <1>2, <3>2
    <3>3. QED
      BY <1>2, <3>1, <3>2
  <2>4. QED
    BY <2>1, <2>2, <2>3, OnwardPlaced
<1>3. CASE /\ disp' = NewDispatcher(f.disp) /\ disp.worker /\ DispatcherDead
           /\ IF pass.fleet THEN auth' = r.auth /\ co' = w.co /\ queue' = <<w.item>>
                            ELSE auth' = f.auth /\ co' = f.co /\ queue' = <<>>
           /\ pass' = AtAwait(co', pass)
  <2>1. /\ ResetsOnly(auth, f.auth) /\ f.auth \in Authorities /\ f.disp \in DispS
        /\ f.co \in CoS /\ f.auth.lanes["control"].life = 0
        /\ f.disp.item = disp.item /\ f.disp.pc = disp.pc /\ f.disp.rosterGen = 0
        /\ f.disp.active = FALSE
        /\ f.co.requested = FALSE /\ f.co.completion = NoCompletion
        /\ f.co.completions = co.completions
        /\ f.co.discOn = co.discOn /\ f.co.discSub = co.discSub
        /\ f.co.streamSub = co.streamSub
    BY FinalizedTrue, FinalizedFacts, FinalizedTells
  <2> HIDE DEF f
  <2>2. NoReceipt \in Stamps /\ NoReceipt.life = 0
    BY Stamp0 DEF NoReceipt
  <2>3. Calm(f.auth, r.auth) /\ r.receipt \in Stamps /\ r.delivery \in Deliveries
    BY <2>1, <2>2, CalmReserveControl, ReserveControlFacts
  <2> HIDE DEF r
  <2>4. ResetsOnly(auth, auth')
    BY <1>3, <2>1, <2>3, CarriesFacts
  <2>5. /\ disp'.item = disp.item /\ disp'.pc = disp.pc /\ disp'.rosterGen = 0
        /\ ~disp'.active /\ disp.pc = "idle"
    BY <1>3, <2>1 DEF NewDispatcher, DispS, DispatcherDead
  <2>6. CASE pass.fleet
    <3>1. /\ m \in CoS /\ m.requested = TRUE /\ m.completions = co.completions
          /\ m.discOn = co.discOn /\ m.discSub = co.discSub /\ m.streamSub = co.streamSub
      BY <2>1, <2>3 DEF CoS
    <3>2. i \in Items /\ i.kind = "mode" /\ i.value = 1
      <4>1. i \in Items
        BY <1>0, <2>3, ItemTyped DEF Kinds
      <4>2. QED
        BY <4>1 DEF Item
    <3> HIDE DEF m, i
    <3>3. /\ w.co.discSub = m.discSub /\ w.co.discOn = m.discOn /\ w.co.streamSub = m.streamSub
      BY <1>0, <3>1, <3>2, AwaitedFacts DEF Booked
    <3>4. /\ w.item \in Items /\ w.item.kind = i.kind /\ w.item.value = i.value
          /\ w.item.id \in {0, m.completions + 1}
          /\ w.co.completion.id = w.item.id /\ w.co.completion.st # "failed"
          /\ w.co.completions = IF w.item.id = 0 THEN m.completions ELSE m.completions + 1
          /\ w.co.requested = m.requested
      BY <1>0, <3>1, <3>2, AwaitedCommand
    <3> HIDE DEF w
    <3>5. co' = w.co /\ queue' = <<w.item>>
      BY <1>3, <2>6
    <3>6. co'.requested /\ Placed
      BY <1>0, <1>1, <1>3, <2>6, <3>1, <3>4, <3>5
    <3>7. /\ co'.completions \in Nat /\ co.completions <= co'.completions
          /\ w.item.id <= co'.completions
      BY <1>0, <3>1, <3>4, <3>5
    <3>8. \E x \in Items : /\ x.kind = "mode" /\ x.value = 1 /\ queue' = <<x>>
                           /\ co'.requested /\ disp.pc # "reset"
                           /\ x.id <= co'.completions /\ co'.completion.id = x.id
      BY <2>5, <3>2, <3>4, <3>5, <3>6, <3>7
    <3>9. /\ co'.discOn = co.discOn /\ co'.discSub = co.discSub
          /\ co'.streamSub = co.streamSub /\ co'.completion.st # "failed"
      BY <3>1, <3>3, <3>4, <3>5
    <3>10. QED
      BY <1>0, <2>4, <2>5, <3>6, <3>7, <3>8, <3>9, FinalizedRest
  <2>7. CASE ~pass.fleet
    <3>1. co' = f.co /\ queue' = <<>>
      BY <1>3, <2>7
    <3>2. co'.completion.id = 0 /\ co'.completion.st # "failed"
      BY <2>1, <3>1 DEF NoCompletion
    <3>3. Placed
      BY <1>0, <1>1, <1>3, <2>1, <2>7, <3>1
    <3>4. QED
      BY <1>0, <2>1, <2>4, <2>5, <3>1, <3>2, <3>3, FinalizedRest
  <2>8. QED
    BY <2>6, <2>7
<1>4. CASE /\ auth' = NotFinalized.auth /\ disp' = NotFinalized.disp
           /\ UNCHANGED <<queue, co>> /\ pass' = NoPass
  BY <1>0, <1>4, NotFinalizedRest
<1>5. QED
  BY <1>2, <1>3, <1>4 DEF StartDispatcher, WantsMetrics

\* The dispatcher is waited for, and finalized.
LEMMA JoinDispatcherRest ==
    ASSUME Typed, LifeInv, Facts, RestInv, JoinDispatcher
    PROVE  RestInv'
<1>0. /\ UNCHANGED <<disc, stream, ticket>> /\ pass' = NoPass /\ co.completions \in Nat
  BY Parts DEF JoinDispatcher
<1>1. Placed
  BY <1>0 DEF Placed, NoPass
<1>2. CASE UNCHANGED <<auth, queue, disp, co, tally>>
  <2>1. Onward
    BY <1>0, <1>2 DEF Onward, SameRest
  <2>2. Listened' /\ Owing'
    BY <1>0, <1>2, <2>1, OnwardOwes DEF RestInv, Listened
  <2>3. QED
    BY <1>1, <2>1, <2>2, OnwardPlaced
<1>3. CASE /\ auth' = Finalized.auth /\ disp' = Finalized.disp
           /\ co' = Finalized.co /\ queue' = <<>>
  <2>1. /\ disp'.item = disp.item /\ disp'.pc = disp.pc /\ disp'.rosterGen = 0
        /\ ~disp'.active /\ ~co'.requested /\ co'.completion = NoCompletion
        /\ co'.completions = co.completions
        /\ co'.discOn = co.discOn /\ co'.discSub = co.discSub
        /\ co'.streamSub = co.streamSub
    BY <1>3, FinalizedTells
  <2>2. co'.completion.id = 0 /\ co'.completion.st # "failed"
    BY <2>1 DEF NoCompletion
  <2>3. ResetsOnly(auth, auth')
    BY <1>3, FinalizedTrue
  <2>4. QED
    BY <1>0, <1>1, <1>3, <2>1, <2>2, <2>3, FinalizedRest
<1>4. CASE /\ auth' = NotFinalized.auth /\ disp' = NotFinalized.disp
           /\ UNCHANGED <<queue, co>>
  BY <1>0, <1>4, NotFinalizedRest
<1>5. QED
  BY <1>2, <1>3, <1>4 DEF JoinDispatcher

\* Closing forgets nothing: what is closed owes nobody anything.
LEMMA CloseRest ==
    ASSUME Typed, Facts, RestInv, CloseAdmission
    PROVE  RestInv'
<1>0. auth \in Authorities /\ co \in CoS /\ co.completions \in Nat
  BY Parts DEF Typed
<1>1. /\ auth' = Close(auth) /\ UNCHANGED <<queue, disc, stream, disp, pass, ticket>>
      /\ co' = [co EXCEPT !.completion = NoCompletion]
  BY DEF CloseAdmission
<1>2. /\ co'.requested = co.requested /\ co'.completions = co.completions
      /\ co'.completion.id = 0 /\ co'.completion.st # "failed"
      /\ co'.discOn = co.discOn /\ co'.discSub = co.discSub
      /\ co'.streamSub = co.streamSub
  BY <1>0, <1>1 DEF CoS, NoCompletion
<1>3. /\ auth'.closed
      /\ \A l \in Lanes : auth'.lanes[l].running = auth.lanes[l].running
  BY <1>0, <1>1, PlainMethods, CloseFacts, Names DEF Plain, Firm
<1>4. Listened' /\ Priming' /\ Delivered'
  BY <1>1, <1>2, <1>3, Names DEF Listened, Priming, Delivered, RestInv
<1>5. Wishes'
  BY <1>1, <1>2 DEF Wishes, RestInv
<1>6. Expected'
  BY <1>0, <1>1, <1>2 DEF Expected, RestInv
<1>7. Failure'
  BY <1>1, <1>2, <1>3 DEF Failure, RestInv, Stuck
<1>8. Owing'
  BY <1>3 DEF Owing, Live, Sure
<1>9. FlightKept
  BY <1>1, QueueKept DEF Facts, SourceTruth
<1>10. Newest' /\ InOrder'
  <2>1. Latest' = Latest /\ disp.rosterGen <= disc.gen
    BY <1>1 DEF Latest, RestInv, Newest
  <2>2. /\ \A x, y \in Items : Flies(x, y)' => Flies(x, y)
        /\ \A x \in Items : Holds(queue', x) /\ x.kind = "roster" => Holds(queue, x) \/ x = Latest
    BY <1>9 DEF FlightKept, Told
  <2>3. QED
    BY <1>1, <2>1, <2>2, NewsStays DEF RestInv
<1>11. QED
  BY <1>4, <1>5, <1>6, <1>7, <1>8, <1>10 DEF RestInv

-----------------------------------------------------------------------------
(* Nothing is forgotten, always *)

\* A step that moves nothing forgets nothing.
LEMMA UnmovedRest ==
    ASSUME RestInv, UNCHANGED vars
    PROVE  RestInv'
<1>1. /\ auth' = auth /\ queue' = queue /\ disc' = disc /\ stream' = stream
      /\ disp' = disp /\ co' = co /\ pass' = pass
  BY DEF vars
<1>2. Turning' <=> Turning
  BY <1>1 DEF Turning
<1>3. Delivered' /\ Listened' /\ Wishes' /\ Expected'
  BY <1>1 DEF RestInv, Delivered, Listened, Wishes, Expected
<1>4. Failure'
  BY <1>1, <1>2 DEF RestInv, Failure, Stuck
<1>5. Newest' /\ InOrder' /\ Priming'
  BY <1>1 DEF RestInv, Newest, Latest, InOrder, Flies, Priming
<1>6. RosterOwed' <=> RosterOwed
  BY <1>1 DEF RosterOwed, Latest
<1>7. StreamOwed' <=> StreamOwed
  BY <1>1 DEF StreamOwed, Flies, Owes
<1>8. Owing'
  BY <1>1, <1>2, <1>6, <1>7 DEF RestInv, Owing, Live
<1>9. QED
  BY <1>3, <1>4, <1>5, <1>8 DEF RestInv

\* At the start there is nothing to forget: nobody watches, and nothing is on its way.
LEMMA RestBegins == Init => RestInv
<1> SUFFICES ASSUME Init PROVE RestInv
  OBVIOUS
<1>1. queue = <<>> /\ stream.fifo = <<>> /\ stream.carried = NoItem /\ pass.pc = "idle"
  BY DEF Init, NoPass
<1>2. /\ disp.pc = "idle" /\ disp.active = FALSE /\ disp.rosterGen = 0
      /\ disc.worker = FALSE /\ disc.gen = 0
  BY DEF Init
<1>3. /\ co.requested = FALSE /\ co.discOn = FALSE
      /\ co.completion.id = 0 /\ co.completion.st = "none" /\ co.completions = 0
  BY DEF Init, NoCompletion
<1>4. ~auth.lanes["stream"].running
  <2>1. /\ NewAuthority \in Authorities /\ ~NewAuthority.closed /\ NewAuthority.pending = 0
        /\ \A l \in Lanes : NewAuthority.lanes[l] = NoOwner(0, NoOperation)
    BY NewTyped DEF NewAuthority
  <2>2. Others(NewAuthority, auth, "roster")
    BY <2>1, Names, BegunLane DEF Init
  <2>3. auth.lanes["stream"] = NoOwner(0, NoOperation)
    BY <2>1, <2>2, Names DEF Others
  <2>4. QED
    BY <2>3 DEF NoOwner
<1>5. \A x, y \in Items : ~Holds(queue, x) /\ ~Flies(x, y)
  BY <1>1 DEF Flies, Ahead, Orders, Holds, Batch, NoItem, Item
<1>6. Delivered /\ Listened
  BY <1>1, <1>2, <1>3, <1>4 DEF Delivered, Listened
<1>7. Wishes
  <2>1. <<>> \in Seq(Items) /\ Bit(FALSE) = 0 /\ 0 \in {0, 1}
    BY DEF Bit
  <2>2. Turns(<<>>, 0, 0)
    BY <2>1, TurnsQueue
  <2>3. QED
    BY <1>1, <1>2, <1>3, <2>1, <2>2 DEF Wishes
<1>8. Expected
  BY <1>1, <1>2, <1>3 DEF Expected, Numbered
<1>9. Failure /\ Priming
  BY <1>1, <1>2, <1>3 DEF Failure, Priming
<1>10. Newest /\ InOrder
  BY <1>2, <1>5 DEF Newest, InOrder
<1>11. Owing
  BY <1>2 DEF Owing, Live
<1>12. QED
  BY <1>6, <1>7, <1>8, <1>9, <1>10, <1>11 DEF RestInv

\* Whatever moves, nothing is forgotten.
LEMMA RestSteps ==
    ASSUME IInv, IInv', Facts, Facts', RestInv, Next
    PROVE  RestInv'
<1>0. Typed /\ Typed' /\ DrainInv /\ LifeInv /\ FlowInv
  BY DEF IInv
<1>1. CASE Discovery
  BY <1>0, <1>1, ScanBeginRest, ScanCommitRest, ScanDeliverRest DEF Discovery
<1>2. CASE LogWorker
  BY <1>0, <1>2, WorkBeginRest, WorkKeepsRest, DrainTakeRest, DrainPutRest DEF LogWorker
<1>3. CASE Dispatcher
  <2>1. CASE TakeRoster \/ TakeBatch \/ TakeControl
    BY <1>0, <2>1, TakeRosterRest, TakeBatchRest, TakeControlRest
  <2>2. CASE Reset \/ Prime
    BY <1>0, <2>2, ResetRest, PrimeRest
  <2>3. CASE Republish \/ AskStream
    BY <1>0, <2>3, RepublishRest, AskStreamRest
  <2>4. CASE PublishCapture \/ PublishSeal
    BY <1>0, <2>4, PublishRest
  <2>5. QED
    BY <1>3, <2>1, <2>2, <2>3, <2>4 DEF Dispatcher
<1>4. CASE Pass
  <2>1. CASE Reconcile \/ StartDispatcher \/ JoinDispatcher
    BY <1>0, <2>1, ReconcileRest, StartDispatcherRest, JoinDispatcherRest
  <2>2. CASE AwaitReset \/ AwaitRefresh \/ StopDispatcher
    BY <1>0, <2>2, WaitsRest
  <2>3. CASE StopDiscovery \/ JoinDiscovery \/ StartDiscovery
    BY <1>0, <2>3, StopDiscoveryRest, JoinDiscoveryRest, StartDiscoveryRest
  <2>4. CASE StopStream \/ JoinStream \/ StartStream
    BY <1>0, <2>4, StopStreamRest, JoinStreamRest, StartStreamRest
  <2>5. QED
    BY <1>4, <2>1, <2>2, <2>3, <2>4 DEF Pass
<1>5. CASE CloseAdmission
  BY <1>0, <1>5, CloseRest
<1>6. QED
  BY <1>1, <1>2, <1>3, <1>4, <1>5 DEF Next

\* What a lane has not acknowledged stays on its way in every state (coordinator.py,
\* gamelogs.py and clients.py as one), with the commands and completions it rests on.
THEOREM RestInvariance == Spec => []RestInv
<1>1. Init => RestInv
  BY RestBegins
<1>2. IInv /\ IInv' /\ TruthInv /\ TruthInv' /\ RestInv /\ [Next]_vars => RestInv'
  <2> SUFFICES ASSUME IInv, IInv', TruthInv, TruthInv', RestInv, [Next]_vars PROVE RestInv'
    OBVIOUS
  <2>1. Facts /\ Facts'
    BY DEF TruthInv
  <2>2. CASE Next
    BY <2>1, <2>2, RestSteps
  <2>3. CASE UNCHANGED vars
    BY <2>3, UnmovedRest
  <2>4. QED
    BY <2>2, <2>3
<1>3. QED
  BY <1>1, <1>2, Invariance, TruthInvariance, PTL DEF Spec

\* When everything rests, what the views need has arrived.
LEMMA RestArrives ==
    ASSUME IInv, Facts, RestInv
    PROVE  NothingForgotten
<1> SUFFICES ASSUME Quiet
             PROVE  /\ stream.fifo = <<>>
                    /\ disp.active /\ Sure(auth) => Complete(auth)
  BY DEF NothingForgotten, Sure
<1>1. /\ disp.pc = "idle" /\ queue = <<>> /\ disc.pc = "idle" /\ stream.drainer = "none"
      /\ \A l \in Lanes : auth.lanes[l].running
  BY DEF Quiet
<1>2. stream.fifo = <<>> /\ stream.carried = NoItem
  BY <1>1 DEF RestInv, Delivered
<1>3. ASSUME disp.active, Sure(auth) PROVE Complete(auth)
  <2>1. auth \in Authorities /\ Sound(auth)
    BY DEF IInv, Typed, Facts, LaneTruth
  <2>2. ~Turning
    BY <1>1 DEF Turning
  <2>3. /\ RosterOwed /\ StreamOwed /\ Synced(auth, "control")
    BY <1>1, <1>3, <2>2, Names DEF RestInv, Owing, Live
  <2>4. Synced(auth, "roster")
    BY <1>1, <2>3 DEF RosterOwed, Holds
  <2>5. Synced(auth, "stream")
    <3>1. \A x \in Items : ~Flies(x, x)
      BY <1>1, <1>2 DEF Flies, Ahead, Orders, Holds, Batch, NoItem, Item
    <3>2. \A n \in Nat : ~(auth.lanes["stream"].applied < n
                           /\ n <= auth.lanes["stream"].requested.order)
      BY <2>3, <3>1 DEF StreamOwed
    <3>3. /\ auth.lanes["stream"].applied \in Nat
          /\ auth.lanes["stream"].requested \in Stamps
      BY <2>1, Names, Fields, LaneFields
    <3>4. auth.lanes["stream"].requested.order \in Nat
      BY <3>3 DEF Stamps
    <3>5. auth.lanes["stream"].applied <= auth.lanes["stream"].requested.order
      BY <2>1, Names DEF Sound, LaneSound
    <3>6. QED
      BY <3>2, <3>3, <3>4, <3>5 DEF Synced
  <2>6. \A l \in Lanes : Synced(auth, l)
    BY <2>3, <2>4, <2>5 DEF Lanes
  <2>7. ASSUME NEW l \in Lanes PROVE auth.lanes[l].requested # NoReceipt
    <3>1. LaneSound(auth.lanes[l]) /\ auth.lanes[l].running /\ NoReceipt.life = 0
      BY <1>1, <2>1 DEF Sound, NoReceipt
    <3>2. QED
      BY <3>1 DEF LaneSound
  <2>8. QED
    BY <1>1, <2>6, <2>7 DEF Complete, Synced
<1>4. QED
  BY <1>2, <1>3

\* When all threads rest, every batch has been delivered, and Fleet, if it is on, closed
\* by nobody and neither poisoned nor being reset, has acknowledged all that the three
\* producers invalidated (admission.py:397), for any number of events, folders and choices.
THEOREM NothingForgottenAlways == Spec => []NothingForgotten
<1>1. IInv /\ TruthInv /\ RestInv => NothingForgotten
  BY RestArrives DEF TruthInv
<1>2. QED
  BY <1>1, Invariance, TruthInvariance, RestInvariance, PTL

-----------------------------------------------------------------------------
(* The log of a session is told *)

\* A dispatcher that is not there does nothing, and it knows the session it has, or is
\* about to.
Idle == ~disp.worker => disp.pc = "idle"
Known == IF disp.pc = "republish" THEN disp.asks = disp.session
         ELSE disp.known = disp.session

\* The stream is about to be asked for the log of now, or a batch under way names it.
Asking == \/ disp.pc \in {"askOne", "askAll"}
          \/ disp.pc = "republish" /\ disp.asks # disp.known
Answer == \E x \in Items : Flies(x, x) /\ x.kind = "source" /\ x.value = stream.tracked

\* While a stream in sync is consumed the log of the session is known, or will be.
Sees == disp.active /\ disp.pc # "reset" /\ InSync("stream")
Heard == disp.session = 0 \/ disp.source = stream.tracked \/ Asking \/ Answer

\* What is shown, or about to be sealed, is no news: nothing is asked or commanded.
Shown == \/ HoldsCurrent
         \/ disp.pc = "seal" /\ Current(auth, disp.frontier.token)
Settled == disp.active /\ disp.pc # "reset" /\ ~Asking /\ NoCommand(queue)

HeardInv == /\ Idle /\ Known
            /\ Sees => Heard
            /\ Shown => Settled

\* A step that reports shows nothing that was not shown.
LEMMA Shows ==
    ASSUME IInv, Next, Reports, Shown'
    PROVE  /\ Shown /\ ~Void
           /\ disc'.session = disc.session /\ stream'.tracked = stream.tracked
           /\ co'.reqGen = co.reqGen
<1>1. Handed(ticket.token) /\ Handed(disp.frontier.token) /\ ticket.token \in Nat
      /\ disp.frontier.token \in Nat
  BY DEF IInv, TicketInv, Typed, Tickets, DispS, Frontiers
<1>2. ~Void
  BY DEF Void, Shown, HoldsCurrent
<1>3. UNCHANGED ticket /\ SealHeld
  BY <1>2 DEF Reports
<1>4. HoldsCurrent' => HoldsCurrent
  BY <1>1, <1>3, WasCurrent DEF HoldsCurrent
<1>5. disp'.pc = "seal" /\ Current(auth', disp'.frontier.token)
      => disp.pc = "seal" /\ Current(auth, disp.frontier.token)
  BY <1>1, <1>3, WasCurrent DEF SealHeld
<1>6. QED
  BY <1>2, <1>4, <1>5 DEF Shown, Reports

\* Every step but a publication reports.
LEMMA StepReports ==
    ASSUME IInv, Facts, Next
    PROVE  Reports \/ PublishCapture \/ PublishSeal
<1>0. Typed /\ DrainInv /\ LifeInv /\ FlowInv
  BY DEF IInv
<1>1. CASE Discovery
  BY <1>0, <1>1, ScanBeginTrue, ScanCommitTrue, ScanDeliverTrue DEF Discovery
<1>2. CASE LogWorker
  BY <1>0, <1>2, WorkBeginTrue, WorkTrue, DrainTakeTrue, DrainPutTrue DEF LogWorker
<1>3. CASE Dispatcher
  <2>1. CASE TakeRoster \/ TakeBatch \/ TakeControl \/ Reset \/ Prime
    BY <1>0, <2>1, TakeRosterTrue, TakeBatchTrue, TakeControlTrue, ResetTrue, PrimeTrue
  <2>2. CASE Republish \/ AskStream
    BY <1>0, <2>2, RepublishTrue, AskStreamTrue
  <2>3. QED
    BY <1>3, <2>1, <2>2 DEF Dispatcher
<1>4. CASE Pass
  <2>1. CASE Reconcile \/ StartDispatcher
    BY <1>0, <2>1, ReconcileTrue, StartDispatcherTrue
  <2>2. CASE AwaitReset \/ AwaitRefresh \/ StopDispatcher
    BY <1>0, <2>2, WaitsTrue
  <2>3. CASE StopDiscovery \/ StopStream
    BY <1>0, <2>3, StopsTrue
  <2>4. CASE JoinDiscovery \/ StartDiscovery \/ JoinDispatcher
    BY <1>0, <2>4, JoinDiscoveryTrue, StartDiscoveryTrue, JoinDispatcherTrue
  <2>5. CASE JoinStream \/ StartStream
    BY <1>0, <2>5, JoinStreamTrue, StartStreamTrue
  <2>6. QED
    BY <1>4, <2>1, <2>2, <2>3, <2>4, <2>5 DEF Pass
<1>5. CASE CloseAdmission
  BY <1>0, <1>5, CloseTrue
<1>6. QED
  BY <1>1, <1>2, <1>3, <1>4, <1>5 DEF Next

\* A dispatcher that hears nothing new, of a stream no surer than it was.
HearsOn ==
    /\ disp'.session = disp.session /\ disp'.source = disp.source
    /\ disp'.known = disp.known /\ disp'.asks = disp.asks
    /\ disp'.active = disp.active /\ (disp.worker => disp'.worker)
    /\ disp'.pc = disp.pc \/ (disp.pc \in {"draining", "seal", "prime"} /\ disp'.pc = "idle")
StreamOn == InSync("stream")' =>
    InSync("stream") /\ stream'.tracked = stream.tracked /\ (Answer => Answer')
LEMMA HeardOn ==
    ASSUME HeardInv, HearsOn, disp.active /\ disp.pc # "reset" => StreamOn,
           Shown' => Shown /\ (NoCommand(queue) => NoCommand(queue'))
    PROVE  HeardInv'
<1>1. Idle' /\ Known' /\ (Asking <=> Asking')
  BY DEF HeardInv, HearsOn, Idle, Known, Asking
<1>2. Sees' => Heard'
  BY <1>1 DEF HeardInv, HearsOn, StreamOn, Sees, Heard
<1>3. Shown' => Settled'
  BY <1>1 DEF HeardInv, HearsOn, Settled
<1>4. QED
  BY <1>1, <1>2, <1>3 DEF HeardInv

\* What lane is left alone is no surer.
LEMMA ApartSynced ==
    ASSUME NEW a, NEW b, NEW l \in Lanes, l # "stream", SameRest(a, b), Others(a, b, l)
    PROVE  \A R : SyncedIn(b, R, "stream") => SyncedIn(a, R, "stream")
  BY Names DEF SameRest, Others, SyncedIn

\* Batches stay if nothing but the queue changes, and that gains an item or loses its

\* head, which names no log of now.
LEMMA AnswerStays ==
    ASSUME Typed, stream'.tracked = stream.tracked,
           stream'.carried = stream.carried, stream'.fifo = stream.fifo,
           \/ queue' = queue
           \/ queue # <<>> /\ queue' = Tail(queue) /\ Head(queue).kind # "source"
           \/ \E i \in Items : queue' = Append(queue, i)
    PROVE  Answer => Answer'
<1> SUFFICES ASSUME NEW x \in Items, Flies(x, x), x.kind = "source", x.value = stream.tracked
             PROVE  Flies(x, x)'
  BY DEF Answer
<1>1. /\ queue \in Seq(Items) /\ stream.fifo \in Seq(Items) /\ stream.carried \in Items
  BY Parts DEF Typed
<1>2. CASE queue' = queue
  BY <1>2 DEF Flies
<1>3. CASE queue # <<>> /\ queue' = Tail(queue) /\ Head(queue).kind # "source"
  BY <1>1, <1>3, StillFlies DEF Flies
<1>4. ASSUME NEW i \in Items, queue' = Append(queue, i) PROVE Flies(x, x)'
  BY <1>1, <1>4, StillFlies DEF Flies
<1>5. QED
  BY <1>2, <1>3, <1>4

\* A void step shows nothing.
LEMMA VoidHides == ASSUME Void PROVE ~Shown'
  BY DEF Void, Shown, HoldsCurrent

\* Calm calls make the stream no surer.
LEMMA CalmStream ==
    ASSUME NEW a, NEW b, Calm(a, b)
    PROVE  \A R : SyncedIn(b, R, "stream") => SyncedIn(a, R, "stream")
  BY CalmSynced DEF Watched

\* A scan is no news to the dispatcher before it has the roster.
LEMMA DiscoveryHeard ==
    ASSUME Typed, Facts, HeardInv, Discovery, Shown' => Shown
    PROVE  HeardInv'
<1>0. /\ UNCHANGED <<stream, disp, co, pass, ticket>> /\ disp \in DispS
      /\ auth \in Authorities /\ queue \in Seq(Items)
  BY DEF Typed, Discovery, ScanBegin, ScanCommit, ScanDeliver
<1>1. HearsOn
  BY <1>0 DEF HearsOn
<1>2. \/ queue' = queue
      \/ \E i \in Items : ~Commands(i) /\ queue' = Append(queue, i)
  <2>1. CASE ScanDeliver
    <3>1. Latest \in Items /\ ~Commands(Latest) /\ queue' = Append(queue, Latest)
      BY <2>1, Parts, ItemTyped DEF ScanDeliver, Latest, Commands, Kinds, Item
    <3>2. QED
      BY <3>1
  <2>2. QED
    BY <2>1 DEF Discovery, ScanBegin, ScanCommit
<1>3. (Answer => Answer') /\ (NoCommand(queue) => NoCommand(queue'))
  <2>1. NoCommand(queue) => NoCommand(queue')
    <3>1. ASSUME NEW i \in Items, ~Commands(i) PROVE NoCommand(Append(queue, i)) = NoCommand(queue)
      BY <1>0, <3>1, Commanded
    <3>2. QED
      BY <1>2, <3>1
  <2>2. \/ queue' = queue
        \/ \E i \in Items : queue' = Append(queue, i)
    BY <1>2
  <2>3. Answer => Answer'
    BY <1>0, <2>2, AnswerStays
  <2>4. QED
    BY <2>1, <2>3
<1>4. InSync("stream")' => InSync("stream")
  <2>1. CASE ScanBegin
    <3>1. Calm(auth, auth')
      BY <1>0, <2>1, Parts, CalmMethods, Names DEF ScanBegin
    <3>2. QED
      BY <1>0, <3>1, CalmStream DEF InSync
  <2>2. CASE auth' = ReserveLocked(auth, "roster")
    <3>1. SameRest(auth, auth') /\ Others(auth, auth', "roster")
      BY <1>0, <2>2, LaneEffects, Names
    <3>2. QED
      BY <1>0, <3>1, ApartSynced, Names DEF InSync
  <2>3. CASE auth' = auth
    BY <1>0, <2>3 DEF InSync
  <2>4. QED
    BY <2>1, <2>2, <2>3 DEF Discovery, ScanCommit, ScanDeliver
<1>5. QED
  BY <1>0, <1>1, <1>3, <1>4, HeardOn DEF StreamOn

\* The log worker: what it finds anew puts the stream out of sync.
LEMMA WorkHeard ==
    ASSUME Typed, Facts, HeardInv, WorkBegin \/ Work, Shown' => Shown
    PROVE  HeardInv'
<1>0. /\ UNCHANGED <<queue, disc, disp, co, pass, ticket>> /\ disp \in DispS
      /\ auth \in Authorities /\ stream \in StreamS /\ stream.carried \in Items
      /\ queue \in Seq(Items) /\ stream.fifo \in Seq(Items)
  BY Parts DEF Typed, WorkBegin, Work
<1>1. HearsOn
  BY <1>0 DEF HearsOn
<1>2. CASE WorkBegin
  <2>1. Calm(auth, auth')
    BY <1>0, <1>2, Parts, CalmMethods, Names DEF WorkBegin
  <2>2. /\ stream'.tracked = stream.tracked /\ stream'.fifo = stream.fifo
        /\ stream'.carried = stream.carried
    BY <1>0, <1>2 DEF WorkBegin, StreamS
  <2>3. Answer => Answer'
    BY <1>0, <2>2, AnswerStays
  <2>4. QED
    BY <1>0, <1>1, <2>1, <2>2, <2>3, CalmStream, HeardOn DEF StreamOn, InSync
<1>3. CASE /\ auth' = auth
           /\ \/ stream' = WorkDone(stream)
              \/ stream' = WorkDone([stream EXCEPT
                               !.fifo = Append(@, Item("facts", 0, 0, stream.d, 0))])
  <2> DEFINE i == Item("facts", 0, 0, stream.d, 0)
             t == [stream EXCEPT !.fifo = Append(stream.fifo, i)]
  <2>1. i \in Items
    BY Parts, ItemTyped DEF Kinds
  <2> HIDE DEF i
  <2>2. /\ t \in StreamS /\ t.fifo = Append(stream.fifo, i) /\ t.carried = stream.carried
        /\ t.tracked = stream.tracked
    BY <1>0, <2>1, Queues DEF StreamS
  <2>3. stream' = WorkDone(stream) \/ stream' = WorkDone(t)
    BY <1>3 DEF i
  <2> HIDE DEF t
  <2>4. /\ stream'.tracked = stream.tracked /\ stream'.carried = stream.carried
        /\ stream'.fifo = stream.fifo \/ stream'.fifo = Append(stream.fifo, i)
    BY <1>0, <2>2, <2>3, WorkDoneKeeps
  <2>5. ASSUME NEW x \in Items, Flies(x, x) PROVE Flies(x, x)'
    <3>1. Ahead(queue, stream.carried, Append(stream.fifo, i), x, x)
      BY <1>0, <2>1, <2>5, StillFlies DEF Flies
    <3>2. QED
      BY <1>0, <2>4, <2>5, <3>1 DEF Flies
  <2>6. Answer => Answer'
    BY <2>4, <2>5 DEF Answer
  <2>7. QED
    BY <1>0, <1>1, <1>3, <2>4, <2>6, HeardOn DEF StreamOn, InSync
<1>4. ASSUME NEW g \in {0, stream.gens + 1} \ {stream.tracked}, stream.pc = "work",
             auth' = Mutate(g).auth, stream' = WorkDone(Mutate(g).stream)
      PROVE  HeardInv'
  <2>1. auth' = IF Invalidates THEN ReserveLocked(auth, "stream") ELSE auth
    BY <1>4 DEF Mutate
  <2>2. ~InSync("stream")'
    <3>1. CASE Invalidates
      <4>1. /\ auth'.lanes["stream"].applied = auth.lanes["stream"].applied
            /\ auth'.lanes["stream"].requested.order = auth.lanes["stream"].requested.order + 1
        <5>1. /\ auth'.lanes["stream"].applied = auth.lanes["stream"].applied
              /\ auth'.lanes["stream"].requested
                    = [life |-> auth.lanes["stream"].life,
                       order |-> auth.lanes["stream"].requested.order + 1]
          BY <1>0, <2>1, <3>1, LaneEffects, Names
        <5>2. QED
          BY <5>1
      <4>2. /\ auth.lanes["stream"].applied <= auth.lanes["stream"].requested.order
            /\ auth.lanes["stream"].applied \in Nat
            /\ auth.lanes["stream"].requested.order \in Nat
        BY <1>0, Names, Fields, LaneFields DEF Facts, LaneTruth, Sound, LaneSound, Stamps
      <4>3. QED
        BY <4>1, <4>2 DEF InSync, SyncedIn
    <3>2. CASE ~Invalidates
      <4>1. /\ stream.receipt.life = auth.lanes["stream"].life
            /\ ~Owns(auth, "stream", stream.receipt.life)
        BY <1>4, <3>2, Names DEF Facts, LaneTruth, StreamTruth, Invalidates, Sound, LaneSound
      <4>2. QED
        BY <2>1, <3>2, <4>1 DEF InSync, SyncedIn, Owns
    <3>3. QED
      BY <3>1, <3>2
  <2>3. QED
    BY <1>0, <1>1, <2>2, HeardOn DEF StreamOn
<1>5. QED
  BY <1>2, <1>3, <1>4 DEF Work

\* A batch is passed on while the stream runs.
LEMMA DrainHeard ==
    ASSUME Typed, DrainInv, Facts, RestInv, HeardInv, DrainTake \/ DrainPut, Shown' => Shown
    PROVE  HeardInv'
<1> DEFINE c == IF co.streamSub THEN Head(stream.fifo) ELSE NoItem
           t == [stream EXCEPT !.fifo = Tail(stream.fifo), !.carried = c]
           u == [stream EXCEPT !.carried = NoItem]
<1>0. /\ stream \in StreamS /\ queue \in Seq(Items) /\ stream.fifo \in Seq(Items)
      /\ stream.carried \in Items /\ NoItem \in Items /\ disp \in DispS
      /\ UNCHANGED <<auth, disc, co, pass, ticket>>
  BY Parts, ItemTyped DEF Typed, DrainTake, DrainPut
<1>1. disp' = DispatcherAfter(stream')
  BY DEF DrainTake, DrainPut
<1>2. HearsOn /\ disp'.restated = disp.restated
  BY <1>0, <1>1 DEF HearsOn, DispatcherAfter, DispS
<1>3. CASE DrainTake
  <2>1. /\ stream.fifo # <<>> /\ stream.carried = NoItem /\ queue' = queue
        /\ stream' = DrainEnds(t)
    BY <1>3 DEF DrainTake, DrainInv
  <2>2. c \in Items /\ Tail(stream.fifo) \in Seq(Items) /\ Head(stream.fifo) \in Items
    BY <1>0, <2>1, Queues
  <2>3. co.streamSub => c = Head(stream.fifo)
    OBVIOUS
  <2> HIDE DEF c
  <2>4. /\ t.fifo = Tail(stream.fifo) /\ t.carried = c /\ t.tracked = stream.tracked
        /\ t \in StreamS
    BY <1>0, <2>2 DEF StreamS
  <2> HIDE DEF t
  <2>5. /\ stream'.fifo = Tail(stream.fifo) /\ stream'.carried = c
        /\ stream'.tracked = stream.tracked
    BY <2>1, <2>4 DEF DrainEnds, StreamS
  <2>6. auth.lanes["stream"].running => c = Head(stream.fifo)
    BY <2>3 DEF RestInv, Listened
  <2>7. auth.lanes["stream"].running => (Answer => Answer')
    BY <1>0, <2>1, <2>2, <2>5, <2>6, StillFlies DEF Answer, Flies
  <2>8. StreamOn
    BY <1>0, <1>2, <2>5, <2>7 DEF StreamOn, InSync, SyncedIn
  <2>9. QED
    BY <1>2, <2>1, <2>8, HeardOn
<1>4. CASE DrainPut
  <2>1. stream.carried # NoItem /\ queue' = Append(queue, stream.carried) /\ stream' = DrainEnds(u)
    BY <1>4 DEF DrainPut
  <2>2. /\ u.fifo = stream.fifo /\ u.carried = NoItem /\ u.tracked = stream.tracked
        /\ u \in StreamS
    BY <1>0 DEF StreamS
  <2> HIDE DEF u
  <2>3. /\ stream'.fifo = stream.fifo /\ stream'.carried = NoItem
        /\ stream'.tracked = stream.tracked
    BY <2>1, <2>2 DEF DrainEnds, StreamS
  <2>4. Answer => Answer'
    BY <1>0, <2>1, <2>3, StillFlies DEF Answer, Flies
  <2>5. ~Commands(stream.carried)
    BY <2>1 DEF Facts, SourceTruth, OnlyBatches, Batch, Commands
  <2>6. NoCommand(queue) => NoCommand(queue')
    BY <1>0, <2>1, <2>5, Commanded
  <2>7. QED
    BY <1>0, <1>2, <2>3, <2>4, <2>6, HeardOn DEF StreamOn, InSync
<1>5. QED
  BY <1>3, <1>4

\* Finishing a delivery is about the authority and its reset.
LEMMA FinishLeaves ==
    ASSUME NEW a, NEW d \in DispS, NEW item
    PROVE  LET e == Finish(a, d, item).disp IN
           /\ e.known = d.known /\ e.session = d.session /\ e.source = d.source
           /\ e.active = d.active /\ e.pc = d.pc /\ e.worker = d.worker /\ e.asks = d.asks
<1>1. \/ Finish(a, d, item).disp = d
      \/ \E r, n : Finish(a, d, item).disp = [d EXCEPT !.restated = r, !.boundary = n]
  BY DEF Finish
<1>2. ASSUME NEW r, NEW n, Finish(a, d, item).disp = [d EXCEPT !.restated = r, !.boundary = n]
      PROVE  LET e == Finish(a, d, item).disp IN
             /\ e.known = d.known /\ e.session = d.session /\ e.source = d.source
             /\ e.active = d.active /\ e.pc = d.pc /\ e.worker = d.worker /\ e.asks = d.asks
  <2>1. LET e == [d EXCEPT !.restated = r, !.boundary = n] IN
        /\ e.known = d.known /\ e.session = d.session /\ e.source = d.source
        /\ e.active = d.active /\ e.pc = d.pc /\ e.worker = d.worker /\ e.asks = d.asks
    BY DEF DispS
  <2>2. QED
    BY <1>2, <2>1
<1>3. QED
  BY <1>1, <1>2

\* A roster was consumed: if it is a new session, its log is not known, and asked for.
LEMMA RosterHeard ==
    ASSUME Typed, Facts, HeardInv, NEW a \in Authorities, Calm(auth, a), NEW item \in Items,
           Roster(item), ApplyRoster(a, item), UNCHANGED stream, Answer => Answer',
           NoCommand(queue) => NoCommand(queue'), disp.pc \in {"idle", "prime"},
           disp.worker,
           Shown' => Shown /\ item.value = disc.session
    PROVE  HeardInv'
<1> DEFINE d == ConsumeRoster(item.value)
           e == Finish(a, d, item).disp
           source == IF item.value = disp.session THEN disp.source ELSE 0
<1>0. disp \in DispS /\ item.value \in Nat
  BY ItemFields DEF Typed
<1>1. /\ d \in DispS /\ d.known = disp.known /\ d.session = item.value /\ d.source = source
      /\ d.active = disp.active /\ d.worker = disp.worker
  BY <1>0 DEF ConsumeRoster, DispS
<1>2. disp' = [e EXCEPT !.rosterGen = item.gen, !.complete = TRUE,
                        !.pc = "republish", !.asks = item.value]
  BY DEF ApplyRoster
<1> HIDE DEF d
<1>3. /\ e \in DispS /\ e.known = d.known /\ e.session = d.session /\ e.source = d.source
      /\ e.active = d.active /\ e.worker = d.worker
  <2>1. e \in DispS
    BY <1>1, FinishFacts DEF Same
  <2>2. LET f == Finish(a, d, item).disp IN
        /\ f.known = d.known /\ f.session = d.session /\ f.source = d.source
        /\ f.active = d.active /\ f.pc = d.pc /\ f.worker = d.worker /\ f.asks = d.asks
    <3>1. d \in DispS
      BY <1>1
    <3>2. QED
      BY <3>1, FinishLeaves
  <2>3. QED
    BY <2>1, <2>2
<1> HIDE DEF e
<1>4. /\ disp'.known = disp.known /\ disp'.asks = item.value /\ disp'.session = item.value
      /\ disp'.source = source /\ disp'.active = disp.active /\ disp'.pc = "republish"
      /\ disp'.worker
  BY <1>1, <1>2, <1>3 DEF DispS
<1>5. Idle' /\ Known' /\ (item.value # disp.session => Asking')
  BY <1>4 DEF Idle, Known, Asking, HeardInv
<1>6. InSync("stream")' => InSync("stream")
  BY ApplyRosterTrue
<1>7. Sees' => Heard'
  <2>1. CASE item.value # disp.session
    BY <1>5, <2>1 DEF Heard
  <2>2. CASE item.value = disp.session
    <3>1. ~Asking /\ disp.pc # "reset"
      BY DEF Asking
    <3>2. QED
      BY <1>4, <1>6, <2>2, <3>1 DEF HeardInv, Heard, Sees
  <2>3. QED
    BY <2>1, <2>2
<1>8. Shown' => Settled'
  <2> SUFFICES ASSUME Shown' PROVE Settled'
    OBVIOUS
  <2>1. Shown /\ Settled /\ item.value = disc.session
    BY DEF HeardInv
  <2>2. InSync("roster")
    BY <2>1, CurrentSynced, Names DEF Shown, HoldsCurrent, InSync
  <2>3. disp.session = disc.session /\ disp.known = disp.session
    BY <2>2 DEF Facts, RosterTruth, HeardInv, Known
  <2>4. QED
    BY <1>4, <2>1, <2>3 DEF Settled, Asking
<1>9. QED
  BY <1>5, <1>7, <1>8 DEF HeardInv

\* A roster out of the queue is that of discovery if the views are shown.
LEMMA TakeRosterHeard ==
    ASSUME Typed, Facts, HeardInv, TakeRoster, Shown' => Shown
    PROVE  HeardInv'
<1>1. PICK item : /\ Takes(item) /\ item.kind = "roster"
                  /\ \/ ~NewRoster(item) /\ UNCHANGED <<auth, disp, tally>>
                     \/ NewRoster(item) /\ ApplyRoster(auth, item) /\ UNCHANGED tally
                     \/ /\ NewRoster(item) /\ Failing
                        /\ auth' = Poison(auth) /\ tally' = Failed
                        /\ UNCHANGED disp
                  /\ UNCHANGED <<disc, stream, co, pass, ticket>>
  BY DEF TakeRoster
<1>2. /\ item \in Items /\ Holds(queue, item) /\ queue # <<>> /\ item = Head(queue)
      /\ queue' = Tail(queue) /\ disp.pc = "idle" /\ disp.worker /\ queue \in Seq(Items)
      /\ auth \in Authorities
  BY <1>1, TakesKeeps DEF Takes, Typed
<1>3. Answer => Answer'
  BY <1>1, <1>2, AnswerStays
<1>4. NoCommand(queue) => NoCommand(queue')
  BY <1>2, Commanded
<1>5. CASE UNCHANGED disp /\ (auth' = auth \/ auth' = Poison(auth))
  <2>1. Calm(auth, auth')
    BY <1>2, <1>5, CalmMethods, Names
  <2>2. InSync("stream")' => InSync("stream")
    BY <1>5, <2>1, CalmStream DEF InSync
  <2>3. QED
    BY <1>1, <1>3, <1>4, <1>5, <2>2, HeardOn DEF StreamOn, HearsOn
<1>6. CASE NewRoster(item) /\ ApplyRoster(auth, item)
  <2>1. Calm(auth, auth) /\ Roster(item)
    BY <1>1, <1>2, CalmMethods, Names DEF Roster
  <2>2. Shown => item.value = disc.session
    <3> SUFFICES ASSUME Shown PROVE item.value = disc.session
      OBVIOUS
    <3>1. InSync("roster")
      BY CurrentSynced, Names DEF Shown, HoldsCurrent, InSync
    <3>2. Told(item) /\ disp.rosterGen < item.gen
      BY <1>1, <1>2, <1>6 DEF Told, NewRoster
    <3>3. QED
      BY <1>2, <3>1, <3>2 DEF Facts, RosterTruth, LaterRosters
  <2>3. QED
    BY <1>1, <1>2, <1>3, <1>4, <1>6, <2>1, <2>2, RosterHeard
<1>7. QED
  BY <1>1, <1>5, <1>6

\* So is the roster of a priming.
LEMMA PrimeHeard ==
    ASSUME Typed, Facts, HeardInv, Prime, Shown' => Shown
    PROVE  HeardInv'
<1> DEFINE d == PrimeDelivery(auth)
           item == Item("prime", disc.gen, disc.session, d, 0)
           started == StartOperation(auth, "roster", disc.receipt.life)
           a == IF d = NoDelivery THEN auth ELSE started
           idle == [disp EXCEPT !.pc = "idle"]
<1>0. auth \in Authorities /\ disp \in DispS /\ disp.pc = "prime" /\ disp.worker
  BY DEF Typed, Prime, HeardInv, Idle
<1>1. UNCHANGED <<queue, disc, stream, co, pass, ticket>>
  BY DEF Prime
<1>2. \/ auth' = a /\ disp' = idle
      \/ ApplyRoster(a, item)
      \/ auth' = Poison(a) /\ disp' = idle
  BY DEF Prime
<1>3. started \in Authorities /\ Calm(auth, started)
  BY <1>0, Parts, CalmMethods, Methods, Names DEF Steady, Advances
<1>4. d \in Deliveries
  <2>1. Started(started, "roster", disc.receipt.life) \in Stamps
    BY <1>0, <1>3, Parts, StartOperationFacts, Names
  <2> HIDE DEF started
  <2>2. Delivery(Started(started, "roster", disc.receipt.life), disc.receipt, 0, FALSE)
           \in Deliveries
    BY <2>1, Parts, DeliveryTyped
  <2>3. QED
    BY <2>2, Stamp0 DEF PrimeDelivery, started
<1>5. Calm(auth, a) /\ a \in Authorities
  BY <1>0, <1>3, CalmMethods, Names
<1> HIDE DEF d
<1>6. item \in Items /\ item.value = disc.session /\ Roster(item)
  BY <1>4, Parts, ItemTyped DEF Kinds, Item, Roster
<1> HIDE DEF a, item
<1>7. (Answer => Answer') /\ (NoCommand(queue) => NoCommand(queue'))
  BY <1>1, AnswerStays
<1>8. CASE disp' = idle /\ (auth' = a \/ auth' = Poison(a))
  <2>1. HearsOn /\ disp'.restated = disp.restated
    BY <1>0, <1>8 DEF HearsOn, DispS
  <2>2. Calm(a, Poison(a))
    BY <1>5, CalmMethods, Names
  <2>3. Calm(auth, auth')
    BY <1>5, <1>8, <2>2, CalmChain
  <2>4. QED
    BY <1>1, <1>7, <2>1, <2>3, CalmStream, HeardOn DEF StreamOn, InSync
<1>9. CASE ApplyRoster(a, item)
  BY <1>0, <1>1, <1>5, <1>6, <1>7, <1>9, RosterHeard
<1>10. QED
  BY <1>2, <1>8, <1>9

\* A reset leaves nothing in sync, and knows no session.
LEMMA ResetHeard ==
    ASSUME Typed, Facts, HeardInv, Reset
    PROVE  HeardInv'
<1> DEFINE item == disp.item
           a == ResetStarted(auth)
           receipt == item.d.receipt
           b == Cut(a)
           c == StartOperation(b, "control", receipt.life)
           op == Started(c, "control", receipt.life)
           d == Delivery(op, receipt, 0, FALSE)
           e == RecordApplication(c, "control", op)
           some == IF /\ item.d # NoDelivery /\ Owns(b, "control", receipt.life)
                      /\ CanRestate(e, Boundary(a), "control", d)
                   THEN {"control"} ELSE {}
           over == [Cleared(ResetOf(a, disp)) EXCEPT
                      !.restated = some, !.known = 0, !.rosterGen = 0, !.complete = FALSE,
                      !.item = NoItem, !.pc = IF Primes(item) THEN "prime" ELSE "idle"]
           failed == [ResetOf(a, disp) EXCEPT !.pc = "idle", !.item = NoItem]
<1>0. disp \in DispS /\ disp.pc = "reset" /\ disp.worker /\ disp.known = disp.session
  BY DEF Typed, Reset, HeardInv, Known, Idle
<1>1. disp' = over \/ disp' = failed
  BY DEF Reset
<1>2. ResetsOnly(auth, auth')
  BY ResetCarries
<1> HIDE DEF a
<1>3. some \in {{}, {"control"}}
  OBVIOUS
<1> HIDE DEF some
<1>4. /\ over.restated = some /\ over.known = 0 /\ over.session = 0
      /\ over.pc \in {"prime", "idle"} /\ over.worker
  BY <1>0 DEF Cleared, ResetOf, DispS
<1>5. /\ failed.restated = {} /\ failed.known = disp.known /\ failed.session = disp.session
      /\ failed.pc = "idle" /\ failed.worker
  BY <1>0 DEF ResetOf, DispS
<1> HIDE DEF over, failed
<1>6. ~InSync("stream")'
  BY <1>1, <1>2, <1>3, <1>4, <1>5, CalmSynced DEF InSync, Watched
<1>7. ~Shown'
  BY <1>2 DEF ResetsOnly, Shown, HoldsCurrent, Current
<1>8. Idle' /\ Known'
  BY <1>0, <1>1, <1>4, <1>5 DEF Idle, Known
<1>9. QED
  BY <1>6, <1>7, <1>8 DEF HeardInv, Sees

\* The sources of a new session are asked for, if there is a stream to ask.
LEMMA RepublishHeard ==
    ASSUME Typed, FlowInv, Facts, RestInv, HeardInv, Republish, Shown' => Shown
    PROVE  HeardInv'
<1> DEFINE asks == ~Reseeds /\ co.folder # 0 /\ disp.asks # 0 /\ disp.asks # disp.known
           pc == CASE Reseeds -> "askAll"
                   [] ~Reseeds /\ co.folder # 0 /\ disp.asks # 0 /\ disp.asks # disp.known
                        -> "askOne"
                   [] OTHER -> "idle"
           asked == disp.asked \/ Reseeds
<1>0. disp \in DispS /\ disp.pc = "republish" /\ disp.worker
  BY DEF Typed, Republish, HeardInv, Idle
<1>1. UNCHANGED <<auth, queue, disc, stream, co, pass, ticket, tally>>
  BY DEF Republish
<1>2. disp' = [disp EXCEPT !.known = disp.asks, !.asks = 0, !.asked = asked, !.pc = pc]
  BY DEF Republish
<1>3. /\ pc \in {"askAll", "askOne", "idle"}
      /\ pc = "idle" => ~Reseeds /\ ~asks
      /\ Reseeds \/ asks => pc \in {"askAll", "askOne"}
      /\ ~Reseeds /\ ~asks => pc = "idle"
  OBVIOUS
<1> HIDE DEF pc, asked
<1>4. /\ disp'.session = disp.session /\ disp'.source = disp.source /\ disp'.pc = pc
      /\ disp'.known = disp.asks /\ disp'.active = disp.active /\ disp'.worker
      /\ disp'.restated = disp.restated
  BY <1>0, <1>2 DEF DispS
<1>5. Idle' /\ Known'
  BY <1>0, <1>3, <1>4 DEF Idle, Known, HeardInv
<1>6. InSync("stream")' => InSync("stream")
  BY <1>1, <1>4 DEF InSync
<1>7. (Answer => Answer') /\ (NoCommand(queue) => NoCommand(queue'))
  BY <1>1, AnswerStays
<1>8. InSync("stream") => co.folder # 0
  BY DEF InSync, SyncedIn, RestInv, Listened, FlowInv, Subscribed
<1>9. Sees' => Heard'
  <2> SUFFICES ASSUME Sees' PROVE Heard'
    OBVIOUS
  <2>1. Heard /\ co.folder # 0
    BY <1>0, <1>4, <1>6, <1>8 DEF HeardInv, Sees
  <2>2. CASE disp.asks # disp.known
    <3>1. disp.session = 0 \/ pc \in {"askAll", "askOne"}
      BY <1>0, <1>3, <2>1, <2>2 DEF HeardInv, Known
    <3>2. QED
      BY <1>4, <3>1 DEF Heard, Asking
  <2>3. CASE disp.asks = disp.known
    BY <1>0, <1>1, <1>4, <1>7, <2>1, <2>3 DEF Heard, Asking
  <2>4. QED
    BY <2>2, <2>3
<1>10. Shown' => Settled'
  <2> SUFFICES ASSUME Shown' PROVE Settled'
    OBVIOUS
  <2>1. Shown /\ Settled
    BY DEF HeardInv
  <2>2. disp.asks = disp.known
    BY <1>0, <2>1 DEF Settled, Asking
  <2>3. ~auth.closed /\ auth.pending = 0
    BY <2>1 DEF Shown, HoldsCurrent, Current
  <2>4. ~Reseeds
    BY <2>3 DEF Facts, LaneTruth, Reseeds
  <2>5. pc = "idle"
    BY <1>3, <2>2, <2>4
  <2>6. QED
    BY <1>4, <1>7, <2>1, <2>5 DEF Settled, Asking
<1>11. QED
  BY <1>5, <1>9, <1>10 DEF HeardInv

\* A batch that leaves the stream in sync tells its log.
LEMMA TakeBatchHeard ==
    ASSUME Typed, LifeInv, Facts, HeardInv, TakeBatch, Shown' => Shown
    PROVE  HeardInv'
<1>1. PICK item :
        LET d == IF item.kind = "source" THEN ConsumeSource(item.value) ELSE disp
            f == Finish(auth, d, item)
        IN  /\ Takes(item) /\ item.kind \in {"source", "facts"}
            /\ \/ ~disp.active /\ UNCHANGED <<auth, disp, tally>>
               \/ auth' = f.auth /\ disp' = f.disp /\ UNCHANGED tally
               \/ Failing /\ auth' = Poison(auth) /\ tally' = Failed /\ UNCHANGED disp
            /\ UNCHANGED <<disc, stream, co, pass, ticket>>
  BY DEF TakeBatch
<1> DEFINE d == IF item.kind = "source" THEN ConsumeSource(item.value) ELSE disp
           f == Finish(auth, d, item)
<1>2. UNCHANGED <<disc, stream, co, pass, ticket>> /\ Takes(item) /\ Batch(item)
      /\ ~Roster(item) /\ ~Commands(item)
  BY <1>1 DEF Batch, Roster, Commands
<1>3. /\ item \in Items /\ Holds(queue, item) /\ queue # <<>> /\ item = Head(queue)
      /\ queue' = Tail(queue) /\ disp.pc = "idle" /\ disp.worker
      /\ queue \in Seq(Items) /\ auth \in Authorities /\ disp \in DispS
  BY <1>2, TakesKeeps DEF Takes, Typed
<1>4. NoCommand(queue) => NoCommand(queue')
  BY <1>3, Commanded
<1>5. CASE ~disp.active /\ UNCHANGED <<auth, disp>>
  BY <1>2, <1>4, <1>5, HeardOn DEF HearsOn
<1>6. CASE auth' = Poison(auth) /\ UNCHANGED disp
  <2>1. ~InSync("stream")'
    <3>1. Calm(auth, auth')
      BY <1>3, <1>6, CalmMethods, Names
    <3>2. ~Sure(auth') /\ (auth.pending # 0 => Doomed(auth'))
      BY <1>3, <1>6, PoisonUnsure
    <3>3. ~auth'.closed => auth'.pending = auth.pending
      BY <3>1, CalmSynced
    <3>4. QED
      BY <3>2, <3>3 DEF InSync, SyncedIn, Sure, Doomed
  <2>2. QED
    BY <1>2, <1>4, <1>6, <2>1, HeardOn DEF HearsOn, StreamOn
<1>7. CASE auth' = f.auth /\ disp' = f.disp
  <2>1. /\ d \in DispS /\ d.session = disp.session /\ d.known = disp.known
        /\ d.active = disp.active /\ d.pc = disp.pc /\ d.worker = disp.worker
        /\ d.boundary = disp.boundary /\ d.restated = disp.restated
        /\ item.kind = "source" => d.session = 0 \/ d.source = item.value
        /\ item.kind # "source" => d.source = disp.source
    <3>1. item.value \in Nat
      BY <1>3, ItemFields
    <3>2. QED
      BY <1>3, <3>1 DEF ConsumeSource, DispS
  <2>2. Sound(auth) /\ (~auth.closed => d.boundary = auth.pending)
    BY <2>1 DEF Facts, LaneTruth
  <2> HIDE DEF d
  <2>3. /\ f.disp.known = d.known /\ f.disp.session = d.session /\ f.disp.source = d.source
        /\ f.disp.active = d.active /\ f.disp.pc = d.pc /\ f.disp.worker = d.worker
    BY <2>1, FinishLeaves
  <2>4. /\ LanesHeld(auth, f.auth)
        /\ SyncedIn(f.auth, f.disp.restated, "stream") =>
              /\ item.d.op.life = auth.lanes["stream"].life
              /\ \/ SyncedIn(auth, d.restated, "stream")
                 \/ /\ item.d.receipt = auth.lanes["stream"].requested
                    /\ item.d.invalidates \/ item.d.reset # 0
    <3>1. LaneOf(item) = "stream" /\ "stream" \in Watched
      BY <1>2 DEF LaneOf, Watched
    <3>2. QED
      BY <1>2, <1>3, <2>1, <2>2, <3>1, FinishEffects
  <2> HIDE DEF f
  <2>5. /\ Flies(item, item)
        /\ \A x \in Items : Flies(x, x) => Flies(item, x)
    <3>1. stream.carried \in Items /\ stream.fifo \in Seq(Items)
      BY Parts
    <3>2. QED
      BY <1>2, <1>3, <3>1, QueueOrder, HeadFirst DEF Flies
  <2>6. disp'.session = disp.session /\ disp'.known = disp.known /\ disp'.active = disp.active
        /\ disp'.pc = "idle" /\ disp'.worker /\ disp'.source = d.source
    BY <1>3, <1>7, <2>1, <2>3
  <2>7. Idle' /\ Known'
    BY <1>3, <2>6 DEF Idle, Known, HeardInv
  <2>8. Shown' => Settled'
    BY <1>4, <2>6 DEF HeardInv, Settled, Asking
  <2>9. Sees' => Heard'
    <3> SUFFICES ASSUME InSync("stream")', disp.active PROVE Heard'
      BY <2>6 DEF Sees
    <3>1. /\ item.d.op.life = stream.receipt.life
          /\ \/ InSync("stream")
             \/ /\ item.d.receipt = stream.receipt
                /\ item.d.invalidates \/ item.d.reset # 0
      <4>1. stream.receipt = auth.lanes["stream"].requested
            /\ stream.receipt.life = auth.lanes["stream"].life
        BY DEF Facts, LaneTruth, LifeInv
      <4>2. QED
        BY <1>7, <2>1, <2>4, <4>1 DEF InSync
    <3>2. ~auth.closed /\ auth.lanes["stream"].running
      BY <1>7, <2>4 DEF InSync, SyncedIn, LanesHeld, LaneHeld
    <3>3. CASE item.kind = "source"
      <4>1. Tells(item)
        <5>1. InSync("stream") => Tells(item)
          BY <1>3, <2>5 DEF Facts, SourceTruth, AllTell
        <5>2. item.d.receipt = stream.receipt => Tells(item)
          BY <1>3, <2>5, <3>1, <3>2 DEF Facts, SourceTruth, Speaks
        <5>3. QED
          BY <3>1, <5>1, <5>2
      <4>2. item.value = stream.tracked
        BY <3>1, <3>3, <4>1 DEF Tells
      <4>3. QED
        BY <1>2, <2>1, <2>6, <3>3, <4>2 DEF Heard
    <3>4. CASE item.kind # "source"
      <4>1. InSync("stream")
        <5>1. ~item.d.invalidates /\ item.d.reset = 0
          BY <1>2, <1>3, <2>5, <3>4 DEF Facts, SourceTruth, Past, Batch
        <5>2. QED
          BY <3>1, <5>1
      <4>2. Heard /\ ~Asking
        BY <1>3, <4>1 DEF HeardInv, Sees, Asking
      <4>3. Answer => Answer'
        BY <1>2, <1>3, <3>4, AnswerStays
      <4>4. QED
        BY <1>2, <2>1, <2>6, <3>4, <4>2, <4>3 DEF Heard
    <3>5. QED
      BY <3>3, <3>4
  <2>10. QED
    BY <2>7, <2>8, <2>9 DEF HeardInv
<1>8. QED
  BY <1>1, <1>5, <1>6, <1>7

\* A command is not taken while the views are shown, nor is the stream asked again.
LEMMA TakeControlHeard ==
    ASSUME Typed, Facts, HeardInv, TakeControl, Shown' => Shown
    PROVE  HeardInv'
<1>1. PICK item :
        LET on == item.value = 1
            resets == IF item.kind = "mode" THEN on # disp.active ELSE disp.active
        IN  /\ Takes(item)
            /\ \/ /\ item.kind \in {"mode", "refresh"}
                  /\ disp' = [disp EXCEPT !.pc = "reset", !.item = item,
                           !.active = IF item.kind = "mode" THEN on ELSE @,
                           !.activation = CASE item.kind = "refresh" -> @
                                            [] item.kind # "refresh" /\ on -> item.gen
                                            [] OTHER -> 0]
                  /\ UNCHANGED co
               \/ /\ item.kind \in {"mode", "refresh"} /\ ~resets
                  /\ disp' = [disp EXCEPT !.activation =
                                 IF item.kind = "mode" /\ on THEN item.gen ELSE @]
                  /\ co' = Signal(item.id, FALSE)
               \/ /\ item.kind = "ready"
                  /\ disp' = [disp EXCEPT !.asked = @ \/ Reseeds,
                                 !.pc = IF Reseeds THEN "askAll" ELSE "idle"]
                  /\ UNCHANGED co
            /\ UNCHANGED <<auth, disc, stream, pass, ticket, tally>>
  BY DEF TakeControl
<1>2. /\ UNCHANGED <<auth, disc, stream, pass, ticket>> /\ Takes(item)
      /\ item.kind \in {"mode", "refresh", "ready"}
  BY <1>1
<1>3. /\ item \in Items /\ queue # <<>> /\ item = Head(queue)
      /\ queue' = Tail(queue) /\ disp.pc = "idle" /\ disp.worker
      /\ queue \in Seq(Items) /\ disp \in DispS
  BY <1>2, TakesKeeps DEF Takes, Typed
<1>4. /\ NoCommand(queue) => NoCommand(queue') /\ item.kind = "ready"
      /\ Answer => Answer'
  <2>1. NoCommand(queue) => NoCommand(queue') /\ ~Commands(item)
    BY <1>3, Commanded
  <2>2. Answer => Answer'
    BY <1>2, <1>3, AnswerStays
  <2>3. QED
    BY <1>2, <2>1, <2>2 DEF Commands
<1>5. Shown' => Settled /\ item.kind = "ready" /\ NoCommand(queue')
  BY <1>4 DEF HeardInv, Settled
<1>6. CASE item.kind # "ready" /\ disp'.pc = "reset" /\ disp'.known = disp.known
           /\ disp'.session = disp.session /\ disp'.worker
  BY <1>3, <1>5, <1>6 DEF HeardInv, Idle, Known, Sees
<1>7. CASE HearsOn /\ disp'.restated = disp.restated
  <2>1. InSync("stream")' => InSync("stream")
    BY <1>2, <1>7 DEF InSync
  <2>2. QED
    BY <1>2, <1>4, <1>7, <2>1, HeardOn DEF StreamOn
<1>8. CASE item.kind = "ready" /\ Reseeds
           /\ disp' = [disp EXCEPT !.asked = TRUE, !.pc = "askAll"]
  <2>1. /\ disp'.pc = "askAll" /\ disp'.known = disp.known /\ disp'.session = disp.session
        /\ disp'.worker
    BY <1>3, <1>8 DEF DispS
  <2>2. ~Shown
    BY <1>8 DEF Shown, HoldsCurrent, Current, Facts, LaneTruth, Reseeds
  <2>3. QED
    BY <1>3, <2>1, <2>2 DEF HeardInv, Idle, Known, Heard, Asking
<1>9. QED
  <2>1. CASE /\ item.kind \in {"mode", "refresh"}
             /\ disp' = [disp EXCEPT !.pc = "reset", !.item = item,
                           !.active = IF item.kind = "mode" THEN item.value = 1 ELSE @,
                           !.activation = CASE item.kind = "refresh" -> @
                                            [] item.kind # "refresh" /\ item.value = 1 -> item.gen
                                            [] OTHER -> 0]
    <3>1. \E b, n : disp' = [disp EXCEPT !.pc = "reset", !.item = item, !.active = b,
                                         !.activation = n]
      BY <2>1
    <3>2. disp'.pc = "reset" /\ disp'.known = disp.known /\ disp'.session = disp.session
          /\ disp'.worker = disp.worker
      BY <1>3, <3>1 DEF DispS
    <3>3. QED
      BY <1>3, <1>6, <2>1, <3>2
  <2>2. CASE \E n : disp' = [disp EXCEPT !.activation = n]
    BY <1>3, <1>7, <2>2 DEF HearsOn, DispS
  <2>3. CASE /\ item.kind = "ready"
             /\ disp' = [disp EXCEPT !.asked = @ \/ Reseeds,
                                 !.pc = IF Reseeds THEN "askAll" ELSE "idle"]
    <3>1. CASE Reseeds
      BY <1>3, <1>8, <2>3, <3>1 DEF DispS
    <3>2. CASE ~Reseeds
      <4>1. HearsOn /\ disp'.restated = disp.restated
        BY <1>3, <2>3, <3>2 DEF HearsOn, DispS
      <4>2. QED
        BY <1>7, <4>1
    <3>3. QED
      BY <3>1, <3>2
  <2>4. QED
    BY <1>1, <2>1, <2>2, <2>3

\* The stream answers what it is asked.
LEMMA AskStreamHeard ==
    ASSUME Typed, Facts, HeardInv, AskStream, Shown' => Shown
    PROVE  HeardInv'
<1> DEFINE reset == IF disp.pc = "askAll" THEN disp.boundary ELSE 0
           op == Started(auth', "stream", stream.receipt.life)
           d == OperationOf(auth', stream.receipt, reset)
           i == Item("source", 0, stream.tracked, d, 0)
           st == [stream EXCEPT !.fifo = Append(stream.fifo, i)]
<1>0. /\ auth \in Authorities /\ disp \in DispS /\ stream \in StreamS /\ reset \in Nat
      /\ stream.tracked \in Nat /\ stream.fifo \in Seq(Items) /\ stream.receipt \in Stamps
      /\ stream.receipt.life \in Nat /\ disp.pc \in {"askAll", "askOne"}
      /\ queue \in Seq(Items) /\ stream.carried \in Items
  BY Parts DEF Typed, AskStream
<1>1. /\ auth' = StartOperation(auth, "stream", stream.receipt.life)
      /\ stream' = Claimed(st, "disp") /\ queue' = queue
      /\ disp' = [disp EXCEPT !.pc = IF stream'.drainer = "disp" THEN "draining" ELSE "idle"]
  BY DEF AskStream
<1>2. d \in Deliveries
  <2>1. op \in Stamps
    BY <1>0, <1>1, Names, StartedLife
  <2>2. d = IF op = NoOperation THEN NoDelivery ELSE Delivery(op, stream.receipt, reset, FALSE)
    BY DEF OperationOf
  <2> HIDE DEF op, reset
  <2>3. Delivery(op, stream.receipt, reset, FALSE) \in Deliveries
    BY <1>0, <2>1, DeliveryTyped
  <2>4. QED
    BY <2>2, <2>3, Stamp0
<1> HIDE DEF d
<1>3. i \in Items /\ i.value = stream.tracked /\ i.kind = "source" /\ Batch(i)
  BY <1>0, <1>2, ItemTyped DEF Kinds, Item, Batch
<1> HIDE DEF i
<1>4. /\ st \in StreamS /\ st.fifo = Append(stream.fifo, i)
      /\ st.carried = stream.carried /\ st.tracked = stream.tracked
  BY <1>0, <1>3, Queues DEF StreamS
<1> HIDE DEF st
<1>5. /\ stream'.fifo = Append(stream.fifo, i)
      /\ stream'.carried = stream.carried /\ stream'.tracked = stream.tracked
  BY <1>1, <1>4 DEF Claimed, StreamS
<1>6. Answer'
  <2>1. Ahead(queue, stream.carried, Append(stream.fifo, i), i, i)
    BY <1>0, <1>3, StillFlies
  <2>2. QED
    BY <1>1, <1>3, <1>5, <2>1 DEF Answer, Flies
<1>7. /\ disp'.session = disp.session /\ disp'.known = disp.known
      /\ disp'.worker = disp.worker /\ disp'.pc \in {"draining", "idle"}
  BY <1>0, <1>1 DEF DispS
<1>8. ~Shown
  BY <1>0 DEF HeardInv, Settled, Asking
<1>9. Idle' /\ Known'
  BY <1>0, <1>7 DEF HeardInv, Idle, Known
<1>10. QED
  BY <1>6, <1>8, <1>9 DEF HeardInv, Heard

\* What is captured is no news, for the queue was seen empty.
LEMMA PublishCaptureHeard ==
    ASSUME Typed, HeardInv, PublishCapture
    PROVE  HeardInv'
<1>1. /\ UNCHANGED <<queue, disc, stream, co, pass, ticket>> /\ auth \in Authorities
      /\ auth' = Hold(auth) /\ disp \in DispS
      /\ disp' = [disp EXCEPT !.pc = "seal", !.frontier = Frontier(auth)]
      /\ disp.worker /\ disp.pc = "idle" /\ queue = <<>> /\ disp.active
  BY DEF Typed, PublishCapture
<1>2. Calm(auth, auth')
  BY <1>1, CalmMethods, Names
<1>3. /\ disp'.session = disp.session /\ disp'.source = disp.source
      /\ disp'.known = disp.known /\ disp'.active /\ disp'.worker /\ disp'.pc = "seal"
      /\ disp'.restated = disp.restated
  BY <1>1 DEF DispS
<1>4. InSync("stream")' => InSync("stream")
  BY <1>2, <1>3, CalmStream DEF InSync
<1>5. Answer => Answer'
  BY <1>1, AnswerStays
<1>6. Idle' /\ Known' /\ ~Asking
  BY <1>1, <1>3 DEF HeardInv, Idle, Known, Asking
<1>7. Sees' => Heard'
  BY <1>1, <1>3, <1>4, <1>5, <1>6 DEF HeardInv, Sees, Heard
<1>8. Settled'
  BY <1>1, <1>3 DEF Settled, Asking, NoCommand
<1>9. QED
  BY <1>6, <1>7, <1>8 DEF HeardInv

\* What is sealed was about to be.
LEMMA PublishSealHeard ==
    ASSUME Typed, HeardInv, PublishSeal
    PROVE  HeardInv'
<1>1. /\ UNCHANGED <<auth, queue, disc, stream, co, pass>> /\ disp \in DispS
      /\ disp.pc = "seal"
      /\ disp' = [disp EXCEPT !.pc = "idle", !.frontier = NoFrontier]
      /\ ticket' \in IF Seals(auth, disp.frontier) THEN {ticket, Sealed} ELSE {ticket}
  BY DEF Typed, PublishSeal
<1>2. HearsOn /\ disp'.restated = disp.restated /\ disp'.pc = "idle"
  BY <1>1 DEF HearsOn, DispS
<1>3. Answer => Answer'
  BY <1>1, AnswerStays
<1>4. Shown' => Shown
  <2>1. CASE ticket' = ticket
    BY <1>1, <1>2, <2>1 DEF Shown, HoldsCurrent
  <2>2. CASE ticket' = Sealed /\ Seals(auth, disp.frontier)
    <3>1. Current(auth, disp.frontier.token)
      BY <2>2 DEF Seals, Captures, Frontier
    <3>2. QED
      BY <1>1, <3>1 DEF Shown
  <2>3. QED
    BY <1>1, <2>1, <2>2
<1>5. InSync("stream")' => InSync("stream")
  BY <1>1, <1>2 DEF InSync
<1>6. QED
  BY <1>1, <1>2, <1>3, <1>4, <1>5, HeardOn DEF StreamOn

-----------------------------------------------------------------------------
(* The log of a session is told: the pass *)

\* A step of the pass that leaves the dispatcher and the log as they are.
LEMMA PassHeard ==
    ASSUME Typed, HeardInv, UNCHANGED disp,
           stream'.tracked = stream.tracked, stream'.carried = stream.carried,
           stream'.fifo = stream.fifo,
           InSync("stream")' => InSync("stream"),
           \/ queue' = queue
           \/ \E i \in Items : queue' = Append(queue, i),
           Shown' => Shown /\ queue' = queue
    PROVE  HeardInv'
<1>1. Answer => Answer'
  BY AnswerStays
<1>2. HearsOn
  BY DEF HearsOn
<1>3. QED
  BY <1>1, <1>2, HeardOn DEF StreamOn

\* A step of the pass that leaves the authority as it is, or is calm.
LEMMA CalmHeard ==
    ASSUME Typed, HeardInv, Calm(auth, auth'), UNCHANGED <<queue, disp>>,
           stream'.tracked = stream.tracked, stream'.carried = stream.carried,
           stream'.fifo = stream.fifo, Shown' => Shown
    PROVE  HeardInv'
<1>1. InSync("stream")' => InSync("stream")
  BY CalmStream DEF InSync
<1>2. QED
  BY <1>1, PassHeard

\* A reset that nothing restates yet.
LEMMA PassResetHeard ==
    ASSUME ResetsOnly(auth, auth'), disp'.restated = {}, Idle', Known'
    PROVE  HeardInv'
<1>1. ~InSync("stream")'
  BY CalmSynced DEF InSync, Watched
<1>2. ~Shown'
  BY DEF ResetsOnly, Shown, HoldsCurrent, Current
<1>3. QED
  BY <1>1, <1>2 DEF HeardInv, Sees

\* Waiting, and telling the dispatcher to stop.
LEMMA WaitsHeard ==
    ASSUME Typed, HeardInv, AwaitReset \/ AwaitRefresh \/ StopDispatcher, Shown' => Shown
    PROVE  HeardInv'
<1>1. /\ UNCHANGED <<auth, queue, disc, stream, co, ticket>> /\ disp \in DispS
      /\ disp' = disp \/ disp' = [disp EXCEPT !.stopping = TRUE]
  BY DEF Typed, AwaitReset, AwaitRefresh, StopDispatcher
<1>2. HearsOn /\ disp'.restated = disp.restated
  BY <1>1 DEF HearsOn, DispS
<1>3. Answer => Answer'
  BY <1>1, AnswerStays
<1>4. InSync("stream")' => InSync("stream")
  BY <1>1, <1>2 DEF InSync
<1>5. QED
  BY <1>1, <1>2, <1>3, <1>4, HeardOn DEF StreamOn

\* A worker is told to stop, or admission is closed.
LEMMA StopsHeard ==
    ASSUME Typed, LifeInv, HeardInv, StopDiscovery \/ StopStream \/ CloseAdmission,
           Shown' => Shown
    PROVE  HeardInv'
<1> DEFINE a == ReserveControl(auth, co.control).auth
<1>0. /\ stream \in StreamS /\ auth \in Authorities
      /\ disc.receipt.life \in Nat /\ stream.receipt.life \in Nat
  BY Parts DEF Typed
<1>1. /\ UNCHANGED <<queue, disp>>
      /\ \/ auth' = Stop(a, "roster", disc.receipt.life)
         \/ auth' = Stop(a, "stream", stream.receipt.life)
         \/ auth' = Close(auth)
      /\ stream' = stream \/ stream' = [stream EXCEPT !.stopping = TRUE]
  BY DEF StopDiscovery, StopStream, CloseAdmission
<1>2. Calm(auth, auth')
  BY <1>0, <1>1, StopsCalm, CalmMethods, Names
<1>3. /\ stream'.tracked = stream.tracked /\ stream'.carried = stream.carried
      /\ stream'.fifo = stream.fifo
  BY <1>0, <1>1 DEF StreamS
<1>4. QED
  BY <1>1, <1>2, <1>3, CalmHeard

\* Another mode is asked for: what is shown is void.
LEMMA ReconcileHeard ==
    ASSUME Typed, LifeInv, Facts, HeardInv, Reconcile, Shown' => Shown
    PROVE  HeardInv'
<1>1. PICK fleet \in FleetChoices :
         LET r == ReserveControl(auth, co.control)
             gen == co.reqGen + 1
             w == Awaited([co EXCEPT !.requested = fleet, !.reqGen = gen,
                                     !.control = r.receipt],
                          Item("mode", gen, IF fleet THEN 1 ELSE 0, r.delivery, 0),
                          gen)
         IN  \/ UNCHANGED <<auth, queue, co>>
             \/ auth' = r.auth /\ queue' = Append(queue, w.item)
  BY DEF Reconcile
<1> DEFINE r == ReserveControl(auth, co.control)
           gen == co.reqGen + 1
           m == [co EXCEPT !.requested = fleet, !.reqGen = gen, !.control = r.receipt]
           i == Item("mode", gen, IF fleet THEN 1 ELSE 0, r.delivery, 0)
           w == Awaited(m, i, gen)
<1>2. /\ UNCHANGED <<disc, stream, disp, ticket>> /\ ~auth.closed /\ gen \in Nat
      /\ co \in CoS /\ auth \in Authorities /\ fleet \in BOOLEAN
      /\ co.control \in Stamps /\ co.control.life = auth.lanes["control"].life
  BY Parts, AdmissionBounds DEF Reconcile, Typed, LifeInv
<1>3. CASE UNCHANGED <<auth, queue, co>>
  <2>1. Calm(auth, auth')
    BY <1>2, <1>3, CalmMethods, Names
  <2>2. QED
    BY <1>2, <1>3, <2>1, CalmHeard
<1>4. CASE auth' = r.auth /\ queue' = Append(queue, w.item)
  <2>1. Calm(auth, auth') /\ ~Shown'
    BY <1>2, <1>4, CalmReserveControl, ReservedVoid, VoidHides DEF Void, Facts, LaneTruth
  <2>2. r.receipt \in Stamps /\ r.delivery \in Deliveries
    BY <1>2, ReserveControlFacts
  <2> HIDE DEF r, gen
  <2>3. m \in CoS
    BY <1>2, <2>2 DEF CoS
  <2>4. i \in Items
    <3>1. (IF fleet THEN 1 ELSE 0) \in Nat
      OBVIOUS
    <3>2. QED
      BY <1>2, <2>2, <3>1, ItemTyped DEF Kinds
  <2> HIDE DEF m, i
  <2>5. w.item \in Items
    BY <1>2, <2>3, <2>4, AwaitedKeeps
  <2> HIDE DEF w
  <2>6. InSync("stream")' => InSync("stream")
    BY <1>2, <2>1, CalmStream DEF InSync
  <2>7. QED
    BY <1>2, <1>4, <2>1, <2>5, <2>6, PassHeard
<1>5. QED
  BY <1>1, <1>3, <1>4

\* A finalized dispatcher knows no session, one that is not knows the one it has.
LEMMA FinalizedHears ==
    ASSUME Typed
    PROVE  /\ LET e == Finalized.disp IN
              e.session = 0 /\ e.known = 0 /\ e.pc = disp.pc /\ ~e.worker
           /\ LET e == NotFinalized.disp IN
              /\ e.session = disp.session /\ e.known = disp.known /\ e.pc = disp.pc
              /\ e.worker = disp.worker /\ e.asks = disp.asks
<1>0. disp \in DispS
  BY DEF Typed
<1>1. /\ \E n : Finalized.disp = [Cleared(disp) EXCEPT
                  !.worker = FALSE, !.stopping = FALSE, !.boundary = n,
                  !.restated = {}, !.asked = FALSE, !.known = 0,
                  !.active = FALSE, !.activation = 0, !.rosterGen = 0,
                  !.complete = FALSE]
      /\ \E n : NotFinalized.disp = [disp EXCEPT !.boundary = n, !.restated = {},
                                                 !.asked = FALSE]
  BY DEF Finalized, NotFinalized
<1>2. QED
  BY <1>0, <1>1 DEF Cleared, DispS

\* The dispatcher is started, or waited for and finalized.
LEMMA FinalizedHeard ==
    ASSUME Typed, LifeInv, HeardInv, StartDispatcher \/ JoinDispatcher, Shown' => Shown
    PROVE  HeardInv'
<1>0. /\ disp \in DispS /\ stream \in StreamS /\ auth \in Authorities
      /\ UNCHANGED <<disc, stream, ticket>>
  BY DEF Typed, StartDispatcher, JoinDispatcher
<1>1. CASE /\ disp' = disp \/ disp' = NewDispatcher(disp)
           /\ UNCHANGED <<auth, queue, co>>
  <2>1. HearsOn /\ disp'.restated = disp.restated
    BY <1>0, <1>1 DEF HearsOn, NewDispatcher, DispS
  <2>2. InSync("stream")' => InSync("stream")
    BY <1>1, <2>1 DEF InSync
  <2>3. Answer => Answer'
    BY <1>0, <1>1, AnswerStays
  <2>4. QED
    BY <1>0, <1>1, <2>1, <2>2, <2>3, HeardOn DEF StreamOn
<1>2. CASE /\ DispatcherDead
           /\ \/ auth' = Finalized.auth
              \/ auth' = ReserveControl(Finalized.auth, NoReceipt).auth
           /\ disp' = Finalized.disp \/ disp' = NewDispatcher(Finalized.disp)
  <2> DEFINE f == Finalized
             r == ReserveControl(f.auth, NoReceipt)
  <2>1. disp.pc = "idle"
    BY <1>2 DEF DispatcherDead, HeardInv, Idle
  <2>2. /\ ResetsOnly(auth, f.auth) /\ f.disp.restated = {} /\ f.auth \in Authorities
        /\ f.disp \in DispS /\ f.auth.lanes["control"].life = 0
        /\ f.disp.session = 0 /\ f.disp.known = 0 /\ f.disp.pc = "idle"
    BY <2>1, FinalizedTrue, FinalizedFacts, FinalizedHears
  <2> HIDE DEF f
  <2>3. NoReceipt \in Stamps /\ NoReceipt.life = 0
    BY Stamp0 DEF NoReceipt
  <2>4. ResetsOnly(auth, r.auth)
    BY <2>2, <2>3, CalmReserveControl, CarriesFacts
  <2> HIDE DEF r
  <2>5. ResetsOnly(auth, auth')
    BY <1>2, <2>2, <2>4 DEF f, r
  <2>6. disp'.restated = {} /\ disp'.session = 0 /\ disp'.known = 0 /\ disp'.pc = "idle"
    BY <1>2, <2>2 DEF f, NewDispatcher, DispS
  <2>7. QED
    BY <2>5, <2>6, PassResetHeard DEF Idle, Known
<1>3. CASE auth' = NotFinalized.auth /\ disp' = NotFinalized.disp
  <2>1. ResetsOnly(auth, auth') /\ disp'.restated = {}
    BY <1>3, FinalizedTrue
  <2>2. Idle' /\ Known'
    BY <1>3, FinalizedHears DEF HeardInv, Idle, Known
  <2>3. QED
    BY <2>1, <2>2, PassResetHeard
<1>4. CASE StartDispatcher
  BY <1>1, <1>2, <1>3, <1>4 DEF StartDispatcher
<1>5. CASE JoinDispatcher
  BY <1>1, <1>2, <1>3, <1>5 DEF JoinDispatcher
<1>6. QED
  BY <1>4, <1>5

\* Discovery ends or begins: that is not about the log.
LEMMA DiscoveryTurnsHeard ==
    ASSUME Typed, LifeInv, HeardInv, JoinDiscovery \/ StartDiscovery, Shown' => Shown
    PROVE  HeardInv'
<1>0. /\ UNCHANGED <<queue, stream, disp, ticket>> /\ auth \in Authorities
      /\ disc.receipt.life \in Nat
  BY Parts DEF Typed, JoinDiscovery, StartDiscovery
<1>1. \/ auth' = auth
      \/ auth' = Stopped(auth, "roster", disc.receipt.life)
      \/ auth' = Begin(auth, "roster") /\ ~auth.closed
  BY DEF JoinDiscovery, StartDiscovery
<1>2. CASE auth' = auth
  <2>1. Calm(auth, auth')
    BY <1>0, <1>2, CalmMethods, Names
  <2>2. QED
    BY <1>0, <2>1, CalmHeard
<1>3. CASE auth' # auth
  <2>1. SameRest(auth, auth') /\ Others(auth, auth', "roster")
    <3>1. \A life \in Nat : LET b == Stopped(auth, "roster", life) IN
            SameRest(auth, b) /\ Others(auth, b, "roster")
      BY <1>0, LaneEffects, Names
    <3>2. ~auth.closed => LET b == Begin(auth, "roster") IN
                          SameRest(auth, b) /\ Others(auth, b, "roster")
      BY <1>0, BegunLane, Names
    <3>3. QED
      BY <1>0, <1>1, <1>3, <3>1, <3>2
  <2>2. InSync("stream")' => InSync("stream")
    BY <1>0, <2>1, ApartSynced, Names DEF InSync
  <2>3. QED
    BY <1>0, <2>2, PassHeard
<1>4. QED
  BY <1>2, <1>3

\* A log worker that ends or begins has told nothing, and nothing is shown.
LEMMA StreamTurnsHeard ==
    ASSUME Typed, LifeInv, HeardInv, JoinStream \/ StartStream, Shown' => Shown
    PROVE  HeardInv'
<1>0. /\ disp' = disp /\ auth \in Authorities /\ stream.receipt.life \in Nat
  BY Parts DEF Typed, JoinStream, StartStream
<1>1. CASE UNCHANGED <<auth, queue, stream, co>>
  <2>1. Calm(auth, auth')
    BY <1>0, <1>1, CalmMethods, Names
  <2>2. QED
    BY <1>0, <1>1, <2>1, CalmHeard
<1>2. CASE ~InSync("stream")' /\ Void
  <2>1. HearsOn
    BY <1>0 DEF HearsOn
  <2>2. QED
    BY <1>2, <2>1, VoidHides, HeardOn DEF StreamOn
<1>3. CASE JoinStream /\ StreamDead
  <2>1. /\ auth' = Stopped(auth, "stream", stream.receipt.life)
        /\ ~auth.lanes["stream"].running
        /\ stream.receipt.life = auth.lanes["stream"].life
    BY <1>3 DEF JoinStream, LifeInv
  <2>2. ~auth'.lanes["stream"].running
    BY <1>0, <2>1, FreedLane, Names
  <2>3. QED
    BY <1>2, <2>2, Names DEF InSync, SyncedIn, Void, Current, Complete
<1>4. CASE StartStream /\ ~auth.closed
  <2>1. auth' = Begin(auth, "stream")
    BY <1>4 DEF StartStream
  <2>2. /\ auth'.lanes["stream"].applied # auth'.lanes["stream"].requested.order
        /\ Void
    BY <1>0, <1>4, <2>1, BegunLane, Names DEF Void
  <2>3. QED
    BY <1>2, <2>2 DEF InSync, SyncedIn
<1>5. QED
  BY <1>1, <1>3, <1>4 DEF JoinStream, StartStream

-----------------------------------------------------------------------------
(* What is admitted is true *)

\* At the start nobody knows of a session.
LEMMA HeardBegins == Init => HeardInv
<1> SUFFICES ASSUME Init PROVE HeardInv
  OBVIOUS
<1>1. /\ disp.pc = "idle" /\ disp.active = FALSE /\ disp.session = 0 /\ disp.known = 0
      /\ ticket = NoTicket
  BY DEF Init
<1>2. QED
  BY <1>1 DEF HeardInv, Idle, Known, Sees, Shown, HoldsCurrent

\* Whatever moves, the log of a session is told.
LEMMA HeardSteps ==
    ASSUME IInv, Facts, RestInv, HeardInv, Next
    PROVE  HeardInv'
<1>0. Typed /\ DrainInv /\ LifeInv /\ FlowInv
  BY DEF IInv
<1>1. CASE PublishCapture \/ PublishSeal
  BY <1>0, <1>1, PublishCaptureHeard, PublishSealHeard
<1>2. CASE ~PublishCapture /\ ~PublishSeal
  <2>1. Shown' => Shown
    BY <1>2, StepReports, Shows
  <2>2. CASE Discovery
    BY <1>0, <2>1, <2>2, DiscoveryHeard
  <2>3. CASE LogWorker
    BY <1>0, <2>1, <2>3, WorkHeard, DrainHeard DEF LogWorker
  <2>4. CASE Dispatcher
    <3>1. CASE TakeRoster \/ TakeBatch \/ TakeControl
      BY <1>0, <2>1, <3>1, TakeRosterHeard, TakeBatchHeard, TakeControlHeard
    <3>2. CASE Reset \/ Prime
      BY <1>0, <2>1, <3>2, ResetHeard, PrimeHeard
    <3>3. CASE Republish \/ AskStream
      BY <1>0, <2>1, <3>3, RepublishHeard, AskStreamHeard
    <3>4. QED
      BY <1>2, <2>4, <3>1, <3>2, <3>3 DEF Dispatcher
  <2>5. CASE Pass
    <3>1. CASE Reconcile
      BY <1>0, <2>1, <3>1, ReconcileHeard
    <3>2. CASE StartDispatcher \/ JoinDispatcher
      BY <1>0, <2>1, <3>2, FinalizedHeard
    <3>3. CASE AwaitReset \/ AwaitRefresh \/ StopDispatcher
      BY <1>0, <2>1, <3>3, WaitsHeard
    <3>4. CASE StopDiscovery \/ StopStream
      BY <1>0, <2>1, <3>4, StopsHeard
    <3>5. CASE JoinDiscovery \/ StartDiscovery
      BY <1>0, <2>1, <3>5, DiscoveryTurnsHeard
    <3>6. CASE JoinStream \/ StartStream
      BY <1>0, <2>1, <3>6, StreamTurnsHeard
    <3>7. QED
      BY <2>5, <3>1, <3>2, <3>3, <3>4, <3>5, <3>6 DEF Pass
  <2>6. CASE CloseAdmission
    BY <1>0, <2>1, <2>6, StopsHeard
  <2>7. QED
    BY <2>2, <2>3, <2>4, <2>5, <2>6 DEF Next
<1>3. QED
  BY <1>1, <1>2

\* What moves nothing tells nothing.
LEMMA UnmovedHeard ==
    ASSUME HeardInv, UNCHANGED vars
    PROVE  HeardInv'
<1>1. /\ auth' = auth /\ queue' = queue /\ stream' = stream /\ disp' = disp
      /\ ticket' = ticket
  BY DEF vars
<1>2. (Asking' <=> Asking) /\ (Shown' <=> Shown) /\ (Sees' <=> Sees)
  BY <1>1 DEF Asking, Shown, HoldsCurrent, Sees, InSync
<1>3. Answer' <=> Answer
  BY <1>1 DEF Answer, Flies
<1>4. QED
  BY <1>1, <1>2, <1>3 DEF HeardInv, Idle, Known, Heard, Settled

\* In every state the dispatcher knows the session it has, and has its log, asks for it
\* or is on its way to be told (coordinator.py:1484 and gamelogs.py:646 as one).
THEOREM HeardInvariance == Spec => []HeardInv
<1>1. Init => HeardInv
  BY HeardBegins
<1>2. IInv /\ TruthInv /\ RestInv /\ HeardInv /\ [Next]_vars => HeardInv'
  <2> SUFFICES ASSUME IInv, TruthInv, RestInv, HeardInv, [Next]_vars PROVE HeardInv'
    OBVIOUS
  <2>1. CASE Next
    BY <2>1, HeardSteps DEF TruthInv
  <2>2. CASE UNCHANGED vars
    BY <2>2, UnmovedHeard
  <2>3. QED
    BY <2>1, <2>2
<1>3. QED
  BY <1>1, <1>2, Invariance, TruthInvariance, RestInvariance, PTL DEF Spec

\* What is shown under a current ticket is what is so, but that a session whose log is

\* on its way to the views may be shown without it.
LEMMA ShownIsTrue ==
    ASSUME Typed, Facts, TicketTruth, HeardInv
    PROVE  AdmittedIsTrue
<1> SUFFICES ASSUME HoldsCurrent PROVE
       /\ ticket.session = disc.session /\ ticket.activation = co.reqGen
       /\ \/ ticket.source = stream.tracked
          \/ /\ ticket.source = 0
             /\ \/ ticket.session = 0 \/ disp.source = stream.tracked \/ AnswerUnderWay
  BY DEF AdmittedIsTrue
<1>1. /\ ticket.session = disc.session /\ ticket.activation = co.reqGen
      /\ ticket.source \in {0, stream.tracked}
  BY DEF TicketTruth
<1>2. InSync("roster") /\ InSync("stream")
  BY CurrentSynced, Names DEF HoldsCurrent, InSync
<1>3. Settled
  BY DEF HeardInv, Shown
<1>4. disp.session = disc.session
  BY <1>2, <1>3 DEF Facts, RosterTruth, Settled
<1>5. disp.session = 0 \/ disp.source = stream.tracked \/ Answer
  BY <1>2, <1>3 DEF HeardInv, Sees, Settled, Heard
<1>6. Answer => AnswerUnderWay
  <2> SUFFICES ASSUME NEW x \in Items, Flies(x, x), x.kind = "source", x.value = stream.tracked
               PROVE  AnswerUnderWay
    BY DEF Answer
  <2>1. Holds(queue, x) \/ x = stream.carried \/ Holds(stream.fifo, x)
    <3>1. queue \in Seq(Items) /\ stream.fifo \in Seq(Items) /\ stream.carried \in Items
      BY Parts DEF Typed
    <3>2. QED
      BY <3>1, StillFlies DEF Flies
  <2>2. x \in Flying
    BY <2>1 DEF Flying, Holds
  <2>3. QED
    BY <2>2 DEF AnswerUnderWay
<1>7. QED
  BY <1>1, <1>4, <1>5, <1>6

\* A subscriber whose ticket is current shows the session discovery has now, the
\* activation asked for last and the log of now, or no log while it is being told
\* (admission.py:397, gamelogs.py:646 and coordinator.py:1484 as one).
THEOREM AdmittedIsTrueAlways == Spec => []AdmittedIsTrue
<1>1. IInv /\ TruthInv /\ HeardInv => AdmittedIsTrue
  BY ShownIsTrue DEF IInv, TruthInv
<1>2. QED
  BY <1>1, Invariance, TruthInvariance, HeardInvariance, PTL
=============================================================================
