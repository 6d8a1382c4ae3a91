------------------------ MODULE CropWindows_proofs ------------------------
(***************************************************************************)
(* What the crop store tells the user is true, for any number of crops,    *)
(* edits, moves and faults.                                                *)
(*                                                                         *)
(* Only the worker touches the document, the definitions and the set of    *)
(* saved edits; everything else may answer an edit that is not admitted    *)
(* and may hand in a newer move.  So the proof has two halves: Outside     *)
(* says all that any step of the host or the pump can do to the store, and *)
(* the invariants are then kept by Outside steps once, and by the steps of *)
(* the worker one by one.  WorkInv says what the worker knows between two  *)
(* of its critical sections.                                               *)
(***************************************************************************)
EXTENDS CropWindows, SequenceTheorems, WellFoundedInduction, TLAPS

(* The types of the variables, each under a name of its own *)

Crops == Definition \cup {NoCrop}
Moves == Move \cup {NoMove}
Snapshot == [Names -> 0..MaxRosters]
Outcomes == {"pending", "true", "false"}
Item == [kind : {"op", "flush", "barrier"}, id : Nat, names : SUBSET Names,
         closing : BOOLEAN]
Worker == [pc : {"idle", "admit", "save", "commit", "flush", "flushSave", "flushCommit",
                 "resolve", "exit"},
           item : Item, left : SUBSET Names, def : Crops, seq : 0..MaxMoves, err : BOOLEAN]
Frame == [gen : -1..MaxOps, session : 0..MaxRosters, era : 0..MaxImports]

StoreTyped ==
    /\ defs \in [Names -> Crops] /\ disk \in [Names -> Crops]
    /\ gens \in [Names -> -1..MaxOps] /\ reserved \in [Names -> 0..MaxOps]
    /\ ops \in Seq(Operation) /\ Len(ops) <= MaxOps
    /\ queue \in Seq(Item) /\ worker \in Worker
    /\ started \in BOOLEAN /\ fenced \in BOOLEAN /\ flushOk \in BOOLEAN /\ closing \in BOOLEAN
    /\ epoch \in 0..MaxEpoch /\ rosterSeen \in Nat /\ sessions \in Snapshot
    /\ dirty \in [Names -> Moves] /\ seqs \in [Names -> 0..MaxMoves]
    /\ barriers \in Seq(Outcomes)
    /\ saved \subseteq DOMAIN ops /\ owed \in [Names -> 0..MaxMoves]
    /\ faults \in 0..MaxFaults /\ imports \in 0..MaxImports

HostTyped ==
    /\ roster \in Seq(Snapshot) /\ Len(roster) <= MaxRosters
    /\ pump \in {"stopped", "running", "asked", "stopping", "draining"} /\ final \in BOOLEAN
    /\ commands \in Seq(Nat) /\ \A k \in DOMAIN commands : commands[k] \in DOMAIN ops
    /\ active \in [Names -> Nat] /\ \A n \in Names : active[n] # 0 => active[n] \in DOMAIN ops
    /\ waiting \in [Names -> SUBSET Nat] /\ \A n \in Names : waiting[n] \subseteq DOMAIN ops
    /\ live \in [Names -> Frame] /\ moves \in 0..MaxMoves

\* Every edit in the queue exists; before the worker is started there is none.
QueueInv ==
    /\ \A k \in DOMAIN queue : queue[k].kind = "op" => queue[k].id \in DOMAIN ops
    /\ ~started => worker = Idle

\* Generations are handed out one per edit, and a crop that exists has one.
GenInv ==
    /\ \A n \in Names : reserved[n] <= Len(ops)
    /\ \A n \in Names : Exists(defs[n]) => gens[n] >= 0

\* What the worker knows between its critical sections: the edit it was admitted
\* to is still undecided, and what it saved is on disk.
Writes == worker.pc = "save" \/ (worker.pc = "commit" /\ ~worker.err)
WorkInv ==
    /\ worker.pc \in {"admit", "save", "commit"} => worker.item.id \in DOMAIN ops
    /\ worker.pc \in {"admit", "save"} => ~worker.err
    /\ Writes => ops[worker.item.id].admitted /\ ops[worker.item.id].result = "pending"
    /\ worker.pc = "commit" /\ ~worker.err =>
          /\ worker.item.id \in saved
          /\ disk[ops[worker.item.id].name] = worker.def
    /\ worker.pc \in {"flushSave", "flushCommit"} =>
          \E n \in Names : /\ worker.item.names = {n}
                           /\ Exists(worker.def) /\ worker.def.enabled
                           /\ worker.def.window = worker.seq
                           /\ dirty[n] # NoMove /\ dirty[n].gen = gens[n]
                           /\ Exists(defs[n]) /\ defs[n].enabled
                           /\ worker.pc = "flushCommit" => disk[n] = worker.def

\* Memory is the disk but for the one name between a save and its commit.
DiskInv ==
    \A n \in Names :
        \/ defs[n] = disk[n]
        \/ worker.pc = "commit" /\ ~worker.err /\ ops[worker.item.id].name = n
        \/ worker.pc = "flushCommit" /\ worker.item.names = {n}

\* A move is owed only for a crop that is shown, and no sequence number is ahead of
\* the last one accepted.
MoveInv ==
    /\ \A n \in Names :
          /\ owed[n] # 0 => Exists(defs[n]) /\ defs[n].enabled /\ owed[n] <= seqs[n]
          /\ dirty[n].seq <= seqs[n]
    /\ Writes => worker.seq <= seqs[ops[worker.item.id].name]

\* The definition being written carries the move that was pending when it was
\* admitted; a newer one is still pending when it commits.
CarryInv ==
    Writes =>
        LET op == ops[worker.item.id]
            n == op.name IN
        owed[n] # 0 /\ Exists(worker.def) /\ worker.def.enabled
            /\ ~(op.kind = "select" /\ owed[n] <= op.geoSeq) =>
          /\ dirty[n] = NoMove => worker.def.window = owed[n]
          /\ dirty[n] # NoMove /\ dirty[n].seq = worker.seq => worker.def.window = owed[n]

StoreInv ==
    /\ StoreTyped /\ QueueInv /\ GenInv /\ WorkInv
    /\ OneTrueOutcome /\ DiskInv /\ MoveInv /\ CarryInv /\ MovesSurvive
IInv == StoreInv /\ HostTyped

-----------------------------------------------------------------------------
USE CropBounds

\* The constants' own values are of the types the variables have.
LEMMA Constants ==
    /\ NoCrop \in Crops /\ NoCrop \notin Definition
    /\ NoMove \in Moves /\ NoMove \notin Move /\ NoMove.seq = 0
    /\ NoWindow \in Frame /\ Idle \in Worker /\ Offline \in Snapshot
    /\ \A d \in Crops : Exists(d) => d \in Definition
    /\ \A m \in Moves : m # NoMove => m \in Move
    /\ \A m \in Moves : m.seq \in 0..MaxMoves /\ m.gen \in -1..MaxOps /\ (m # NoMove => m.seq > 0)
<1>1. NoCrop \in Crops /\ NoCrop \notin Definition
  BY DEF NoCrop, Crops, Definition
<1>2. NoMove \in Moves /\ NoMove \notin Move /\ NoMove.seq = 0
  BY DEF NoMove, Moves, Move
<1>3. NoWindow \in Frame
  BY DEF NoWindow, Frame
<1>4. Idle \in Worker
  <2>1. NoItem \in Item
    BY DEF NoItem, FlushItem, Item
  <2> QED
    BY <1>1, <2>1 DEF Idle, Worker
<1>5. Offline \in Snapshot
  BY DEF Offline, Snapshot
<1>6. \A m \in Moves : m.seq \in 0..MaxMoves /\ m.gen \in -1..MaxOps /\ (m # NoMove => m.seq > 0)
  <2>1. \A m \in Move : m.seq \in 1..MaxMoves /\ m.gen \in 0..MaxOps
    BY DEF Move
  <2>2. NoMove.seq = 0 /\ NoMove.gen = -1
    BY DEF NoMove
  <2> QED
    BY <2>1, <2>2 DEF Moves
<1> QED
  BY <1>1, <1>2, <1>3, <1>4, <1>5, <1>6 DEF Exists, Crops, Moves

\* The fields of an operation.
LEMMA OperationFields ==
    ASSUME NEW op \in Operation
    PROVE  /\ op.name \in Names /\ op.kind \in {"select", "enable", "disable", "remove"}
           /\ op.session \in 0..MaxRosters /\ op.gen \in 1..MaxOps
           /\ op.geoSeq \in 0..MaxMoves /\ op.value \in 0..MaxMoves
           /\ op.admitted \in BOOLEAN /\ op.result \in {"pending", "ok", "failed"}
  BY DEF Operation

\* Answering an edit with a failure changes nothing else of it.
LEMMA FailKeeps ==
    ASSUME NEW op \in Operation
    PROVE  /\ Fail(op) \in Operation /\ Fail(op).result = "failed"
           /\ Fail(op).name = op.name /\ Fail(op).kind = op.kind /\ Fail(op).gen = op.gen
           /\ Fail(op).geoSeq = op.geoSeq /\ Fail(op).admitted = op.admitted
  BY DEF Fail, Operation

\* Switching off the debounce of a move changes nothing else of it.
LEMMA DisarmKeeps ==
    ASSUME NEW d \in [Names -> Moves], NEW S
    PROVE  /\ Disarm(d, S) \in [Names -> Moves]
           /\ \A n \in Names : /\ Disarm(d, S)[n].seq = d[n].seq
                               /\ Disarm(d, S)[n].gen = d[n].gen
                               /\ Disarm(d, S)[n] = NoMove <=> d[n] = NoMove
<1> SUFFICES ASSUME NEW n \in Names
             PROVE  LET e == [d[n] EXCEPT !.timer = FALSE] IN
                    /\ e \in Moves /\ e.seq = d[n].seq /\ e.gen = d[n].gen
                    /\ e = NoMove <=> d[n] = NoMove
  BY DEF Disarm
<1>1. CASE d[n] = NoMove
  <2>1. [NoMove EXCEPT !.timer = FALSE] = NoMove
    <3>1. NoMove.timer = FALSE
      BY DEF NoMove
    <3> QED
      BY <3>1, Zenon DEF NoMove
  <2> QED
    BY <1>1, <2>1, Constants
<1>2. CASE d[n] \in Move
  <2>1. LET e == [d[n] EXCEPT !.timer = FALSE] IN
        e \in Move /\ e.seq = d[n].seq /\ e.gen = d[n].gen
    BY <1>2 DEF Move
  <2> QED
    BY <1>2, <2>1, Constants DEF Moves
<1> QED
  BY <1>1, <1>2 DEF Moves

\* What else but the worker may do to an edit: queue it, and answer it while it is
\* not admitted or while no worker runs.
Edited(o, p, i) ==
    /\ p[i].name = o[i].name /\ p[i].kind = o[i].kind /\ p[i].gen = o[i].gen
    /\ p[i].geoSeq = o[i].geoSeq /\ p[i].admitted = o[i].admitted
    /\ \/ p[i].result = o[i].result
       \/ /\ o[i].result = "pending" /\ p[i].result = "failed"
          /\ ~o[i].admitted \/ ~started
EditsTo(o, p) ==
    /\ p \in Seq(Operation) /\ Len(p) = Len(o)
    /\ \A i \in DOMAIN o : Edited(o, p, i)

\* A sequence of edits of which some are answered with a failure.
LEMMA FailSome ==
    ASSUME NEW o \in Seq(Operation), NEW p, NEW S,
           p = [i \in DOMAIN o |-> IF i \in S THEN Fail(o[i]) ELSE o[i]],
           \A i \in DOMAIN o : i \in S => o[i].result = "pending" /\ (~o[i].admitted \/ ~started)
    PROVE  EditsTo(o, p)
<1>1. \A i \in DOMAIN o : o[i] \in Operation /\ p[i] \in Operation
  BY FailKeeps
<1>2. p \in Seq(Operation) /\ Len(p) = Len(o)
  BY <1>1
<1>3. \A i \in DOMAIN o : Edited(o, p, i)
  BY <1>1, FailKeeps DEF Edited
<1> QED
  BY <1>2, <1>3 DEF EditsTo

\* The queue holds edits that exist.
Queued(q, o) ==
    /\ q \in Seq(Item)
    /\ \A k \in DOMAIN q : q[k].kind = "op" => q[k].id \in DOMAIN o
SameMoves(d, e) ==
    /\ e \in [Names -> Moves]
    /\ \A n \in Names : /\ e[n].seq = d[n].seq /\ e[n].gen = d[n].gen
                        /\ e[n] = NoMove <=> d[n] = NoMove

\* Starting the worker, or failing to: the edits that waited are answered, the moves
\* stay pending.
LEMMA StartStep ==
    ASSUME StoreTyped, NEW q, NEW o, NEW d, NEW b, Start(q, o, d, b),
           Queued(q, o), o \in Seq(Operation), d \in [Names -> Moves], b \in Seq(Outcomes)
    PROVE  /\ started' \in BOOLEAN /\ (started => started') /\ (~started' => ~started)
           /\ flushOk' \in BOOLEAN /\ faults' \in 0..MaxFaults /\ barriers' \in Seq(Outcomes)
           /\ Queued(queue', ops') /\ EditsTo(o, ops') /\ SameMoves(d, dirty')
<1>1. CASE /\ started' = TRUE /\ queue' = q /\ ops' = o /\ dirty' = d /\ barriers' = b
           /\ UNCHANGED <<flushOk, faults>>
  <2>1. EditsTo(o, ops')
    BY <1>1 DEF EditsTo, Edited
  <2> QED
    BY <1>1, <2>1 DEF SameMoves, StoreTyped
<1>2. CASE
           /\ ~started /\ faults < MaxFaults
           /\ faults' = faults + 1 /\ queue' = <<>> /\ UNCHANGED started
           /\ ops' = [i \in DOMAIN o |-> IF i \in QueuedOps(q) /\ o[i].result = "pending"
                                         THEN Fail(o[i]) ELSE o[i]]
           /\ dirty' = Disarm(d, {n \in Names : d[n] # NoMove})
           /\ barriers' = [k \in DOMAIN b |-> IF k \in QueuedBarriers(q) THEN "false" ELSE b[k]]
           /\ flushOk' = (QueuedBarriers(q) # {} \/ (flushOk /\ \A n \in Names : d[n] = NoMove))
  <2> DEFINE S == {i \in QueuedOps(q) : o[i].result = "pending"}
  <2>1. EditsTo(o, ops')
    <3>1. ops' = [i \in DOMAIN o |-> IF i \in S THEN Fail(o[i]) ELSE o[i]]
      BY <1>2
    <3>2. \A i \in DOMAIN o : i \in S => o[i].result = "pending" /\ ~started
      BY <1>2
    <3> HIDE DEF S
    <3> QED
      BY <3>1, <3>2, FailSome
  <2>2. SameMoves(d, dirty')
    BY <1>2, DisarmKeeps DEF SameMoves
  <2>3. barriers' \in Seq(Outcomes)
    <3>1. \A k \in DOMAIN b : b[k] \in Outcomes
      OBVIOUS
    <3> QED
      BY <1>2, <3>1 DEF Outcomes
  <2>4. flushOk' \in BOOLEAN
    BY <1>2, Zenon
  <2>5. faults' \in 0..MaxFaults
    BY <1>2 DEF StoreTyped
  <2>6. Queued(queue', ops')
    BY <1>2 DEF Queued
  <2> QED
    BY <1>2, <2>1, <2>2, <2>3, <2>4, <2>5, <2>6 DEF StoreTyped
<1> QED
  BY <1>1, <1>2 DEF Start

\* An item put behind a queue that holds edits that exist.
LEMMA QueuedAppend ==
    ASSUME NEW q, NEW o, Queued(q, o), NEW item \in Item, item.kind = "op" => item.id \in DOMAIN o
    PROVE  Queued(Append(q, item), o)
  BY DEF Queued

\* The moves that are due, put behind it.
LEMMA QueuedDue ==
    ASSUME NEW q, NEW o, Queued(q, o), NEW due \in SUBSET Names
    PROVE  Queued(WithDue(q, due), o)
<1>1. FlushItem(due) \in Item /\ FlushItem(due).kind # "op"
  BY DEF FlushItem, Item
<1> QED
  BY <1>1, QueuedAppend DEF WithDue

\* All a step outside the worker does to the store: to the edits, ...
OutsideEdits ==
    /\ ops' \in Seq(Operation) /\ Len(ops') \in Len(ops)..MaxOps
    /\ \A i \in DOMAIN ops : Edited(ops, ops', i)
    /\ \A i \in DOMAIN ops' \ DOMAIN ops : ops'[i].result = "pending"
    /\ Queued(queue', ops')
    /\ reserved' \in [Names -> 0..MaxOps] /\ \A n \in Names : reserved'[n] <= Len(ops')
\* ... to the moves: a newer one, for a crop that is shown, ...
OutsideMoves ==
    /\ dirty' \in [Names -> Moves] /\ seqs' \in [Names -> 0..MaxMoves]
    /\ owed' \in [Names -> 0..MaxMoves]
    /\ \A n \in Names :
          \/ /\ owed'[n] = owed[n] /\ seqs'[n] = seqs[n]
             /\ dirty'[n].seq = dirty[n].seq /\ dirty'[n].gen = dirty[n].gen
             /\ dirty'[n] = NoMove <=> dirty[n] = NoMove
          \/ /\ Exists(defs[n]) /\ defs[n].enabled
             /\ dirty'[n] # NoMove /\ dirty'[n].gen = gens[n]
             /\ dirty'[n].seq = owed'[n] /\ owed'[n] = seqs'[n] /\ seqs'[n] > seqs[n]
\* ... and to the rest: the document, the definitions and the worker are not its own.
OutsideRest ==
    /\ UNCHANGED <<defs, gens, worker, disk, saved, imports>>
    /\ started' \in BOOLEAN /\ (started => started')
    /\ flushOk' \in BOOLEAN /\ faults' \in 0..MaxFaults /\ barriers' \in Seq(Outcomes)
    /\ closing' \in BOOLEAN /\ fenced' \in BOOLEAN /\ epoch' \in 0..MaxEpoch
    /\ rosterSeen' \in Nat /\ sessions' \in Snapshot
Outside == OutsideEdits /\ OutsideMoves /\ OutsideRest

\* The edits as a step leaves them, with what it queued.
LEMMA EditsOutside ==
    ASSUME StoreTyped, GenInv, NEW o \in Seq(Operation), EditsTo(ops, o), EditsTo(o, ops'),
           Queued(queue', ops'), UNCHANGED reserved
    PROVE  OutsideEdits
<1>1. /\ Len(ops) \in 0..MaxOps /\ DOMAIN ops = 1..Len(ops)
      /\ reserved \in [Names -> 0..MaxOps] /\ \A n \in Names : reserved[n] <= Len(ops)
  BY DEF StoreTyped, GenInv
<1>2. /\ Len(o) = Len(ops) /\ Len(ops') = Len(o) /\ DOMAIN o = DOMAIN ops
      /\ DOMAIN ops' = DOMAIN ops /\ ops' \in Seq(Operation)
  BY <1>1 DEF EditsTo
<1>3. \A i \in DOMAIN ops : Edited(ops, ops', i)
  BY <1>2 DEF EditsTo, Edited
<1> QED
  BY <1>1, <1>2, <1>3 DEF OutsideEdits

\* A step that hands in no move, and at most disarms those there are.
LEMMA MovesOutside ==
    ASSUME StoreTyped, SameMoves(dirty, dirty'), UNCHANGED <<seqs, owed>>
    PROVE  OutsideMoves
<1>1. seqs \in [Names -> 0..MaxMoves] /\ owed \in [Names -> 0..MaxMoves]
  BY DEF StoreTyped
<1> QED
  BY <1>1 DEF OutsideMoves, SameMoves

\* What the store is when nothing happens to it.
LEMMA Stays ==
    ASSUME StoreTyped, QueueInv, GenInv, UNCHANGED storeVars
    PROVE  Outside
<1>1. ops \in Seq(Operation) /\ EditsTo(ops, ops) /\ EditsTo(ops, ops')
  BY DEF StoreTyped, EditsTo, Edited, storeVars
<1>2. Queued(queue', ops')
  BY DEF Queued, QueueInv, storeVars, StoreTyped
<1>3. OutsideEdits
  BY <1>1, <1>2, EditsOutside DEF storeVars
<1>4. SameMoves(dirty, dirty')
  BY DEF SameMoves, StoreTyped, storeVars
<1>5. OutsideMoves
  BY <1>4, MovesOutside DEF storeVars
<1>6. OutsideRest
  BY DEF OutsideRest, StoreTyped, storeVars
<1> QED
  BY <1>3, <1>5, <1>6 DEF Outside

\* put, set_enabled and remove.
LEMMA SubmitStep ==
    ASSUME StoreTyped, QueueInv, GenInv, NEW i \in DOMAIN ops, NEW value \in 0..MaxMoves,
           Submit(i, value)
    PROVE  Outside
<1>1. CASE UNCHANGED storeVars
  BY <1>1, Stays
<1>2. CASE ~UNCHANGED storeVars
  <2> DEFINE o == [ops EXCEPT ![i].submitted = TRUE, ![i].value = value]
  <2>1. PICK due \in SUBSET Armed :
              Start(Append(WithDue(queue, due), OpItem(i)), o, Disarm(dirty, due), barriers)
    BY <1>2 DEF Submit
  <2>2. SubmitKeeps
    BY <1>2 DEF Submit
  <2>3. o[i] \in Operation /\ o \in Seq(Operation) /\ EditsTo(ops, o)
    <3>1. o[i] = [ops[i] EXCEPT !.submitted = TRUE, !.value = value] /\ ops[i] \in Operation
      BY DEF StoreTyped
    <3>2. /\ o[i] \in Operation /\ o[i].name = ops[i].name /\ o[i].kind = ops[i].kind
          /\ o[i].gen = ops[i].gen /\ o[i].geoSeq = ops[i].geoSeq
          /\ o[i].admitted = ops[i].admitted /\ o[i].result = ops[i].result
      BY <3>1 DEF Operation
    <3>3. \A j \in DOMAIN ops : j # i => o[j] = ops[j]
      OBVIOUS
    <3>4. o \in Seq(Operation) /\ Len(o) = Len(ops)
      <4>1. \A j \in DOMAIN ops : o[j] \in Operation
        BY <3>2, <3>3 DEF StoreTyped
      <4>2. o = [ops EXCEPT ![i] = o[i]]
        BY <3>1 DEF StoreTyped
      <4>3. ops \in Seq(Operation) /\ i \in 1..Len(ops)
        BY DEF StoreTyped
      <4> HIDE DEF o
      <4> QED
        BY <3>2, <4>2, <4>3, ExceptSeq
    <3> QED
      BY <3>2, <3>3, <3>4 DEF EditsTo, Edited
  <2> HIDE DEF o
  <2>4. Queued(Append(WithDue(queue, due), OpItem(i)), o)
    <3>0. DOMAIN o = DOMAIN ops
      BY <2>3 DEF StoreTyped, EditsTo
    <3>1. Queued(queue, o) /\ due \in SUBSET Names
      BY <3>0 DEF StoreTyped, QueueInv, Queued, Armed
    <3>2. OpItem(i) \in Item /\ OpItem(i).id \in DOMAIN o
      BY <2>3 DEF OpItem, Item, EditsTo, StoreTyped
    <3> QED
      BY <3>1, <3>2, QueuedDue, QueuedAppend
  <2>5. SameMoves(dirty, Disarm(dirty, due))
    <3>1. dirty \in [Names -> Moves]
      BY DEF StoreTyped
    <3> QED
      BY <3>1, DisarmKeeps DEF SameMoves
  <2>6. /\ started' \in BOOLEAN /\ (started => started')
        /\ flushOk' \in BOOLEAN /\ faults' \in 0..MaxFaults /\ barriers' \in Seq(Outcomes)
        /\ Queued(queue', ops') /\ EditsTo(o, ops') /\ SameMoves(Disarm(dirty, due), dirty')
    <3>1. Disarm(dirty, due) \in [Names -> Moves] /\ barriers \in Seq(Outcomes)
      BY <2>5 DEF SameMoves, StoreTyped
    <3> QED
      BY <2>1, <2>3, <2>4, <3>1, StartStep
  <2>7. SameMoves(dirty, dirty')
    BY <2>5, <2>6 DEF SameMoves
  <2>8. OutsideEdits
    BY <2>2, <2>3, <2>6, EditsOutside DEF SubmitKeeps
  <2>9. OutsideMoves
    BY <2>2, <2>7, MovesOutside DEF SubmitKeeps
  <2>10. OutsideRest
    BY <2>2, <2>6 DEF SubmitKeeps, OutsideRest, StoreTyped
  <2> QED
    BY <2>8, <2>9, <2>10 DEF Outside
<1> QED
  BY <1>1, <1>2

\* A step that only answers undecided edits, and keeps what SubmitKeeps keeps.
LEMMA CancelStep ==
    ASSUME StoreTyped, QueueInv, GenInv, NEW S,
           ops' = [i \in DOMAIN ops |-> IF i \in S THEN Fail(ops[i]) ELSE ops[i]],
           \A i \in S : Undecided(ops[i]),
           UNCHANGED <<queue, started, dirty, flushOk, barriers, faults, defs, gens, reserved,
                       worker, seqs, disk, saved, owed, imports>>,
           closing' \in BOOLEAN, fenced' \in BOOLEAN, epoch' \in 0..MaxEpoch,
           rosterSeen' \in Nat, sessions' \in Snapshot
    PROVE  Outside
<1>1. EditsTo(ops, ops')
  <2>1. ops \in Seq(Operation)
    BY DEF StoreTyped
  <2> QED
    BY <2>1, FailSome DEF Undecided
<1>2. EditsTo(ops, ops) /\ ops \in Seq(Operation)
  BY DEF EditsTo, Edited, StoreTyped
<1>3. Queued(queue', ops')
  BY <1>1 DEF QueueInv, Queued, StoreTyped, EditsTo
<1>4. OutsideEdits
  BY <1>1, <1>2, <1>3, EditsOutside
<1>5. SameMoves(dirty, dirty')
  BY DEF SameMoves, StoreTyped
<1>6. OutsideMoves
  BY <1>5, MovesOutside
<1>7. OutsideRest
  BY DEF OutsideRest, StoreTyped
<1> QED
  BY <1>4, <1>6, <1>7 DEF Outside

\* The answer to the edits whose source is gone.
LEMMA CancelStaleStep ==
    ASSUME StoreTyped, QueueInv, GenInv, NEW e, NEW f, NEW s,
           ops' = CancelStale(e, f, s),
           UNCHANGED <<queue, started, dirty, flushOk, barriers, faults, defs, gens, reserved,
                       worker, seqs, disk, saved, owed, imports>>,
           closing' \in BOOLEAN, fenced' \in BOOLEAN, epoch' \in 0..MaxEpoch,
           rosterSeen' \in Nat, sessions' \in Snapshot
    PROVE  Outside
<1> DEFINE S == {i \in DOMAIN ops : Undecided(ops[i]) /\ ~Authorized(ops[i], e, f, s)}
<1>1. ops' = [i \in DOMAIN ops |-> IF i \in S THEN Fail(ops[i]) ELSE ops[i]]
  BY DEF CancelStale
<1>2. \A i \in S : Undecided(ops[i])
  OBVIOUS
<1> HIDE DEF S
<1> QED
  BY <1>1, <1>2, CancelStep

\* The cancellation of one edit.
LEMMA CancelOneStep ==
    ASSUME StoreTyped, QueueInv, GenInv, NEW i \in DOMAIN ops,
           ops' = IF Cancellable(i) THEN [ops EXCEPT ![i] = Fail(@)] ELSE ops,
           UNCHANGED <<queue, started, dirty, flushOk, barriers, faults>>, SubmitKeeps
    PROVE  Outside
<1> DEFINE S == IF Cancellable(i) THEN {i} ELSE {}
<1>1. ops \in Seq(Operation) /\ ops = [j \in DOMAIN ops |-> ops[j]]
  BY DEF StoreTyped
<1>2. ops' = [j \in DOMAIN ops |-> IF j \in S THEN Fail(ops[j]) ELSE ops[j]]
  BY <1>1
<1>3. \A j \in S : Undecided(ops[j])
  BY DEF Cancellable
<1> HIDE DEF S
<1>4. /\ closing' \in BOOLEAN /\ fenced' \in BOOLEAN /\ epoch' \in 0..MaxEpoch
      /\ rosterSeen' \in Nat /\ sessions' \in Snapshot
  BY DEF SubmitKeeps, StoreTyped
<1> QED
  BY <1>2, <1>3, <1>4, CancelStep DEF SubmitKeeps

\* A move of a window that is shown is handed in.
LEMMA RecordStep ==
    ASSUME StoreTyped, QueueInv, GenInv, NEW n \in Names, NEW seq \in 1..MaxMoves,
           NEW era \in 0..MaxImports, RecordGeometry(n, gens[n], seq, era)
    PROVE  Outside
<1> DEFINE move == [gen |-> gens[n], seq |-> seq, era |-> era, timer |-> TRUE]
           d == [dirty EXCEPT ![n] = move]
<1>1. Exists(defs[n]) /\ defs[n].enabled /\ seq > seqs[n]
  BY DEF RecordGeometry, Accepts
<1>2. gens[n] \in 0..MaxOps
  BY <1>1 DEF GenInv, StoreTyped
<1>3. move \in Move /\ move.seq = seq /\ move.gen = gens[n]
  BY <1>2 DEF Move
<1>4. move \in Moves /\ move # NoMove
  BY <1>3, Constants DEF Moves
<1> HIDE DEF move
<1>5. d \in [Names -> Moves] /\ d[n] = move /\ \A m \in Names : m # n => d[m] = dirty[m]
  BY <1>4 DEF StoreTyped
<1> HIDE DEF d
<1>6. Start(queue, ops, d, barriers)
  BY DEF RecordGeometry, move, d
<1>7. /\ ops \in Seq(Operation) /\ barriers \in Seq(Outcomes) /\ EditsTo(ops, ops)
      /\ Queued(queue, ops)
  BY DEF EditsTo, Edited, StoreTyped, Queued, QueueInv
<1>8. /\ started' \in BOOLEAN /\ (started => started')
      /\ flushOk' \in BOOLEAN /\ faults' \in 0..MaxFaults /\ barriers' \in Seq(Outcomes)
      /\ Queued(queue', ops') /\ EditsTo(ops, ops') /\ SameMoves(d, dirty')
  BY <1>5, <1>6, <1>7, StartStep
<1>9. OutsideEdits
  BY <1>7, <1>8, EditsOutside DEF RecordGeometry
<1>10. OutsideMoves
  <2>1. /\ seqs' = [seqs EXCEPT ![n] = seq] /\ owed' = [owed EXCEPT ![n] = seq]
    BY DEF RecordGeometry
  <2>2. seqs \in [Names -> 0..MaxMoves] /\ owed \in [Names -> 0..MaxMoves]
    BY DEF StoreTyped
  <2>3. \A m \in Names \ {n} :
             /\ owed'[m] = owed[m] /\ seqs'[m] = seqs[m]
             /\ dirty'[m].seq = dirty[m].seq /\ dirty'[m].gen = dirty[m].gen
             /\ dirty'[m] = NoMove <=> dirty[m] = NoMove
    BY <1>5, <1>8, <2>1, <2>2 DEF SameMoves
  <2>4. /\ dirty'[n] # NoMove /\ dirty'[n].gen = gens[n]
        /\ dirty'[n].seq = seq /\ owed'[n] = seq /\ seqs'[n] = seq
    BY <1>3, <1>4, <1>5, <1>8, <2>1, <2>2 DEF SameMoves
  <2>5. dirty' \in [Names -> Moves] /\ seqs' \in [Names -> 0..MaxMoves]
        /\ owed' \in [Names -> 0..MaxMoves]
    BY <1>8, <2>1, <2>2 DEF SameMoves
  <2> QED
    BY <1>1, <2>3, <2>4, <2>5 DEF OutsideMoves
<1>11. OutsideRest
  BY <1>8 DEF RecordGeometry, OutsideRest, StoreTyped
<1> QED
  BY <1>9, <1>10, <1>11 DEF Outside

\* drain and close queue a barrier, close answers what it will not let through.
LEMMA BarrierStep ==
    ASSUME StoreTyped, QueueInv, GenInv, NEW o, NEW c \in BOOLEAN,
           o \in Seq(Operation), EditsTo(ops, o),
           Start(Append(queue, BarrierItem(Len(barriers) + 1, c)), o, dirty,
                 Append(barriers, "pending")),
           BarrierKeeps, closing' \in BOOLEAN, fenced' \in BOOLEAN
    PROVE  Outside
<1>1. DOMAIN o = DOMAIN ops /\ Queued(queue, o)
  BY DEF EditsTo, StoreTyped, Queued, QueueInv
<1>2. LET item == BarrierItem(Len(barriers) + 1, c) IN item \in Item /\ item.kind # "op"
  BY DEF BarrierItem, Item, StoreTyped
<1>3. Queued(Append(queue, BarrierItem(Len(barriers) + 1, c)), o)
  BY <1>1, <1>2, QueuedAppend
<1>4. Append(barriers, "pending") \in Seq(Outcomes) /\ dirty \in [Names -> Moves]
  BY DEF StoreTyped, Outcomes
<1>5. /\ started' \in BOOLEAN /\ (started => started')
      /\ flushOk' \in BOOLEAN /\ faults' \in 0..MaxFaults /\ barriers' \in Seq(Outcomes)
      /\ Queued(queue', ops') /\ EditsTo(o, ops') /\ SameMoves(dirty, dirty')
  BY <1>3, <1>4, StartStep
<1>6. OutsideEdits
  BY <1>5, EditsOutside DEF BarrierKeeps
<1>7. OutsideMoves
  BY <1>5, MovesOutside DEF BarrierKeeps
<1>8. OutsideRest
  BY <1>5 DEF BarrierKeeps, OutsideRest, StoreTyped
<1> QED
  BY <1>6, <1>7, <1>8 DEF Outside

\* drain.
LEMMA DrainStep ==
    ASSUME StoreTyped, QueueInv, GenInv, Drain
    PROVE  Outside
<1>1. ops \in Seq(Operation) /\ EditsTo(ops, ops)
  BY DEF StoreTyped, EditsTo, Edited
<1>2. closing' \in BOOLEAN /\ fenced' \in BOOLEAN
  BY DEF Drain, StoreTyped
<1> QED
  BY <1>1, <1>2, BarrierStep DEF Drain

\* close: what was never submitted or needs a source is answered, then the last barrier.
LEMMA CloseStep ==
    ASSUME StoreTyped, QueueInv, GenInv, Close
    PROVE  Outside
<1> DEFINE S == {i \in DOMAIN ops : Undecided(ops[i]) /\ (~ops[i].submitted \/ ops[i].session # 0)}
           o == CloseCancels
<1>1. o = [i \in DOMAIN ops |-> IF i \in S THEN Fail(ops[i]) ELSE ops[i]]
  BY DEF CloseCancels
<1>2. \A i \in S : ops[i].result = "pending" /\ ~ops[i].admitted
  BY DEF Undecided
<1>3. Start(Append(queue, BarrierItem(Len(barriers) + 1, TRUE)), o, dirty,
            Append(barriers, "pending"))
  BY DEF Close
<1> HIDE DEF S, o
<1>4. EditsTo(ops, o) /\ o \in Seq(Operation)
  BY <1>1, <1>2, FailSome DEF StoreTyped, EditsTo
<1>5. closing' \in BOOLEAN /\ fenced' \in BOOLEAN
  BY DEF Close
<1> QED
  BY <1>3, <1>4, <1>5, BarrierStep DEF Close

-----------------------------------------------------------------------------
(* The steps of the host and the pump *)

\* No step takes an edit away, and what it leaves in the store is well typed.
LEMMA OutsideTyped ==
    ASSUME StoreTyped, Outside
    PROVE  StoreTyped' /\ DOMAIN ops \subseteq DOMAIN ops'
<1>1. DOMAIN ops \subseteq DOMAIN ops' /\ Len(ops') <= MaxOps /\ ops' \in Seq(Operation)
  BY DEF StoreTyped, Outside, OutsideEdits
<1>2. saved' \subseteq DOMAIN ops' /\ queue' \in Seq(Item) /\ reserved' \in [Names -> 0..MaxOps]
  BY <1>1 DEF StoreTyped, Outside, OutsideEdits, OutsideRest, Queued
<1>3. /\ dirty' \in [Names -> Moves] /\ seqs' \in [Names -> 0..MaxMoves]
      /\ owed' \in [Names -> 0..MaxMoves]
  BY DEF Outside, OutsideMoves
<1>4. /\ defs' \in [Names -> Crops] /\ disk' \in [Names -> Crops]
      /\ gens' \in [Names -> -1..MaxOps] /\ worker' \in Worker /\ imports' \in 0..MaxImports
      /\ started' \in BOOLEAN /\ fenced' \in BOOLEAN /\ flushOk' \in BOOLEAN
      /\ closing' \in BOOLEAN /\ epoch' \in 0..MaxEpoch /\ rosterSeen' \in Nat
      /\ sessions' \in Snapshot /\ barriers' \in Seq(Outcomes) /\ faults' \in 0..MaxFaults
  BY DEF StoreTyped, Outside, OutsideRest
<1> QED
  BY <1>1, <1>2, <1>3, <1>4 DEF StoreTyped

\* The snapshot the host sees is one that was published.
LEMMA NowTyped ==
    ASSUME HostTyped
    PROVE  Now \in Snapshot
<1>1. roster # <<>> => Len(roster) \in DOMAIN roster
  BY DEF HostTyped
<1>2. \A k \in DOMAIN roster : roster[k] \in Snapshot
  BY DEF HostTyped
<1> QED
  BY <1>1, <1>2, Constants DEF Now

\* The edit that is taken next is one that waits.
LEMMA EldestIn ==
    ASSUME NEW S \in SUBSET Nat, S # {}
    PROVE  Eldest(S) \in S
<1>1. PICK i \in S : \A j \in S : ~(<<j, i>> \in OpToRel(<, Nat))
  BY NatLessThanWellFounded, WFMin
<1>2. \A j \in S : i <= j
  <2>1. \A j \in S : ~(j < i)
    <3>1. \A j \in S : j \in Nat /\ i \in Nat
      OBVIOUS
    <3>2. \A j \in S : j < i => <<j, i>> \in OpToRel(<, Nat)
      BY <3>1, Zenon DEF OpToRel
    <3> QED
      BY <1>1, <3>2, Zenon
  <2> TAKE j \in S
  <2>2. j \in Nat /\ i \in Nat
    OBVIOUS
  <2>3. ~(j < i)
    BY <2>1
  <2> QED
    BY <2>2, <2>3, SMT
<1> QED
  BY <1>2 DEF Eldest

\* request_crop: a new edit, undecided, with the name's next generation.
LEMMA RequestStep ==
    ASSUME StoreTyped, HostTyped, QueueInv, GenInv,
           NEW n \in Names, NEW kind \in {"select", "enable", "disable", "remove"},
           Request(n, kind)
    PROVE  Outside /\ Len(ops) + 1 \in DOMAIN ops'
<1> DEFINE session == IF pump = "running" /\ kind \in {"select", "enable"} THEN Now[n] ELSE 0
           geo == IF dirty[n] # NoMove THEN dirty[n].seq - 1 ELSE seqs[n]
           op == [name |-> n, kind |-> kind, session |-> session, epoch |-> epoch,
                  gen |-> reserved[n] + 1, geoSeq |-> geo,
                  value |-> 0, submitted |-> FALSE, admitted |-> FALSE, result |-> "pending"]
<1>1. session \in 0..MaxRosters
  BY NowTyped DEF Snapshot
<1>2. geo \in 0..MaxMoves
  <2>1. dirty[n] \in Moves /\ seqs[n] \in 0..MaxMoves
    BY DEF StoreTyped
  <2> QED
    BY <2>1, Constants
<1>3. /\ reserved[n] \in Nat /\ reserved[n] <= Len(ops) /\ Len(ops) \in Nat
      /\ reserved[n] + 1 \in 1..MaxOps /\ epoch \in 1..MaxEpoch
  <2>1. Len(ops) \in Nat /\ reserved[n] \in 0..MaxOps /\ epoch \in 0..MaxEpoch
    BY DEF StoreTyped
  <2>2. epoch > 0 /\ Len(ops) < MaxOps /\ reserved[n] <= Len(ops)
    BY DEF Request, Begin, GenInv
  <2> QED
    BY <2>1, <2>2
<1> HIDE DEF session, geo
<1>4. op \in Operation
  BY <1>1, <1>2, <1>3 DEF Operation
<1>5. ops' = Append(ops, op) /\ op.result = "pending"
  BY DEF Request, Begin, session, geo
<1> HIDE DEF op
<1>6. /\ ops \in Seq(Operation) /\ ops' \in Seq(Operation) /\ Len(ops') = Len(ops) + 1
      /\ Len(ops) + 1 \in Len(ops)..MaxOps /\ DOMAIN ops = 1..Len(ops)
      /\ DOMAIN ops' = 1..(Len(ops) + 1)
      /\ \A i \in DOMAIN ops : ops'[i] = ops[i] /\ ops'[Len(ops) + 1] = op
  <2>1. ops \in Seq(Operation) /\ Len(ops) < MaxOps
    BY DEF StoreTyped, Request, Begin
  <2> QED
    BY <1>4, <1>5, <2>1
<1>7. OutsideEdits
  <2>1. \A i \in DOMAIN ops : Edited(ops, ops', i)
    BY <1>6 DEF Edited
  <2>2. \A i \in DOMAIN ops' \ DOMAIN ops : ops'[i].result = "pending"
    BY <1>4, <1>5, <1>6
  <2>3. Queued(queue', ops')
    BY <1>6 DEF Queued, QueueInv, StoreTyped, Request
  <2>4. reserved' \in [Names -> 0..MaxOps] /\ \A m \in Names : reserved'[m] <= Len(ops) + 1
    <3>1. reserved' = [reserved EXCEPT ![n] = reserved[n] + 1]
      BY DEF Request, Begin
    <3>2. /\ reserved \in [Names -> 0..MaxOps] /\ Len(ops) \in Nat
          /\ \A m \in Names : reserved[m] <= Len(ops)
      BY <1>3 DEF StoreTyped, GenInv
    <3>3. reserved[n] + 1 \in 0..MaxOps /\ reserved[n] + 1 <= Len(ops) + 1
      BY <1>3
    <3> QED
      BY <3>1, <3>2, <3>3
  <2> QED
    BY <1>6, <2>1, <2>2, <2>3, <2>4 DEF OutsideEdits
<1>8. OutsideMoves
  <2>1. SameMoves(dirty, dirty') /\ UNCHANGED <<seqs, owed>>
    BY DEF SameMoves, Request, StoreTyped
  <2> QED
    BY <2>1, MovesOutside
<1>9. OutsideRest
  BY DEF OutsideRest, Request, Begin, StoreTyped
<1> QED
  BY <1>6, <1>7, <1>8, <1>9 DEF Outside

\* _start: an edit is discarded, submitted, or shown its picker.
LEMMA StartEditStep ==
    ASSUME StoreTyped, HostTyped, QueueInv, GenInv, NEW i \in DOMAIN ops, StartEdit(i)
    PROVE  /\ Outside
           /\ active' \in [Names -> Nat]
           /\ \A n \in Names : active'[n] = active[n] \/ active'[n] = i
           /\ live' \in [Names -> Frame]
<1>1. ops[i].name \in Names /\ i \in Nat
  BY OperationFields DEF StoreTyped
<1>2. CASE Discarded(ops[i])
  <2>1. Outside
    BY <1>2, CancelOneStep DEF StartEdit
  <2> QED
    BY <1>2, <2>1 DEF StartEdit, HostTyped
<1>3. CASE ~Discarded(ops[i])
  <2>1. Outside
    BY <1>3, Stays, SubmitStep DEF StartEdit
  <2>2. active' \in [Names -> Nat] /\ \A n \in Names : active'[n] = active[n] \/ active'[n] = i
    BY <1>1, <1>3 DEF StartEdit, HostTyped
  <2>3. live' \in [Names -> Frame]
    BY <1>1, <1>3, Constants DEF StartEdit, HostTyped
  <2> QED
    BY <2>1, <2>2, <2>3
<1> QED
  BY <1>2, <1>3

\* A step of the host, its commands, or the pump: what it may do to the store, and
\* the host's own variables keep their types.
LEMMA HostStepOutside ==
    ASSUME StoreTyped, HostTyped, QueueInv, GenInv, HostStep
    PROVE  Outside /\ HostTyped'
<1> DEFINE Typed ==
        /\ active \in [Names -> Nat] /\ \A n \in Names : active[n] # 0 => active[n] \in DOMAIN ops
        /\ waiting \in [Names -> SUBSET Nat] /\ \A n \in Names : waiting[n] \subseteq DOMAIN ops
<1>0. /\ roster \in Seq(Snapshot) /\ Len(roster) <= MaxRosters /\ final \in BOOLEAN
      /\ pump \in {"stopped", "running", "asked", "stopping", "draining"}
      /\ commands \in Seq(Nat) /\ \A k \in DOMAIN commands : commands[k] \in DOMAIN ops
      /\ live \in [Names -> Frame] /\ moves \in 0..MaxMoves /\ Typed
  BY DEF HostTyped
<1>1. ASSUME DOMAIN ops \subseteq DOMAIN ops', UNCHANGED <<active, waiting>>
      PROVE  Typed'
  BY <1>0, <1>1
<1> HIDE DEF Typed
<1>2. ASSUME Typed',
             /\ roster' \in Seq(Snapshot) /\ Len(roster') <= MaxRosters /\ final' \in BOOLEAN
             /\ pump' \in {"stopped", "running", "asked", "stopping", "draining"}
             /\ commands' \in Seq(Nat) /\ \A k \in DOMAIN commands' : commands'[k] \in DOMAIN ops'
             /\ live' \in [Names -> Frame] /\ moves' \in 0..MaxMoves
      PROVE  HostTyped'
  BY <1>2 DEF HostTyped, Typed
<1>3. ASSUME Outside, UNCHANGED commands
      PROVE  /\ DOMAIN ops \subseteq DOMAIN ops' /\ commands' \in Seq(Nat)
             /\ \A k \in DOMAIN commands' : commands'[k] \in DOMAIN ops'
  BY <1>0, <1>3, OutsideTyped
<1>4. CASE \E n \in Names : Publish(n)
  <2>1. PICK n \in Names : Publish(n)
    BY <1>4
  <2>2. Outside
    BY <2>1, Stays DEF Publish
  <2>3. roster' \in Seq(Snapshot) /\ Len(roster') <= MaxRosters
    <3>1. Len(roster) \in Nat /\ Len(roster) < MaxRosters
      BY <1>0, <2>1 DEF Publish
    <3>2. (IF Now[n] = 0 THEN Len(roster) + 1 ELSE 0) \in 0..MaxRosters
      BY <3>1
    <3>3. [Now EXCEPT ![n] = IF Now[n] = 0 THEN Len(roster) + 1 ELSE 0] \in Snapshot
      BY <3>2, NowTyped DEF Snapshot
    <3> QED
      BY <1>0, <2>1, <3>1, <3>3 DEF Publish
  <2> QED
    BY <1>0, <1>1, <1>2, <1>3, <2>1, <2>2, <2>3 DEF Publish
<1>5. CASE \E n \in Names : MoveWindow(n)
  <2>1. PICK n \in Names : MoveWindow(n)
    BY <1>5
  <2>2. moves + 1 \in 1..MaxMoves /\ live[n].era \in 0..MaxImports
    BY <1>0, <2>1 DEF MoveWindow, Frame
  <2>3. \/ RecordGeometry(n, gens[n], moves + 1, live[n].era)
        \/ UNCHANGED storeVars
    BY <2>1 DEF MoveWindow
  <2>4. Outside
    BY <2>2, <2>3, Stays, RecordStep
  <2>5. moves' \in 0..MaxMoves
    BY <2>1, <2>2 DEF MoveWindow
  <2> QED
    BY <1>0, <1>1, <1>2, <1>3, <2>1, <2>4, <2>5 DEF MoveWindow
<1>6. CASE \E e \in 1..epoch, k \in DOMAIN roster : Deliver(e, k)
  <2>1. PICK e \in 1..epoch, k \in DOMAIN roster : Deliver(e, k)
    BY <1>6
  <2>2. roster[k] \in Snapshot /\ k \in Nat
    BY <1>0
  <2>3. Outside
    <3>1. ops' = CancelStale(epoch, fenced, roster[k])
      BY <2>1 DEF Deliver, ObserveRoster
    <3>2. /\ closing' \in BOOLEAN /\ fenced' \in BOOLEAN /\ epoch' \in 0..MaxEpoch
          /\ rosterSeen' \in Nat /\ sessions' \in Snapshot
      BY <2>1, <2>2 DEF Deliver, ObserveRoster, StoreTyped
    <3> QED
      BY <2>1, <3>1, <3>2, CancelStaleStep DEF Deliver
  <2> QED
    BY <1>0, <1>1, <1>2, <1>3, <2>1, <2>3 DEF Deliver, StoreOnly, hostVars
<1>7. CASE \E n \in Names, kind \in {"select", "enable", "disable", "remove"} : Request(n, kind)
  <2>1. PICK n \in Names, kind \in {"select", "enable", "disable", "remove"} : Request(n, kind)
    BY <1>7
  <2>2. Outside /\ Len(ops) + 1 \in DOMAIN ops' /\ DOMAIN ops \subseteq DOMAIN ops'
    BY <2>1, RequestStep, OutsideTyped
  <2>3. commands' \in Seq(Nat) /\ \A k \in DOMAIN commands' : commands'[k] \in DOMAIN ops'
    <3>1. Len(ops) + 1 \in Nat /\ commands' = Append(commands, Len(ops) + 1)
      BY <2>1 DEF StoreTyped, Request
    <3> QED
      BY <1>0, <2>2, <3>1
  <2> QED
    BY <1>0, <1>1, <1>2, <2>1, <2>2, <2>3 DEF Request
<1>8. CASE OfflineClose
  <2>1. Outside
    BY <1>8, CloseStep DEF OfflineClose
  <2> QED
    BY <1>0, <1>1, <1>2, <1>3, <1>8, <2>1 DEF OfflineClose
<1>9. CASE StartPump
  <2>1. ops' = CancelStale(epoch + 1, FALSE, sessions')
    BY <1>9 DEF StartPump, OpenEpoch
  <2>2. /\ closing' \in BOOLEAN /\ fenced' \in BOOLEAN /\ epoch' \in 0..MaxEpoch
        /\ rosterSeen' \in Nat /\ sessions' \in Snapshot
    <3>1. sessions' \in Snapshot
      BY <1>9, Constants DEF StartPump, OpenEpoch, Offline
    <3>2. epoch \in 0..MaxEpoch /\ epoch < MaxEpoch
      BY <1>9 DEF StartPump, StoreTyped
    <3>3. epoch + 1 \in 0..MaxEpoch
      BY <3>2
    <3> QED
      BY <1>9, <3>1, <3>3 DEF StartPump, OpenEpoch, StoreTyped
  <2>3. Outside
    BY <1>9, <2>1, <2>2, CancelStaleStep DEF StartPump
  <2> QED
    BY <1>0, <1>1, <1>2, <1>3, <1>9, <2>3 DEF StartPump
<1>10. CASE \E exit \in BOOLEAN : StopPump(exit)
  <2>1. PICK exit \in BOOLEAN : StopPump(exit)
    BY <1>10
  <2>2. ops' = CancelStale(epoch, TRUE, sessions) /\ fenced' = TRUE
    BY <2>1 DEF StopPump, FenceEpoch
  <2>3. /\ closing' \in BOOLEAN /\ fenced' \in BOOLEAN /\ epoch' \in 0..MaxEpoch
        /\ rosterSeen' \in Nat /\ sessions' \in Snapshot
    BY <2>1, <2>2 DEF StopPump, StoreTyped
  <2>4. Outside
    BY <2>1, <2>2, <2>3, CancelStaleStep DEF StopPump
  <2>5. pump' \in {"stopped", "running", "asked", "stopping", "draining"} /\ final' \in BOOLEAN
    BY <1>0, <2>1 DEF StopPump
  <2> QED
    BY <1>0, <1>1, <1>2, <1>3, <2>1, <2>4, <2>5 DEF StopPump
<1> QED
  BY <1>4, <1>5, <1>6, <1>7, <1>8, <1>9, <1>10 DEF HostStep

\* The same of the pump's turns and the picker.
LEMMA HandlersOutside ==
    ASSUME StoreTyped, HostTyped, QueueInv, GenInv, Handlers \/ Picker
    PROVE  Outside /\ HostTyped'
<1> DEFINE Orders == commands \in Seq(Nat) /\ \A k \in DOMAIN commands : commands[k] \in DOMAIN ops
           Current == /\ active \in [Names -> Nat]
                      /\ \A n \in Names : active[n] # 0 => active[n] \in DOMAIN ops
           Waiting == /\ waiting \in [Names -> SUBSET Nat]
                      /\ \A n \in Names : waiting[n] \subseteq DOMAIN ops
           Rest == /\ roster \in Seq(Snapshot) /\ Len(roster) <= MaxRosters
                   /\ pump \in {"stopped", "running", "asked", "stopping", "draining"}
                   /\ final \in BOOLEAN /\ moves \in 0..MaxMoves
           Windows == live \in [Names -> Frame]
<1>0. Orders /\ Current /\ Waiting /\ Rest /\ Windows
  BY DEF HostTyped
<1>1. ASSUME Orders', Current', Waiting', Rest', Windows'
      PROVE  HostTyped'
  BY <1>1 DEF HostTyped
<1>2. ASSUME Outside
      PROVE  /\ DOMAIN ops \subseteq DOMAIN ops'
             /\ UNCHANGED commands => Orders'
             /\ commands' = Tail(commands) /\ commands # <<>> => Orders'
             /\ UNCHANGED active => Current'
             /\ UNCHANGED waiting => Waiting'
  <2>1. DOMAIN ops \subseteq DOMAIN ops'
    BY <1>2, OutsideTyped
  <2>2. commands' = Tail(commands) /\ commands # <<>> => Orders'
    <3> HAVE commands' = Tail(commands) /\ commands # <<>>
    <3>1. /\ commands' \in Seq(Nat)
          /\ \A k \in DOMAIN commands' : /\ k + 1 \in DOMAIN commands
                                         /\ commands'[k] = commands[k + 1]
      BY <1>0
    <3> QED
      BY <1>0, <2>1, <3>1
  <2> QED
    BY <1>0, <2>1, <2>2
<1>3. /\ PumpKeeps => Rest'
      /\ UNCHANGED live => Windows'
  BY <1>0 DEF PumpKeeps
<1>4. ASSUME commands # <<>>
      PROVE  Head(commands) \in DOMAIN ops /\ ops[Head(commands)] \in Operation
  BY <1>0, <1>4 DEF StoreTyped
<1>5. ASSUME NEW n \in Names, active[n] # 0
      PROVE  active[n] \in DOMAIN ops /\ ops[active[n]] \in Operation
  <2>1. active[n] \in DOMAIN ops
    BY <1>0, <1>5
  <2>2. ops \in Seq(Operation)
    BY DEF StoreTyped
  <2> QED
    BY <2>1, <2>2
<1>6. ASSUME Outside, NEW n \in Names, active' = [active EXCEPT ![n] = 0]
      PROVE  Current'
  BY <1>0, <1>2, <1>6
<1> HIDE DEF Orders, Current, Waiting, Rest, Windows
<1>10. CASE OfflineCommand
  <2>1. Head(commands) \in DOMAIN ops
    BY <1>4, <1>10 DEF OfflineCommand
  <2>2. Outside
    BY <1>10, <2>1, CancelOneStep, SubmitStep DEF OfflineCommand
  <2> QED
    BY <1>0, <1>1, <1>2, <1>3, <1>10, <2>2 DEF OfflineCommand
<1>11. CASE PumpCommand
  <2> DEFINE i == Head(commands)
             n == ops[i].name
             gone == Superseded(n, i)
  <2>1. i \in DOMAIN ops /\ n \in Names /\ i \in Nat
    <3>1. i \in DOMAIN ops /\ ops[i] \in Operation
      BY <1>4, <1>11 DEF PumpCommand
    <3>2. DOMAIN ops \subseteq Nat
      BY DEF StoreTyped
    <3> HIDE DEF i
    <3> QED
      BY <3>1, <3>2, OperationFields
  <2>2. commands # <<>> /\ commands' = Tail(commands) /\ PumpKeeps
    BY <1>11 DEF PumpCommand
  <2>3. \/ UNCHANGED <<storeVars, active, waiting, live>>
        \/ StartEdit(i) /\ UNCHANGED waiting
        \/ /\ ops' = [j \in DOMAIN ops |-> IF j \in gone THEN Fail(ops[j]) ELSE ops[j]]
           /\ active' = IF active[n] \in gone THEN [active EXCEPT ![n] = 0] ELSE active
           /\ waiting' = [waiting EXCEPT ![n] = (@ \ gone) \cup {i}]
           /\ UNCHANGED <<queue, started, dirty, flushOk, barriers, faults, live>>
           /\ SubmitKeeps
    BY <1>11 DEF PumpCommand
  <2>4. \A j \in gone : Undecided(ops[j])
    BY DEF Superseded, Cancellable
  <2> HIDE DEF i, n, gone
  <2>5. CASE UNCHANGED <<storeVars, active, waiting, live>>
    <3>1. Outside
      BY <2>5, Stays
    <3> QED
      BY <1>0, <1>1, <1>2, <1>3, <2>2, <2>5, <3>1
  <2>6. CASE StartEdit(i) /\ UNCHANGED waiting
    <3>1. /\ Outside
          /\ active' \in [Names -> Nat]
          /\ \A m \in Names : active'[m] = active[m] \/ active'[m] = i
          /\ live' \in [Names -> Frame]
      BY <2>1, <2>6, StartEditStep
    <3>2. Current' /\ Windows'
      BY <1>0, <1>2, <2>1, <3>1 DEF Current, Windows
    <3> QED
      BY <1>0, <1>1, <1>2, <1>3, <2>2, <2>6, <3>1, <3>2
  <2>7. CASE
           /\ ops' = [j \in DOMAIN ops |-> IF j \in gone THEN Fail(ops[j]) ELSE ops[j]]
           /\ active' = IF active[n] \in gone THEN [active EXCEPT ![n] = 0] ELSE active
           /\ waiting' = [waiting EXCEPT ![n] = (@ \ gone) \cup {i}]
           /\ UNCHANGED <<queue, started, dirty, flushOk, barriers, faults, live>>
           /\ SubmitKeeps
    <3>1. /\ closing' \in BOOLEAN /\ fenced' \in BOOLEAN /\ epoch' \in 0..MaxEpoch
          /\ rosterSeen' \in Nat /\ sessions' \in Snapshot
      BY <2>7 DEF SubmitKeeps, StoreTyped
    <3>2. Outside
      BY <2>4, <2>7, <3>1, CancelStep DEF SubmitKeeps
    <3>3. Current'
      BY <1>2, <1>6, <2>1, <2>7, <3>2
    <3>4. Waiting'
      BY <1>0, <1>2, <2>1, <2>7, <3>2 DEF Waiting
    <3> QED
      BY <1>0, <1>1, <1>2, <1>3, <2>2, <2>7, <3>2, <3>3, <3>4
  <2> QED
    BY <2>3, <2>5, <2>6, <2>7
<1>12. CASE Reconcile
  <2>1. Outside
    BY <1>12, Stays DEF Reconcile
  <2>2. Windows'
    <3>1. \A n \in Names : gens[n] >= 0 => Window(n, gens[n]) \in Frame
      <4>1. Now \in [Names -> 0..MaxRosters] /\ gens \in [Names -> -1..MaxOps]
            /\ imports \in 0..MaxImports
        BY NowTyped DEF Snapshot, StoreTyped
      <4> QED
        BY <4>1 DEF Window, Frame
    <3>2. \A n \in Names : live[n] \in Frame
      BY <1>0 DEF Windows
    <3>3. live' = [n \in Names |->
                  CASE LiveFor(n) /\ Keep(n) -> live[n]
                    [] Shown(n) /\ ~Submitted(n) /\ gens[n] >= 0 -> Window(n, gens[n])
                    [] OTHER -> NoWindow]
      BY <1>12 DEF Reconcile
    <3> QED
      BY <3>1, <3>2, <3>3, Constants DEF Windows
  <2> QED
    BY <1>0, <1>1, <1>2, <1>3, <1>12, <2>1, <2>2 DEF Reconcile
<1>13. CASE BeginStop
  <2>1. Outside
    BY <1>13, Stays DEF BeginStop
  <2> QED
    BY <1>0, <1>1, <1>2, <1>3, <1>13, <2>1 DEF BeginStop, Rest
<1>14. CASE StopSubmit
  <2> DEFINE configs == {i \in Left : ops[i].session = 0}
  <2>1. configs # {} /\ Submit(Eldest(configs), 0) /\ StoreOnly
    BY <1>14 DEF StopSubmit
  <2>2. configs \in SUBSET DOMAIN ops /\ configs \in SUBSET Nat
    BY DEF Left, StoreTyped
  <2> HIDE DEF configs
  <2>3. Eldest(configs) \in DOMAIN ops
    BY <2>1, <2>2, EldestIn
  <2>4. Outside
    BY <2>1, <2>3, SubmitStep
  <2> QED
    BY <1>0, <1>1, <1>2, <1>3, <2>1, <2>4 DEF StoreOnly, hostVars, PumpKeeps
<1>15. CASE StopBarrier
  <2>1. Outside
    BY <1>15, CloseStep, DrainStep DEF StopBarrier
  <2>2. Orders' /\ Current' /\ Waiting'
    BY <1>15 DEF StopBarrier, Orders, Current, Waiting
  <2>3. Rest' /\ Windows'
    BY <1>0, <1>15 DEF StopBarrier, Rest, Windows
  <2> QED
    BY <1>1, <2>1, <2>2, <2>3
<1>16. CASE LateClose
  <2>1. Outside
    BY <1>16, CloseStep DEF LateClose
  <2> QED
    BY <1>0, <1>1, <1>2, <1>3, <1>16, <2>1 DEF LateClose, StoreOnly, hostVars, PumpKeeps
<1>17. CASE FinishStop
  <2>1. Outside
    BY <1>17, Stays DEF FinishStop
  <2>2. Rest' /\ Windows'
    BY <1>0, <1>17, Constants DEF FinishStop, Rest, Windows
  <2> QED
    BY <1>0, <1>1, <1>2, <1>17, <2>1, <2>2 DEF FinishStop
<1>18. CASE \E n \in Names : Advance(n)
  <2>1. PICK n \in Names : Advance(n)
    BY <1>18
  <2> DEFINE i == Eldest(waiting[n])
  <2>2. i \in waiting[n] /\ i \in DOMAIN ops /\ i \in Nat
    <3>1. waiting[n] \in SUBSET Nat /\ waiting[n] # {} /\ waiting[n] \subseteq DOMAIN ops
      BY <1>0, <2>1 DEF Advance, Waiting
    <3> QED
      BY <3>1, EldestIn
  <2>3. StartEdit(i) /\ waiting' = [waiting EXCEPT ![n] = waiting[n] \ {i}]
        /\ UNCHANGED commands /\ PumpKeeps
    BY <2>1 DEF Advance
  <2> HIDE DEF i
  <2>4. /\ Outside
        /\ active' \in [Names -> Nat]
        /\ \A m \in Names : active'[m] = active[m] \/ active'[m] = i
        /\ live' \in [Names -> Frame]
    BY <2>2, <2>3, StartEditStep
  <2>5. Current' /\ Windows'
    BY <1>0, <1>2, <2>2, <2>4 DEF Current, Windows
  <2>6. Waiting'
    BY <1>0, <1>2, <2>3, <2>4 DEF Waiting
  <2> QED
    BY <1>0, <1>1, <1>2, <1>3, <2>3, <2>4, <2>5, <2>6
<1>19. CASE \E n \in Names : Complete(n)
  <2>1. PICK n \in Names : Complete(n)
    BY <1>19
  <2>2. Outside
    BY <2>1, Stays DEF Complete
  <2>3. Current'
    BY <1>6, <2>1, <2>2 DEF Complete
  <2>4. Windows'
    <3> DEFINE op == ops[active[n]]
               mine == op.result = "ok" /\ Shown(n) /\ gens[n] = op.gen
               kept == op.kind = "enable" /\ live[n].session = Now[n]
               w == CASE mine /\ kept -> [live[n] EXCEPT !.gen = op.gen]
                      [] mine /\ ~kept /\ op.session # 0 /\ PumpAuthorized(op) ->
                             Window(n, op.gen)
                      [] OTHER -> live[n]
    <3>1. op.gen \in -1..MaxOps /\ live[n] \in Frame
      <4>1. op.gen \in 1..MaxOps
        BY <1>5, <2>1, OperationFields DEF Complete, Submitted
      <4> QED
        BY <1>0, <4>1 DEF Windows
    <3>2. Window(n, op.gen) \in Frame
      <4>1. Now[n] \in 0..MaxRosters /\ imports \in 0..MaxImports
        BY NowTyped DEF Snapshot, StoreTyped
      <4> QED
        BY <3>1, <4>1 DEF Window, Frame
    <3>3. [live[n] EXCEPT !.gen = op.gen] \in Frame
      BY <3>1 DEF Frame
    <3>4. live' = [live EXCEPT ![n] = w]
      BY <2>1 DEF Complete
    <3>5. w \in Frame
      BY <3>1, <3>2, <3>3
    <3> HIDE DEF w
    <3> QED
      BY <1>0, <3>4, <3>5 DEF Windows
  <2> QED
    BY <1>0, <1>1, <1>2, <1>3, <2>1, <2>2, <2>3, <2>4 DEF Complete
<1>20. CASE \E n \in Names : Confirm(n)
  <2>1. PICK n \in Names : Confirm(n)
    BY <1>20
  <2>2. active[n] \in DOMAIN ops
    BY <1>5, <2>1 DEF Confirm, Selecting
  <2>3. (IF Exists(defs[n]) THEN defs[n].window ELSE 0) \in 0..MaxMoves
    <3>1. defs[n] \in Crops
      BY DEF StoreTyped
    <3>2. Exists(defs[n]) => defs[n].window \in 0..MaxMoves
      BY <3>1, Constants DEF Definition
    <3> QED
      BY <3>2
  <2>4. Outside
    BY <2>1, <2>2, <2>3, SubmitStep DEF Confirm
  <2>5. Current'
    BY <1>2, <1>6, <2>1, <2>4 DEF Confirm
  <2> QED
    BY <1>0, <1>1, <1>2, <1>3, <2>1, <2>4, <2>5 DEF Confirm
<1>21. CASE \E n \in Names : PickerCancel(n)
  <2>1. PICK n \in Names : PickerCancel(n)
    BY <1>21
  <2>2. active[n] \in DOMAIN ops
    BY <1>5, <2>1 DEF PickerCancel, Selecting
  <2>4. Outside
    BY <2>1, <2>2, CancelOneStep DEF PickerCancel
  <2>5. Current'
    BY <1>6, <2>1, <2>4 DEF PickerCancel
  <2> QED
    BY <1>0, <1>1, <1>2, <1>3, <2>1, <2>4, <2>5 DEF PickerCancel
<1> QED
  BY <1>10, <1>11, <1>12, <1>13, <1>14, <1>15, <1>16, <1>17, <1>18, <1>19, <1>20, <1>21
     DEF Handlers, Picker

-----------------------------------------------------------------------------
(* What a step outside the worker leaves true *)

\* An edit the worker is writing, or has written, is not answered by anyone else.
LEMMA OutsideOps ==
    ASSUME StoreTyped, QueueInv, WorkInv, Outside
    PROVE  /\ \A i \in DOMAIN ops : i \in DOMAIN ops' /\ Edited(ops, ops', i)
           /\ UNCHANGED worker /\ (Writes <=> Writes')
           /\ Writes => /\ worker.item.id \in DOMAIN ops
                        /\ ops'[worker.item.id].result = "pending"
                        /\ ops'[worker.item.id].admitted
<1>1. \A i \in DOMAIN ops : i \in DOMAIN ops' /\ Edited(ops, ops', i)
  BY OutsideTyped DEF Outside, OutsideEdits
<1>2. UNCHANGED worker /\ (Writes <=> Writes')
  BY DEF Outside, OutsideRest, Writes
<1>3. ASSUME Writes
      PROVE  /\ worker.item.id \in DOMAIN ops
             /\ ops'[worker.item.id].result = "pending" /\ ops'[worker.item.id].admitted
  <2>1. /\ worker.item.id \in DOMAIN ops
        /\ ops[worker.item.id].admitted /\ ops[worker.item.id].result = "pending"
    BY <1>3 DEF WorkInv, Writes
  <2>2. started
    BY <1>3 DEF Writes, QueueInv, Idle
  <2> QED
    BY <1>1, <2>1, <2>2 DEF Edited
<1> QED
  BY <1>1, <1>2, <1>3

\* The queue and the generations.
LEMMA OutsideKeepsQueue ==
    ASSUME QueueInv, GenInv, Outside
    PROVE  QueueInv' /\ GenInv'
<1>1. QueueInv'
  BY DEF QueueInv, Outside, OutsideEdits, OutsideRest, Queued
<1>2. GenInv'
  BY DEF GenInv, Outside, OutsideEdits, OutsideRest
<1> QED
  BY <1>1, <1>2

\* What the worker knows stays true under any step that is not its own.
LEMMA OutsideKeepsWork ==
    ASSUME StoreTyped, QueueInv, WorkInv, Outside
    PROVE  WorkInv'
<1>1. /\ \A i \in DOMAIN ops : i \in DOMAIN ops' /\ ops'[i].name = ops[i].name
      /\ UNCHANGED <<worker, saved, disk, defs, gens>>
      /\ \A n \in Names : /\ dirty[n] # NoMove => dirty'[n] # NoMove
                          /\ dirty'[n].gen \in {dirty[n].gen, gens[n]}
  BY OutsideOps DEF Edited, Outside, OutsideRest, OutsideMoves
<1>2. /\ worker'.pc \in {"admit", "save", "commit"} => worker'.item.id \in DOMAIN ops'
      /\ worker'.pc \in {"admit", "save"} => ~worker'.err
      /\ Writes' => ops'[worker'.item.id].admitted /\ ops'[worker'.item.id].result = "pending"
  BY <1>1, OutsideOps DEF WorkInv
<1>3. worker'.pc = "commit" /\ ~worker'.err =>
          /\ worker'.item.id \in saved'
          /\ disk'[ops'[worker'.item.id].name] = worker'.def
  BY <1>1 DEF WorkInv
<1>4. worker'.pc \in {"flushSave", "flushCommit"} =>
          \E n \in Names : /\ worker'.item.names = {n}
                           /\ Exists(worker'.def) /\ worker'.def.enabled
                           /\ worker'.def.window = worker'.seq
                           /\ dirty'[n] # NoMove /\ dirty'[n].gen = gens'[n]
                           /\ Exists(defs'[n]) /\ defs'[n].enabled
                           /\ worker'.pc = "flushCommit" => disk'[n] = worker'.def
  <2> HAVE worker'.pc \in {"flushSave", "flushCommit"}
  <2>1. PICK n \in Names : /\ worker.item.names = {n}
                           /\ Exists(worker.def) /\ worker.def.enabled
                           /\ worker.def.window = worker.seq
                           /\ dirty[n] # NoMove /\ dirty[n].gen = gens[n]
                           /\ Exists(defs[n]) /\ defs[n].enabled
                           /\ worker.pc = "flushCommit" => disk[n] = worker.def
    BY <1>1 DEF WorkInv
  <2> WITNESS n \in Names
  <2> QED
    BY <1>1, <2>1
<1> QED
  BY <1>2, <1>3, <1>4 DEF WorkInv

\* An edit that is answered from outside was never saved, and one begun now neither.
LEMMA OutsideKeepsOutcome ==
    ASSUME StoreTyped, QueueInv, WorkInv, OneTrueOutcome, DiskInv, Outside
    PROVE  OneTrueOutcome' /\ DiskInv'
<1>1. /\ saved \subseteq DOMAIN ops /\ \A i \in DOMAIN ops : ops[i] \in Operation
      /\ UNCHANGED <<saved, defs, disk>>
      /\ \A i \in DOMAIN ops' \ DOMAIN ops : ops'[i].result = "pending"
  BY DEF StoreTyped, Outside, OutsideRest, OutsideEdits
<1>2. OneTrueOutcome'
  <2> SUFFICES ASSUME NEW i \in DOMAIN ops'
               PROVE  /\ ops'[i].result = "ok" => i \in saved'
                      /\ ops'[i].result = "failed" => i \notin saved'
                      /\ (ops'[i].result = "pending" /\ i \in saved')
                            => worker'.pc = "commit" /\ worker'.item.id = i /\ ~worker'.err
    BY DEF OneTrueOutcome
  <2>1. CASE i \notin DOMAIN ops
    BY <1>1, <2>1
  <2>2. CASE i \in DOMAIN ops
    <3>1. CASE ops'[i].result = ops[i].result
      BY <1>1, <2>2, <3>1, OutsideOps DEF OneTrueOutcome
    <3>2. CASE ops'[i].result # ops[i].result
      <4>1. ops[i].result = "pending" /\ ops'[i].result = "failed"
        BY <2>2, <3>2, OutsideOps DEF Edited
      <4>2. i \notin saved
        BY <2>2, <4>1, OutsideOps DEF OneTrueOutcome, Writes
      <4> QED
        BY <1>1, <4>1, <4>2
    <3> QED
      BY <3>1, <3>2
  <2> QED
    BY <2>1, <2>2
<1>3. DiskInv'
  <2>1. worker.pc = "commit" => ops'[worker.item.id].name = ops[worker.item.id].name
    BY OutsideOps DEF WorkInv, Edited
  <2> QED
    BY <1>1, <2>1, OutsideOps DEF DiskInv
<1> QED
  BY <1>2, <1>3

\* A move handed in is newer than what the worker holds, and it is pending.
LEMMA OutsideKeepsMoves ==
    ASSUME StoreTyped, QueueInv, WorkInv, MoveInv, CarryInv, MovesSurvive, Outside
    PROVE  MoveInv' /\ CarryInv' /\ MovesSurvive'
<1>0. /\ \A n \in Names : /\ seqs[n] \in Nat /\ seqs'[n] \in Nat /\ owed[n] \in Nat
                          /\ dirty[n].seq \in Nat /\ dirty'[n].seq \in Nat /\ owed'[n] \in Nat
      /\ worker.seq \in Nat /\ \A i \in DOMAIN ops : ops[i] \in Operation
  <2>1. /\ \A n \in Names : /\ seqs[n] \in Nat /\ seqs'[n] \in Nat /\ owed[n] \in Nat
                            /\ dirty[n] \in Moves /\ dirty'[n] \in Moves /\ owed'[n] \in Nat
    BY DEF StoreTyped, Outside, OutsideMoves
  <2>2. worker.seq \in Nat /\ \A i \in DOMAIN ops : ops[i] \in Operation
    BY DEF StoreTyped, Worker
  <2> QED
    BY <2>1, <2>2, Constants
<1>1. /\ UNCHANGED <<defs, gens, worker>>
      /\ \A n \in Names :
          \/ /\ owed'[n] = owed[n] /\ seqs'[n] = seqs[n]
             /\ dirty'[n].seq = dirty[n].seq /\ dirty'[n].gen = dirty[n].gen
             /\ dirty'[n] = NoMove <=> dirty[n] = NoMove
          \/ /\ Exists(defs[n]) /\ defs[n].enabled
             /\ dirty'[n] # NoMove /\ dirty'[n].gen = gens[n]
             /\ dirty'[n].seq = owed'[n] /\ owed'[n] = seqs'[n] /\ seqs'[n] > seqs[n]
  BY DEF Outside, OutsideRest, OutsideMoves
<1>2. \A n \in Names : seqs'[n] >= seqs[n]
  BY <1>0, <1>1
<1>3. worker.pc \in {"save", "commit"} =>
         LET i == worker.item.id IN
         /\ i \in DOMAIN ops /\ ops'[i].name = ops[i].name /\ ops[i].name \in Names
         /\ ops'[i].kind = ops[i].kind /\ ops'[i].geoSeq = ops[i].geoSeq
  BY <1>0, OutsideOps, OperationFields DEF WorkInv, Edited
<1>4. MoveInv'
  <2>1. \A n \in Names :
          /\ owed'[n] # 0 => Exists(defs'[n]) /\ defs'[n].enabled /\ owed'[n] <= seqs'[n]
          /\ dirty'[n].seq <= seqs'[n]
    BY <1>0, <1>1 DEF MoveInv
  <2>2. Writes' => worker'.seq <= seqs'[ops'[worker'.item.id].name]
    BY <1>0, <1>1, <1>2, <1>3 DEF MoveInv, Writes
  <2> QED
    BY <2>1, <2>2 DEF MoveInv
<1>5. CarryInv'
  <2> SUFFICES ASSUME Writes'
               PROVE  LET op == ops'[worker'.item.id]
                          n == op.name IN
                      owed'[n] # 0 /\ Exists(worker'.def) /\ worker'.def.enabled
                          /\ ~(op.kind = "select" /\ owed'[n] <= op.geoSeq) =>
                        /\ dirty'[n] = NoMove => worker'.def.window = owed'[n]
                        /\ dirty'[n] # NoMove /\ dirty'[n].seq = worker'.seq
                              => worker'.def.window = owed'[n]
    BY DEF CarryInv
  <2> DEFINE op == ops[worker.item.id]
             n == op.name
             new == ops'[worker.item.id]
  <2>1. /\ Writes /\ UNCHANGED worker /\ n \in Names /\ worker.seq <= seqs[n]
        /\ new.name = n /\ new.kind = op.kind /\ new.geoSeq = op.geoSeq
    BY <1>3, OutsideOps DEF Writes, MoveInv
  <2>2. owed[n] # 0 /\ Exists(worker.def) /\ worker.def.enabled
            /\ ~(op.kind = "select" /\ owed[n] <= op.geoSeq) =>
          /\ dirty[n] = NoMove => worker.def.window = owed[n]
          /\ dirty[n] # NoMove /\ dirty[n].seq = worker.seq => worker.def.window = owed[n]
    BY <2>1 DEF CarryInv
  <2> HIDE DEF n, op, new
  <2>3. owed'[n] # 0 /\ Exists(worker.def) /\ worker.def.enabled
            /\ ~(op.kind = "select" /\ owed'[n] <= op.geoSeq) =>
          /\ dirty'[n] = NoMove => worker.def.window = owed'[n]
          /\ dirty'[n] # NoMove /\ dirty'[n].seq = worker.seq => worker.def.window = owed'[n]
    BY <1>0, <1>1, <2>1, <2>2
  <2>4. ops'[worker'.item.id] = new
    BY <2>1 DEF new
  <2> QED
    BY <2>1, <2>3, <2>4
<1>6. MovesSurvive'
  BY <1>1 DEF MovesSurvive
<1> QED
  BY <1>4, <1>5, <1>6

-----------------------------------------------------------------------------
(* The worker *)

\* While nothing is being written, memory is the disk and no saved edit is undecided.
LEMMA Quiet ==
    ASSUME StoreInv, worker.pc \notin {"commit", "flushCommit"}
    PROVE  /\ defs = disk
           /\ \A i \in DOMAIN ops : ops[i].result = "pending" => i \notin saved
<1>1. \A n \in Names : defs[n] = disk[n]
  BY DEF StoreInv, DiskInv
<1>2. defs \in [Names -> Crops] /\ disk \in [Names -> Crops]
  BY DEF StoreInv, StoreTyped
<1>3. \A i \in DOMAIN ops : ops[i].result = "pending" => i \notin saved
  BY DEF StoreInv, OneTrueOutcome
<1> QED
  BY <1>1, <1>2, <1>3

\* The worker is at rest between two writes, or only starts one.
AtRest ==
    /\ worker.pc \in {"idle", "admit", "flush", "resolve", "exit"}
    /\ worker.pc = "admit" => worker.item.id \in DOMAIN ops /\ ~worker.err

\* A step of the worker that publishes nothing and ends at rest.
LEMMA RestStep ==
    ASSUME StoreInv, AtRest', StoreTyped', Queued(queue', ops'), started',
           SameMoves(dirty, dirty'), defs = disk, UNCHANGED <<gens, reserved, seqs, owed, saved>>,
           UNCHANGED <<ops, defs, disk>>,
           \A i \in DOMAIN ops : ops[i].result = "pending" => i \notin saved
    PROVE  StoreInv'
<1>1. QueueInv'
  BY DEF QueueInv, Queued
<1>2. GenInv'
  BY DEF GenInv, StoreInv
<1>3. WorkInv' /\ CarryInv' /\ ~Writes'
  BY DEF WorkInv, CarryInv, AtRest, Writes
<1>4. OneTrueOutcome' /\ DiskInv'
  BY DEF StoreInv, OneTrueOutcome, DiskInv
<1>5. MoveInv' /\ MovesSurvive'
  BY <1>3 DEF StoreInv, MoveInv, MovesSurvive, SameMoves
<1> QED
  BY <1>1, <1>2, <1>3, <1>4, <1>5 DEF StoreInv

\* Two facts of steps that leave the moves, or the queue and the edits, alone.
LEMMA MovesSame ==
    ASSUME StoreTyped, UNCHANGED dirty
    PROVE  SameMoves(dirty, dirty')
  BY DEF StoreTyped, SameMoves

\* See MovesSame.
LEMMA QueueSame ==
    ASSUME StoreInv, UNCHANGED <<queue, ops>>
    PROVE  Queued(queue', ops')
  BY DEF StoreInv, StoreTyped, QueueInv, Queued

\* The worker's own record.
LEMMA WorkerFields ==
    ASSUME NEW w \in Worker
    PROVE  /\ w.pc \in {"idle", "admit", "save", "commit", "flush", "flushSave",
                        "flushCommit", "resolve", "exit"}
           /\ w.item \in Item /\ w.left \subseteq Names /\ w.def \in Crops
           /\ w.seq \in 0..MaxMoves /\ w.err \in BOOLEAN
  BY DEF Worker

\* The worker takes the next item; moves that fell due are queued behind the others.
LEMMA TakeStep ==
    ASSUME StoreInv, Take
    PROVE  StoreInv' /\ UNCHANGED ops
<1>0. StoreTyped /\ started /\ worker.pc = "idle"
  BY DEF StoreInv, Take
<1>1. PICK due \in SUBSET Armed :
       LET todo == WithDue(queue, due)
           item == Head(todo) IN
       /\ todo # <<>>
       /\ queue' = Tail(todo) /\ dirty' = Disarm(dirty, due)
       /\ worker' = [Idle EXCEPT !.pc = IF item.kind = "op" THEN "admit" ELSE "flush",
                          !.item = item,
                          !.left = IF item.kind = "barrier"
                                   THEN {n \in Names : dirty[n] # NoMove} ELSE item.names]
  BY DEF Take, To
<1> DEFINE todo == WithDue(queue, due)
           item == Head(todo)
           left == IF item.kind = "barrier"
                   THEN {n \in Names : dirty[n] # NoMove} ELSE item.names
<1>2. due \in SUBSET Names /\ Queued(queue, ops)
  BY <1>0 DEF Armed, Queued, StoreInv, StoreTyped, QueueInv
<1>3. Queued(todo, ops)
  BY <1>2, QueuedDue
<1> HIDE DEF todo
<1>4. todo # <<>> /\ queue' = Tail(todo) /\ dirty' = Disarm(dirty, due)
  BY <1>1 DEF todo
<1>5. /\ item \in Item /\ (item.kind = "op" => item.id \in DOMAIN ops)
      /\ Queued(queue', ops)
  BY <1>3, <1>4 DEF Queued
<1>6. left \subseteq Names
  BY <1>5 DEF Item
<1> HIDE DEF item, left
<1>7. worker' = [Idle EXCEPT !.pc = IF item.kind = "op" THEN "admit" ELSE "flush",
                             !.item = item, !.left = left]
  BY <1>1 DEF todo, item, left
<1>8. /\ worker' \in Worker /\ worker'.pc \in {"admit", "flush"} /\ worker'.item = item
      /\ ~worker'.err /\ (worker'.pc = "admit" => item.kind = "op")
  <2>1. Idle \in Worker /\ Idle.err = FALSE
    BY Constants DEF Idle
  <2> QED
    BY <1>5, <1>6, <1>7, <2>1 DEF Worker
<1>9. UNCHANGED <<defs, gens, ops, started, flushOk, barriers, disk, saved, owed, faults>>
      /\ WorkKeeps
  BY DEF Take
<1>10. AtRest'
  BY <1>0, <1>5, <1>8, <1>9 DEF AtRest
<1>11. SameMoves(dirty, dirty')
  <2>1. dirty \in [Names -> Moves]
    BY <1>0 DEF StoreTyped
  <2> QED
    BY <1>4, <2>1, DisarmKeeps DEF SameMoves
<1>12. StoreTyped'
  BY <1>0, <1>5, <1>8, <1>9, <1>11 DEF StoreTyped, WorkKeeps, SameMoves, Queued
<1>13. Queued(queue', ops')
  BY <1>5, <1>9
<1> QED
  BY <1>0, <1>9, <1>10, <1>11, <1>12, <1>13, Quiet, RestStep DEF WorkKeeps

\* The definition an admitted edit writes: well formed, and with the move that is owed.
LEMMA WantedCarries ==
    ASSUME StoreInv, worker.item.id \in DOMAIN ops, NEW op \in Operation, ~Refused(op)
    PROVE  /\ Wanted(op) \in Crops
           /\ LET n == op.name
                  d == Wanted(op) IN
              owed[n] # 0 /\ Exists(d) /\ d.enabled
                  /\ ~(op.kind = "select" /\ owed[n] <= op.geoSeq) =>
                d.window = owed[n]
<1> DEFINE n == op.name
           prev == defs[n]
           window == IF Exists(prev) /\ prev.enabled /\ seqs[n] > op.geoSeq
                     THEN prev.window ELSE op.value
           put == [source |-> 0, enabled |-> TRUE, window |-> window]
           base == CASE op.kind = "select" -> [put EXCEPT !.source = worker.item.id]
                     [] op.kind = "enable" -> [prev EXCEPT !.enabled = TRUE]
                     [] op.kind = "disable" -> [prev EXCEPT !.enabled = FALSE]
                     [] OTHER -> NoCrop
           d == Wanted(op)
<1>1. d = IF op.kind # "remove" /\ dirty[n] # NoMove
          THEN [base EXCEPT !.window = dirty[n].seq] ELSE base
  BY DEF Wanted
<1>2. /\ n \in Names /\ op.kind \in {"select", "enable", "disable", "remove"}
      /\ op.geoSeq \in Nat /\ op.value \in 0..MaxMoves
  BY OperationFields
<1>3. /\ prev \in Crops /\ dirty[n] \in Moves /\ seqs[n] \in Nat /\ owed[n] \in Nat
      /\ worker.item.id \in 0..Imported
  <2>1. defs \in [Names -> Crops] /\ dirty \in [Names -> Moves]
        /\ seqs \in [Names -> 0..MaxMoves] /\ owed \in [Names -> 0..MaxMoves]
        /\ ops \in Seq(Operation) /\ Len(ops) <= MaxOps
    BY DEF StoreInv, StoreTyped
  <2>2. worker.item.id \in 0..Imported
    BY <2>1 DEF Imported
  <2> QED
    BY <1>2, <2>1, <2>2
<1>4. Exists(prev) => prev \in Definition /\ prev.window \in 0..MaxMoves
  <2>1. Exists(prev) => prev \in Definition
    BY <1>3, Constants
  <2> QED
    BY <2>1 DEF Definition
<1>5. dirty[n].seq \in 0..MaxMoves /\ (dirty[n] = NoMove => dirty[n].seq = 0)
  BY <1>3, Constants
<1>6. op.kind \in {"enable", "disable"} => Exists(prev)
  BY DEF Refused
<1>7. owed[n] # 0 => /\ Exists(prev) /\ prev.enabled /\ owed[n] <= seqs[n]
                     /\ \/ dirty[n].seq = owed[n]
                        \/ dirty[n] = NoMove /\ prev.window = owed[n]
  BY <1>2 DEF StoreInv, MoveInv, MovesSurvive
<1> HIDE DEF d, n, prev
<1>8. window \in 0..MaxMoves
  BY <1>2, <1>4
<1> HIDE DEF window
<1>9. put \in Definition /\ put.window = window
  BY <1>8 DEF Definition, Imported
<1> HIDE DEF put
<1>10. CASE op.kind = "remove"
  <2>1. d = NoCrop
    BY <1>1, <1>10
  <2> QED
    BY <2>1, Constants DEF d, n, Exists
<1>11. CASE op.kind # "remove"
  <2>1. base \in Definition
    <3>1. [put EXCEPT !.source = worker.item.id] \in Definition
      BY <1>3, <1>9 DEF Definition
    <3>2. Exists(prev) => /\ [prev EXCEPT !.enabled = TRUE] \in Definition
                          /\ [prev EXCEPT !.enabled = FALSE] \in Definition
      BY <1>4 DEF Definition
    <3> QED
      BY <1>2, <1>6, <1>11, <3>1, <3>2
  <2>2. /\ op.kind = "select" => base.window = window
        /\ op.kind = "enable" => base.window = prev.window
        /\ op.kind = "disable" => ~base.enabled
    <3>1. [put EXCEPT !.source = worker.item.id].window = window
      BY <1>9 DEF Definition
    <3>2. Exists(prev) => /\ [prev EXCEPT !.enabled = TRUE].window = prev.window
                          /\ [prev EXCEPT !.enabled = FALSE].enabled = FALSE
      BY <1>4 DEF Definition
    <3> QED
      BY <1>6, <3>1, <3>2
  <2> HIDE DEF base
  <2>3. /\ [base EXCEPT !.window = dirty[n].seq] \in Definition
        /\ [base EXCEPT !.window = dirty[n].seq].window = dirty[n].seq
        /\ [base EXCEPT !.window = dirty[n].seq].enabled = base.enabled
    BY <1>5, <2>1 DEF Definition
  <2>4. d \in Crops
    BY <1>1, <2>1, <2>3 DEF Crops
  <2>5. ASSUME owed[n] # 0, d.enabled, ~(op.kind = "select" /\ owed[n] <= op.geoSeq)
        PROVE  d.window = owed[n]
    <3>1. CASE dirty[n] # NoMove
      BY <1>1, <1>3, <1>7, <1>11, <2>3, <2>5, <3>1
    <3>2. CASE dirty[n] = NoMove
      <4>1. d = base /\ prev.window = owed[n] /\ Exists(prev) /\ prev.enabled
        BY <1>1, <1>5, <1>7, <2>5, <3>2
      <4>2. op.kind = "select" => window = prev.window
        BY <1>2, <1>3, <1>7, <2>5, <4>1 DEF window
      <4> QED
        BY <1>2, <1>11, <2>2, <2>5, <4>1, <4>2
    <3> QED
      BY <3>1, <3>2
  <2> QED
    BY <2>4, <2>5 DEF d, n
<1> QED
  BY <1>10, <1>11

\* Admission: the edit is refused, or the definition to write is computed with the
\* move that is pending.
LEMMA AdmitStep ==
    ASSUME StoreInv, Admit
    PROVE  StoreInv' /\ DOMAIN ops' = DOMAIN ops
<1> DEFINE i == worker.item.id
           op == ops[i]
           n == op.name
<1>0. /\ StoreTyped /\ worker.pc = "admit" /\ i \in DOMAIN ops /\ ~worker.err /\ started
      /\ op \in Operation /\ n \in Names /\ worker \in Worker
  <2>1. /\ StoreTyped /\ worker.pc = "admit" /\ i \in DOMAIN ops /\ ~worker.err /\ started
    BY DEF StoreInv, Admit, WorkInv, QueueInv, Idle
  <2>2. ops[i] \in Operation /\ worker \in Worker
    BY <2>1 DEF StoreTyped
  <2> QED
    BY <2>1, <2>2, OperationFields
<1>1. /\ defs = disk
      /\ \A j \in DOMAIN ops : ops[j].result = "pending" => j \notin saved
  BY <1>0, Quiet
<1>2. UNCHANGED <<defs, gens, queue, started, dirty, flushOk, barriers, disk, saved, owed,
                  faults, epoch, fenced, rosterSeen, sessions, reserved, closing, seqs,
                  imports>>
  BY DEF Admit, OnlyWorker, WorkKeeps
<1>3. CASE Refused(op)
  <2>1. worker' = [worker EXCEPT !.pc = "commit", !.err = TRUE] /\ UNCHANGED ops
    BY <1>3 DEF Admit, OnlyWorker, To
  <2>2. worker' \in Worker /\ worker'.pc = "commit" /\ worker'.err /\ worker'.item.id = i
    BY <1>0, <2>1 DEF Worker
  <2>3. StoreTyped'
    BY <1>0, <1>2, <2>1, <2>2 DEF StoreTyped
  <2>4. QueueInv' /\ GenInv'
    BY <1>0, <1>2, <2>1 DEF StoreInv, QueueInv, GenInv
  <2>5. WorkInv' /\ CarryInv' /\ ~Writes'
    BY <1>0, <2>1, <2>2 DEF WorkInv, CarryInv, Writes
  <2>6. OneTrueOutcome' /\ DiskInv'
    BY <1>1, <1>2, <2>1 DEF StoreInv, OneTrueOutcome, DiskInv
  <2>7. MoveInv' /\ MovesSurvive'
    BY <1>2, <2>5 DEF StoreInv, MoveInv, MovesSurvive
  <2> QED
    BY <2>1, <2>3, <2>4, <2>5, <2>6, <2>7 DEF StoreInv
<1>4. CASE ~Refused(op)
  <2> DEFINE new == [op EXCEPT !.admitted = TRUE]
  <2>1. /\ ops' = [ops EXCEPT ![i].admitted = TRUE]
        /\ worker' = [worker EXCEPT !.pc = "save", !.def = Wanted(op), !.seq = dirty[n].seq]
    BY <1>4 DEF Admit, To
  <2>2. /\ Wanted(op) \in Crops
        /\ owed[n] # 0 /\ Exists(Wanted(op)) /\ Wanted(op).enabled
               /\ ~(op.kind = "select" /\ owed[n] <= op.geoSeq) =>
             Wanted(op).window = owed[n]
    BY <1>0, <1>4, WantedCarries
  <2>3. dirty[n].seq \in 0..MaxMoves /\ dirty[n].seq <= seqs[n]
    <3>1. dirty[n] \in Moves
      BY <1>0 DEF StoreTyped
    <3> QED
      BY <1>0, <3>1, Constants DEF StoreInv, MoveInv
  <2>4. /\ worker' \in Worker /\ worker'.pc = "save" /\ ~worker'.err /\ worker'.item.id = i
        /\ worker'.def = Wanted(op) /\ worker'.seq = dirty[n].seq
    BY <1>0, <2>1, <2>2, <2>3 DEF Worker
  <2>5. op.result = "pending"
    BY <1>4 DEF Refused
  <2>6. /\ new \in Operation /\ new.name = n /\ new.kind = op.kind /\ new.result = "pending"
        /\ new.geoSeq = op.geoSeq /\ new.admitted
    BY <1>0, <2>5 DEF Operation
  <2>7. /\ ops' \in Seq(Operation) /\ Len(ops') = Len(ops) /\ DOMAIN ops' = DOMAIN ops
        /\ ops'[i] = new /\ \A j \in DOMAIN ops : j # i => ops'[j] = ops[j]
    <3>1. ops \in Seq(Operation) /\ i \in 1..Len(ops)
      <4>1. ops \in Seq(Operation) /\ i \in DOMAIN ops
        BY <1>0 DEF StoreTyped
      <4> HIDE DEF i
      <4> QED
        BY <4>1
    <3>2. ops' = [ops EXCEPT ![i] = new]
      BY <2>1
    <3> HIDE DEF new, op, i
    <3> QED
      BY <2>6, <3>1, <3>2, ExceptSeq
  <2> HIDE DEF new, op, n, i
  <2>8. \A j \in DOMAIN ops : ops'[j].result = ops[j].result
    BY <2>5, <2>6, <2>7 DEF op
  <2>9. StoreTyped'
    BY <1>0, <1>2, <2>4, <2>7 DEF StoreTyped
  <2>10. QueueInv' /\ GenInv'
    BY <1>0, <1>2, <2>7 DEF StoreInv, QueueInv, GenInv
  <2>11. WorkInv' /\ Writes'
    BY <1>0, <2>4, <2>6, <2>7 DEF WorkInv, Writes
  <2>12. OneTrueOutcome'
    BY <1>1, <1>2, <2>7, <2>8 DEF StoreInv, OneTrueOutcome
  <2>13. DiskInv'
    BY <1>1, <1>2 DEF DiskInv
  <2>14. MoveInv'
    BY <1>2, <2>3, <2>4, <2>6, <2>7 DEF StoreInv, MoveInv
  <2>15. CarryInv'
    BY <1>2, <2>2, <2>4, <2>6, <2>7 DEF CarryInv
  <2>16. MovesSurvive'
    BY <1>2 DEF StoreInv, MovesSurvive
  <2> QED
    BY <2>7, <2>9, <2>10, <2>11, <2>12, <2>13, <2>14, <2>15, <2>16 DEF StoreInv
<1> QED
  BY <1>3, <1>4

\* The document is written, or rolled back.
LEMMA SaveStep ==
    ASSUME StoreInv, Save
    PROVE  StoreInv' /\ UNCHANGED ops
<1> DEFINE i == worker.item.id
           n == ops[i].name
<1>0. /\ StoreTyped /\ worker.pc = "save" /\ Writes /\ i \in DOMAIN ops /\ ~worker.err /\ started
      /\ ops[i].admitted /\ ops[i].result = "pending" /\ n \in Names /\ worker \in Worker
      /\ worker.def \in Crops
  <2>1. /\ StoreTyped /\ worker.pc = "save" /\ Writes /\ i \in DOMAIN ops /\ ~worker.err
        /\ started /\ ops[i].admitted /\ ops[i].result = "pending"
    BY DEF StoreInv, Save, WorkInv, QueueInv, Idle, Writes
  <2>2. ops[i] \in Operation /\ worker \in Worker
    BY <2>1 DEF StoreTyped
  <2> QED
    BY <2>1, <2>2, OperationFields, WorkerFields
<1>1. /\ defs = disk
      /\ \A j \in DOMAIN ops : ops[j].result = "pending" => j \notin saved
  BY <1>0, Quiet
<1>2. UNCHANGED <<defs, gens, ops, queue, started, dirty, flushOk, barriers, owed,
                  epoch, fenced, rosterSeen, sessions, reserved, closing, seqs, imports>>
  BY DEF Save, WorkKeeps
<1>3. QueueInv' /\ GenInv' /\ MovesSurvive'
  BY <1>0, <1>2 DEF StoreInv, QueueInv, GenInv, MovesSurvive
<1>4. CASE /\ disk' = [disk EXCEPT ![n] = worker.def]
           /\ saved' = saved \cup {i}
           /\ worker' = [worker EXCEPT !.pc = "commit"] /\ UNCHANGED faults
  <2>1. /\ worker' \in Worker /\ worker'.pc = "commit" /\ ~worker'.err /\ worker'.item = worker.item
        /\ worker'.def = worker.def /\ worker'.seq = worker.seq
    BY <1>0, <1>4 DEF Worker
  <2>2. /\ disk' \in [Names -> Crops] /\ disk'[n] = worker.def
        /\ \A m \in Names : m # n => disk'[m] = disk[m]
    BY <1>0, <1>4 DEF StoreTyped
  <2>3. StoreTyped'
    BY <1>0, <1>2, <1>4, <2>1, <2>2 DEF StoreTyped
  <2>4. WorkInv' /\ Writes'
    BY <1>0, <1>2, <1>4, <2>1, <2>2 DEF WorkInv, Writes
  <2>5. OneTrueOutcome'
    BY <1>0, <1>1, <1>2, <1>4, <2>1 DEF StoreInv, OneTrueOutcome
  <2>6. DiskInv'
    BY <1>1, <1>2, <2>1, <2>2 DEF DiskInv
  <2>7. MoveInv' /\ CarryInv'
    BY <1>0, <1>2, <2>1 DEF StoreInv, MoveInv, CarryInv
  <2> QED
    BY <1>2, <1>3, <2>3, <2>4, <2>5, <2>6, <2>7 DEF StoreInv
<1>5. CASE /\ faults < MaxFaults /\ faults' = faults + 1
           /\ worker' = SaveFailed /\ UNCHANGED <<disk, saved>>
  <2>1. worker' \in Worker /\ worker'.pc = "commit" /\ worker'.err /\ worker'.item = worker.item
    BY <1>0, <1>5 DEF Worker, SaveFailed
  <2>2. faults' \in 0..MaxFaults
    BY <1>0, <1>5 DEF StoreTyped
  <2>3. StoreTyped'
    BY <1>0, <1>2, <1>5, <2>1, <2>2 DEF StoreTyped
  <2>4. WorkInv' /\ CarryInv' /\ ~Writes'
    BY <1>0, <1>2, <2>1 DEF WorkInv, CarryInv, Writes
  <2>5. OneTrueOutcome' /\ DiskInv'
    BY <1>1, <1>2, <1>5 DEF StoreInv, OneTrueOutcome, DiskInv
  <2>6. MoveInv'
    BY <1>2, <2>4 DEF StoreInv, MoveInv
  <2> QED
    BY <1>2, <1>3, <2>3, <2>4, <2>5, <2>6 DEF StoreInv
<1> QED
  BY <1>4, <1>5 DEF Save, To

\* The outcome is published; a move that arrived during the save is taken over by
\* the generation the edit has committed.
LEMMA CommitStep ==
    ASSUME StoreInv, Commit
    PROVE  StoreInv' /\ DOMAIN ops' = DOMAIN ops
<1> DEFINE i == worker.item.id
           op == ops[i]
           n == op.name
           def == worker.def
<1>0. /\ StoreTyped /\ worker.pc = "commit" /\ i \in DOMAIN ops /\ started
      /\ op \in Operation /\ n \in Names /\ worker \in Worker /\ def \in Crops
      /\ ops \in Seq(Operation)
  <2>1. StoreTyped /\ worker.pc = "commit" /\ i \in DOMAIN ops /\ started
    BY DEF StoreInv, Commit, WorkInv, QueueInv, Idle
  <2>2. ops[i] \in Operation /\ worker \in Worker /\ ops \in Seq(Operation)
    BY <2>1 DEF StoreTyped
  <2> QED
    BY <2>1, <2>2, OperationFields, WorkerFields
<1>1. /\ worker' = Idle
      /\ UNCHANGED <<queue, started, flushOk, barriers, disk, saved, faults,
                     epoch, fenced, rosterSeen, sessions, reserved, closing, seqs, imports>>
  BY DEF Commit, To, WorkKeeps
<1>2. AtRest' /\ worker' \in Worker /\ started'
  BY <1>0, <1>1, Constants DEF AtRest, Idle
<1>3. ASSUME NEW r \in {"ok", "failed"}, ops' = [ops EXCEPT ![i].result = r]
      PROVE  /\ ops' \in Seq(Operation) /\ Len(ops') = Len(ops) /\ DOMAIN ops' = DOMAIN ops
             /\ ops'[i].result = r /\ \A j \in DOMAIN ops : j # i => ops'[j] = ops[j]
  <2> DEFINE new == [op EXCEPT !.result = r]
  <2>1. new \in Operation /\ new.result = r
    BY <1>0, <1>3 DEF Operation
  <2>2. i \in 1..Len(ops)
    <3>1. i \in DOMAIN ops /\ ops \in Seq(Operation)
      BY <1>0
    <3> HIDE DEF i
    <3> QED
      BY <3>1
  <2>3. ops' = [ops EXCEPT ![i] = new]
    BY <1>3
  <2> HIDE DEF new, op, i
  <2> QED
    BY <1>0, <2>1, <2>2, <2>3, ExceptSeq
<1>4. ASSUME ~Writes
      PROVE  defs = disk
  <2>1. \A m \in Names : defs[m] = disk[m]
    BY <1>0, <1>4 DEF StoreInv, DiskInv, Writes
  <2>2. defs \in [Names -> Crops] /\ disk \in [Names -> Crops]
    BY <1>0 DEF StoreTyped
  <2> QED
    BY <2>1, <2>2
<1>5. CASE op.result # "pending"
  <2>1. ~Writes
    BY <1>5 DEF StoreInv, WorkInv
  <2>2. UNCHANGED <<ops, defs, gens, dirty, owed>>
    BY <1>5 DEF Commit
  <2>3. \A j \in DOMAIN ops : ops[j].result = "pending" => j \notin saved
    BY <1>0, <2>1 DEF StoreInv, OneTrueOutcome, Writes
  <2>4. StoreTyped'
    BY <1>0, <1>1, <1>2, <2>2 DEF StoreTyped
  <2> QED
    BY <1>0, <1>1, <1>2, <1>4, <2>1, <2>2, <2>3, <2>4, MovesSame, QueueSame, RestStep
<1>6. CASE op.result = "pending" /\ worker.err
  <2>1. ~Writes /\ defs = disk
    BY <1>0, <1>4, <1>6 DEF Writes
  <2>2. ops' = [ops EXCEPT ![i].result = "failed"] /\ UNCHANGED <<defs, gens, dirty, owed>>
    BY <1>6 DEF Commit
  <2>3. /\ ops' \in Seq(Operation) /\ Len(ops') = Len(ops) /\ DOMAIN ops' = DOMAIN ops
        /\ ops'[i].result = "failed" /\ \A j \in DOMAIN ops : j # i => ops'[j] = ops[j]
    BY <1>3, <2>2
  <2>4. \A j \in DOMAIN ops : ops[j].result = "pending" => j \notin saved
    BY <1>6 DEF StoreInv, OneTrueOutcome
  <2> HIDE DEF i
  <2>5. StoreTyped'
    BY <1>0, <1>1, <1>2, <2>2, <2>3 DEF StoreTyped
  <2>6. QueueInv' /\ GenInv'
    BY <1>1, <1>2, <2>2, <2>3 DEF StoreInv, QueueInv, GenInv
  <2>7. WorkInv' /\ CarryInv' /\ ~Writes'
    BY <1>2 DEF WorkInv, CarryInv, AtRest, Writes
  <2>8. OneTrueOutcome'
    BY <1>0, <1>1, <1>6, <2>3, <2>4 DEF StoreInv, OneTrueOutcome
  <2>9. DiskInv'
    BY <1>1, <2>1, <2>2 DEF DiskInv
  <2>10. MoveInv' /\ MovesSurvive'
    BY <1>1, <2>2, <2>7 DEF StoreInv, MoveInv, MovesSurvive
  <2> QED
    BY <2>3, <2>5, <2>6, <2>7, <2>8, <2>9, <2>10 DEF StoreInv
<1>7. CASE op.result = "pending" /\ ~worker.err
  <2> DEFINE move == Rebase(n, def, worker.seq, op.gen)
             gone == ~Exists(def) \/ ~def.enabled
                     \/ (op.kind = "select" /\ owed[n] <= op.geoSeq)
             owing == IF gone THEN 0 ELSE owed[n]
  <2>1. /\ Writes /\ i \in saved /\ disk[n] = def
    BY <1>0, <1>7 DEF StoreInv, WorkInv, Writes
  <2>2. /\ ops' = [ops EXCEPT ![i].result = "ok"]
        /\ defs' = [defs EXCEPT ![n] = def]
        /\ gens' = [gens EXCEPT ![n] = op.gen]
        /\ dirty' = [dirty EXCEPT ![n] = move]
        /\ owed' = [owed EXCEPT ![n] = owing]
    BY <1>7 DEF Commit
  <2>3. /\ ops' \in Seq(Operation) /\ Len(ops') = Len(ops) /\ DOMAIN ops' = DOMAIN ops
        /\ ops'[i].result = "ok" /\ \A j \in DOMAIN ops : j # i => ops'[j] = ops[j]
    BY <1>3, <2>2
  <2>4. /\ dirty[n] \in Moves /\ owed[n] \in 0..MaxMoves /\ seqs[n] \in 0..MaxMoves
        /\ op.gen \in 1..MaxOps /\ dirty[n].seq \in 0..MaxMoves
    <3>1. /\ dirty[n] \in Moves /\ owed[n] \in 0..MaxMoves /\ seqs[n] \in 0..MaxMoves
          /\ op.gen \in 1..MaxOps
      BY <1>0, OperationFields DEF StoreTyped
    <3> QED
      BY <3>1, Constants
  <2>5. /\ move \in Moves
        /\ move = NoMove \/ (/\ move # NoMove /\ move.gen = op.gen /\ move.seq = dirty[n].seq
                             /\ dirty[n] # NoMove /\ dirty[n].seq # worker.seq)
        /\ move = NoMove => \/ dirty[n] = NoMove \/ ~Exists(def) \/ ~def.enabled
                            \/ dirty[n].seq = worker.seq
    <3>1. dirty[n] # NoMove => dirty[n] \in Move
      BY <2>4, Constants
    <3> DEFINE e == [dirty[n] EXCEPT !.gen = op.gen]
    <3>2. dirty[n] # NoMove => e \in Move /\ e.gen = op.gen /\ e.seq = dirty[n].seq
      BY <2>4, <3>1 DEF Move
    <3>3. dirty[n] # NoMove => e # NoMove
      BY <3>2, Constants
    <3>4. move = IF dirty[n] = NoMove \/ ~Exists(def) \/ ~def.enabled
                    \/ dirty[n].seq = worker.seq
                 THEN NoMove ELSE e
      BY DEF Rebase
    <3> HIDE DEF move, e, def
    <3> QED
      BY <3>2, <3>3, <3>4, Constants DEF Moves
  <2>6. /\ owed[n] # 0 => owed[n] <= seqs[n] /\ (dirty[n] # NoMove => dirty[n].seq = owed[n])
        /\ dirty[n].seq <= seqs[n]
        /\ owed[n] # 0 /\ ~gone =>
             /\ dirty[n] = NoMove => def.window = owed[n]
             /\ dirty[n] # NoMove /\ dirty[n].seq = worker.seq => def.window = owed[n]
    BY <1>0, <2>1 DEF StoreInv, MoveInv, MovesSurvive, CarryInv
  <2>7. owing \in 0..MaxMoves /\ (owing # 0 => ~gone /\ owing = owed[n])
    BY <2>4
  <2>8. gone <=> \/ ~Exists(def) \/ ~def.enabled
                 \/ op.kind = "select" /\ owed[n] <= op.geoSeq
    OBVIOUS
  <2> HIDE DEF move, owing, gone, def
  <2>9. /\ defs' \in [Names -> Crops] /\ defs'[n] = def
        /\ gens' \in [Names -> -1..MaxOps] /\ gens'[n] = op.gen
        /\ dirty' \in [Names -> Moves] /\ dirty'[n] = move
        /\ owed' \in [Names -> 0..MaxMoves] /\ owed'[n] = owing
        /\ \A m \in Names : m # n => /\ defs'[m] = defs[m] /\ gens'[m] = gens[m]
                                     /\ dirty'[m] = dirty[m] /\ owed'[m] = owed[m]
    <3>1. /\ defs \in [Names -> Crops] /\ gens \in [Names -> -1..MaxOps]
          /\ dirty \in [Names -> Moves] /\ owed \in [Names -> 0..MaxMoves]
      BY <1>0 DEF StoreTyped
    <3>2. op.gen \in -1..MaxOps
      BY <2>4
    <3> HIDE DEF op
    <3> QED
      BY <1>0, <2>2, <2>5, <2>7, <3>1, <3>2
  <2> HIDE DEF n, op, i
  <2>10. StoreTyped'
    BY <1>0, <1>1, <1>2, <2>3, <2>9 DEF StoreTyped
  <2>11. QueueInv'
    BY <1>1, <1>2, <2>3 DEF StoreInv, QueueInv
  <2>12. GenInv'
    <3>1. /\ \A m \in Names : reserved[m] <= Len(ops)
          /\ \A m \in Names : Exists(defs[m]) => gens[m] >= 0
      BY DEF StoreInv, GenInv
    <3>2. gens'[n] >= 0
      BY <2>4, <2>9
    <3>3. \A m \in Names : Exists(defs'[m]) => gens'[m] >= 0
      BY <2>9, <3>1, <3>2
    <3> QED
      BY <1>1, <2>3, <3>1, <3>3 DEF GenInv
  <2>13. WorkInv' /\ CarryInv' /\ ~Writes'
    BY <1>2 DEF WorkInv, CarryInv, AtRest, Writes
  <2>14. OneTrueOutcome'
    <3>1. \A j \in DOMAIN ops : j # i /\ ops[j].result = "pending" => j \notin saved
      BY DEF StoreInv, OneTrueOutcome, i
    <3> QED
      BY <1>1, <2>1, <2>3, <3>1 DEF StoreInv, OneTrueOutcome
  <2>15. DiskInv'
    <3>1. \A m \in Names : m # n => defs[m] = disk[m]
      BY <1>0 DEF StoreInv, DiskInv, n, op, i
    <3> QED
      BY <1>1, <2>1, <2>9, <3>1 DEF DiskInv
  <2>16. MoveInv' /\ MovesSurvive'
    <3>1. \A m \in Names : m # n =>
             /\ owed'[m] # 0 => Exists(defs'[m]) /\ defs'[m].enabled /\ owed'[m] <= seqs'[m]
             /\ dirty'[m].seq <= seqs'[m]
             /\ owed'[m] # 0 => \/ dirty'[m].seq = owed'[m] /\ dirty'[m].gen = gens'[m]
                                \/ dirty'[m] = NoMove /\ defs'[m].window = owed'[m]
      BY <1>1, <2>9 DEF StoreInv, MoveInv, MovesSurvive
    <3>2. /\ owing # 0 => Exists(def) /\ def.enabled /\ owing <= seqs[n]
          /\ move.seq <= seqs[n]
      BY <2>4, <2>5, <2>6, <2>7, <2>8, Constants
    <3>3. owing # 0 => \/ move.seq = owing /\ move.gen = op.gen
                       \/ move = NoMove /\ def.window = owing
      BY <2>4, <2>5, <2>6, <2>7, <2>8
    <3> QED
      BY <1>1, <2>9, <2>13, <3>1, <3>2, <3>3 DEF MoveInv, MovesSurvive
  <2> QED
    BY <2>3, <2>10, <2>11, <2>12, <2>13, <2>14, <2>15, <2>16 DEF StoreInv
<1> QED
  BY <1>5, <1>6, <1>7

\* A flush captures the definition with the move it is to write.
LEMMA FlushAdmitStep ==
    ASSUME StoreInv, NEW n \in Names, FlushAdmit(n)
    PROVE  StoreInv' /\ UNCHANGED ops
<1>0. /\ StoreTyped /\ worker.pc = "flush" /\ started /\ worker \in Worker
      /\ dirty[n] \in Moves /\ defs[n] \in Crops
  <2>1. StoreTyped /\ worker.pc = "flush" /\ started
    BY DEF StoreInv, FlushAdmit, QueueInv, Idle
  <2>2. worker \in Worker /\ dirty[n] \in Moves /\ defs[n] \in Crops
    BY <2>1 DEF StoreTyped
  <2> QED
    BY <2>1, <2>2
<1>1. /\ UNCHANGED <<defs, gens, ops, queue, started, dirty, flushOk, barriers, disk,
                     saved, owed, faults, epoch, fenced, rosterSeen, sessions, reserved,
                     closing, seqs, imports>>
  BY DEF FlushAdmit, OnlyWorker, WorkKeeps
<1>2. /\ defs = disk
      /\ \A i \in DOMAIN ops : ops[i].result = "pending" => i \notin saved
  BY <1>0, Quiet
<1>3. CASE ~Flushable(n)
  <2>1. worker' = [worker EXCEPT !.left = @ \ {n}]
    BY <1>3 DEF FlushAdmit, OnlyWorker, To
  <2>2. worker' \in Worker /\ worker'.pc = "flush"
    BY <1>0, <2>1 DEF Worker
  <2>3. AtRest'
    BY <2>2 DEF AtRest
  <2>4. StoreTyped'
    BY <1>0, <1>1, <2>2 DEF StoreTyped
  <2> QED
    BY <1>0, <1>1, <1>2, <2>3, <2>4, MovesSame, QueueSame, RestStep
<1>4. CASE Flushable(n)
  <2> DEFINE def == [defs[n] EXCEPT !.window = dirty[n].seq]
  <2>1. worker' = [worker EXCEPT !.pc = "flushSave", !.left = @ \ {n},
                                 !.item.names = {n}, !.seq = dirty[n].seq, !.def = def]
    BY <1>4 DEF FlushAdmit, OnlyWorker, To
  <2>2. dirty[n].seq \in 0..MaxMoves /\ defs[n] \in Definition /\ defs[n].enabled
    BY <1>0, <1>4, Constants DEF Flushable
  <2>3. def \in Definition /\ def.window = dirty[n].seq /\ def.enabled
    BY <2>2 DEF Definition
  <2>4. def \in Crops /\ Exists(def)
    BY <2>3, Constants DEF Crops, Exists
  <2> HIDE DEF def
  <2>5. /\ worker' \in Worker /\ worker'.pc = "flushSave" /\ worker'.item.names = {n}
        /\ worker'.seq = dirty[n].seq /\ worker'.def = def
    <3>1. [worker.item EXCEPT !.names = {n}] \in Item
      BY <1>0 DEF Worker, Item
    <3>2. [worker.item EXCEPT !.names = {n}].names = {n}
      BY <1>0 DEF Worker, Item
    <3> DEFINE item == [worker.item EXCEPT !.names = {n}]
    <3>3. worker' = [worker EXCEPT !.pc = "flushSave", !.left = worker.left \ {n},
                                   !.item = item, !.seq = dirty[n].seq, !.def = def]
      BY <2>1
    <3> HIDE DEF item
    <3>4. item \in Item /\ item.names = {n}
      BY <3>1, <3>2 DEF item
    <3> QED
      BY <1>0, <2>2, <2>4, <3>3, <3>4 DEF Worker
  <2>6. StoreTyped'
    BY <1>0, <1>1, <2>5 DEF StoreTyped
  <2>7. QueueInv' /\ GenInv'
    BY <1>0, <1>1 DEF StoreInv, QueueInv, GenInv
  <2>8. WorkInv' /\ CarryInv' /\ ~Writes'
    <3>1. /\ worker'.item.names = {n} /\ Exists(worker'.def) /\ worker'.def.enabled
          /\ worker'.def.window = worker'.seq /\ dirty'[n] # NoMove /\ dirty'[n].gen = gens'[n]
          /\ Exists(defs'[n]) /\ defs'[n].enabled
      BY <1>1, <1>4, <2>3, <2>4, <2>5 DEF Flushable
    <3> QED
      BY <2>5, <3>1 DEF WorkInv, CarryInv, Writes
  <2>9. OneTrueOutcome' /\ DiskInv'
    BY <1>1, <1>2 DEF StoreInv, OneTrueOutcome, DiskInv
  <2>10. MoveInv' /\ MovesSurvive'
    BY <1>1, <2>8 DEF StoreInv, MoveInv, MovesSurvive
  <2> QED
    BY <1>1, <2>6, <2>7, <2>8, <2>9, <2>10 DEF StoreInv
<1> QED
  BY <1>3, <1>4

\* The name whose move is being written.
LEMMA FlushingName ==
    ASSUME StoreInv, worker.pc \in {"flushSave", "flushCommit"}
    PROVE  /\ Flushing \in Names /\ worker.item.names = {Flushing}
           /\ Exists(worker.def) /\ worker.def.enabled /\ worker.def.window = worker.seq
           /\ dirty[Flushing] # NoMove /\ dirty[Flushing].gen = gens[Flushing]
           /\ Exists(defs[Flushing]) /\ defs[Flushing].enabled
           /\ worker.pc = "flushCommit" => disk[Flushing] = worker.def
<1>1. PICK n \in Names : /\ worker.item.names = {n}
                         /\ Exists(worker.def) /\ worker.def.enabled
                         /\ worker.def.window = worker.seq
                         /\ dirty[n] # NoMove /\ dirty[n].gen = gens[n]
                         /\ Exists(defs[n]) /\ defs[n].enabled
                         /\ worker.pc = "flushCommit" => disk[n] = worker.def
  BY DEF StoreInv, WorkInv
<1>2. Flushing = n
  BY <1>1 DEF Flushing
<1> QED
  BY <1>1, <1>2

\* The document with the move is written, or the move stays pending.
LEMMA FlushSaveStep ==
    ASSUME StoreInv, FlushSave
    PROVE  StoreInv' /\ UNCHANGED ops
<1> DEFINE n == Flushing
<1>0. /\ StoreTyped /\ worker.pc = "flushSave" /\ started /\ worker \in Worker
      /\ worker.def \in Crops /\ n \in Names /\ worker.item.names = {n}
  BY FlushingName, WorkerFields DEF StoreInv, StoreTyped, FlushSave, QueueInv, Idle
<1>1. UNCHANGED <<defs, gens, ops, queue, started, barriers, saved, owed,
                  epoch, fenced, rosterSeen, sessions, reserved, closing, seqs, imports>>
  BY DEF FlushSave, WorkKeeps
<1>2. /\ defs = disk
      /\ \A i \in DOMAIN ops : ops[i].result = "pending" => i \notin saved
  BY <1>0, Quiet
<1>3. CASE /\ disk' = [disk EXCEPT ![n] = worker.def]
           /\ worker' = [worker EXCEPT !.pc = "flushCommit"]
           /\ UNCHANGED <<dirty, flushOk, faults>>
  <2>1. /\ worker' \in Worker /\ worker'.pc = "flushCommit" /\ worker'.item = worker.item
        /\ worker'.def = worker.def /\ worker'.seq = worker.seq
    BY <1>0, <1>3 DEF Worker
  <2>2. /\ disk' \in [Names -> Crops] /\ disk'[n] = worker.def
        /\ \A m \in Names : m # n => disk'[m] = disk[m]
    BY <1>0, <1>3 DEF StoreTyped
  <2>3. StoreTyped'
    BY <1>0, <1>1, <1>3, <2>1, <2>2 DEF StoreTyped
  <2>4. QueueInv' /\ GenInv'
    BY <1>0, <1>1 DEF StoreInv, QueueInv, GenInv
  <2>5. WorkInv' /\ CarryInv' /\ ~Writes'
    <3>1. /\ worker'.item.names = {n} /\ Exists(worker'.def) /\ worker'.def.enabled
          /\ worker'.def.window = worker'.seq /\ dirty'[n] # NoMove /\ dirty'[n].gen = gens'[n]
          /\ Exists(defs'[n]) /\ defs'[n].enabled /\ disk'[n] = worker'.def
      BY <1>0, <1>1, <1>3, <2>1, <2>2, FlushingName
    <3> QED
      BY <1>0, <2>1, <3>1 DEF WorkInv, CarryInv, Writes
  <2>6. OneTrueOutcome'
    BY <1>1, <1>2 DEF StoreInv, OneTrueOutcome
  <2>7. DiskInv'
    BY <1>0, <1>1, <1>2, <2>1, <2>2 DEF DiskInv
  <2>8. MoveInv' /\ MovesSurvive'
    BY <1>1, <1>3, <2>5 DEF StoreInv, MoveInv, MovesSurvive
  <2> QED
    BY <1>1, <2>3, <2>4, <2>5, <2>6, <2>7, <2>8 DEF StoreInv
<1>4. CASE /\ faults < MaxFaults /\ faults' = faults + 1
           /\ flushOk' = FALSE
           /\ dirty' = IF dirty[n].seq = worker.seq THEN Disarm(dirty, {n}) ELSE dirty
           /\ worker' = [worker EXCEPT !.pc = "flush"] /\ UNCHANGED disk
  <2>1. worker' \in Worker /\ worker'.pc = "flush"
    BY <1>0, <1>4 DEF Worker
  <2>2. SameMoves(dirty, dirty')
    <3>1. dirty \in [Names -> Moves]
      BY <1>0 DEF StoreTyped
    <3> QED
      BY <1>4, <3>1, DisarmKeeps DEF SameMoves
  <2>3. faults' \in 0..MaxFaults
    BY <1>0, <1>4 DEF StoreTyped
  <2>4. StoreTyped'
    BY <1>0, <1>1, <1>4, <2>1, <2>2, <2>3 DEF StoreTyped, SameMoves
  <2>5. AtRest'
    BY <2>1 DEF AtRest
  <2> QED
    BY <1>0, <1>1, <1>2, <1>4, <2>2, <2>4, <2>5, QueueSame, RestStep
<1> QED
  BY <1>3, <1>4 DEF FlushSave, To

\* The captured definition is published: only the move it carries is spent, a newer
\* one stays pending.
LEMMA FlushCommitStep ==
    ASSUME StoreInv, FlushCommit
    PROVE  StoreInv' /\ UNCHANGED ops
<1> DEFINE n == Flushing
           def == worker.def
<1>0. /\ StoreTyped /\ worker.pc = "flushCommit" /\ started /\ worker \in Worker
      /\ def \in Crops /\ n \in Names /\ worker.item.names = {n}
  BY FlushingName, WorkerFields DEF StoreInv, StoreTyped, FlushCommit, QueueInv, Idle
<1>1. UNCHANGED <<gens, ops, queue, started, flushOk, barriers, disk, saved, owed, faults,
                  epoch, fenced, rosterSeen, sessions, reserved, closing, seqs, imports>>
  BY DEF FlushCommit, WorkKeeps
<1>2. /\ defs' = [defs EXCEPT ![n] = def]
      /\ dirty' = IF dirty[n].seq = worker.seq THEN [dirty EXCEPT ![n] = NoMove] ELSE dirty
      /\ worker' = [worker EXCEPT !.pc = "flush"]
  BY DEF FlushCommit, To
<1>3. worker' \in Worker /\ worker'.pc = "flush"
  BY <1>0, <1>2 DEF Worker
<1>4. /\ Exists(def) /\ def.enabled /\ def.window = worker.seq /\ disk[n] = def
      /\ dirty[n] # NoMove /\ dirty[n].gen = gens[n] /\ Exists(defs[n])
  BY <1>0, FlushingName
<1>5. /\ defs' \in [Names -> Crops] /\ defs'[n] = def
      /\ \A m \in Names : m # n => defs'[m] = defs[m]
  BY <1>0, <1>2 DEF StoreTyped
<1>6. /\ dirty' \in [Names -> Moves]
      /\ \A m \in Names : m # n => dirty'[m] = dirty[m]
      /\ dirty'[n] = IF dirty[n].seq = worker.seq THEN NoMove ELSE dirty[n]
  <2>1. dirty \in [Names -> Moves]
    BY <1>0 DEF StoreTyped
  <2> QED
    BY <1>0, <1>2, <2>1, Constants
<1> HIDE DEF n, def
<1>7. StoreTyped'
  BY <1>0, <1>1, <1>3, <1>5, <1>6 DEF StoreTyped
<1>8. QueueInv' /\ GenInv'
  <2>1. QueueInv'
    BY <1>0, <1>1 DEF StoreInv, QueueInv
  <2>2. GenInv'
    BY <1>0, <1>1, <1>4, <1>5 DEF StoreInv, GenInv
  <2> QED
    BY <2>1, <2>2
<1>9. WorkInv' /\ CarryInv' /\ ~Writes'
  BY <1>3 DEF WorkInv, CarryInv, Writes
<1>10. OneTrueOutcome'
  BY <1>0, <1>1 DEF StoreInv, OneTrueOutcome
<1>11. DiskInv'
  <2>1. \A m \in Names : m # n => defs[m] = disk[m]
    BY <1>0 DEF StoreInv, DiskInv
  <2> QED
    BY <1>1, <1>4, <1>5, <2>1 DEF DiskInv
<1>12. MoveInv' /\ MovesSurvive'
  <2>1. \A m \in Names : m # n =>
           /\ owed'[m] # 0 => Exists(defs'[m]) /\ defs'[m].enabled /\ owed'[m] <= seqs'[m]
           /\ dirty'[m].seq <= seqs'[m]
           /\ owed'[m] # 0 => \/ dirty'[m].seq = owed'[m] /\ dirty'[m].gen = gens'[m]
                              \/ dirty'[m] = NoMove /\ defs'[m].window = owed'[m]
    BY <1>1, <1>5, <1>6 DEF StoreInv, MoveInv, MovesSurvive
  <2>2. /\ owed[n] # 0 => owed[n] <= seqs[n] /\ dirty[n].seq = owed[n]
        /\ dirty[n].seq <= seqs[n]
    BY <1>0, <1>4 DEF StoreInv, MoveInv, MovesSurvive
  <2>3. seqs[n] \in Nat
    BY <1>0 DEF StoreTyped
  <2>4. /\ owed'[n] # 0 => Exists(defs'[n]) /\ defs'[n].enabled /\ owed'[n] <= seqs'[n]
        /\ dirty'[n].seq <= seqs'[n]
    BY <1>1, <1>4, <1>5, <1>6, <2>2, <2>3, Constants
  <2>5. owed'[n] # 0 => \/ dirty'[n].seq = owed'[n] /\ dirty'[n].gen = gens'[n]
                        \/ dirty'[n] = NoMove /\ defs'[n].window = owed'[n]
    BY <1>1, <1>4, <1>5, <1>6, <2>2
  <2> QED
    BY <1>9, <2>1, <2>4, <2>5 DEF MoveInv, MovesSurvive
<1> QED
  BY <1>1, <1>7, <1>8, <1>9, <1>10, <1>11, <1>12 DEF StoreInv

\* The flush is over.
LEMMA FlushDoneStep ==
    ASSUME StoreInv, FlushDone
    PROVE  StoreInv' /\ UNCHANGED ops
<1>0. StoreTyped /\ worker.pc = "flush" /\ started /\ worker \in Worker
  BY DEF StoreInv, StoreTyped, FlushDone, QueueInv, Idle
<1>1. /\ UNCHANGED <<defs, gens, ops, queue, started, dirty, flushOk, barriers, disk,
                     saved, owed, faults, epoch, fenced, rosterSeen, sessions, reserved,
                     closing, seqs, imports>>
  BY DEF FlushDone, OnlyWorker, WorkKeeps
<1>2. worker' = IF worker.item.kind = "barrier" THEN [worker EXCEPT !.pc = "resolve"] ELSE Idle
  BY DEF FlushDone, OnlyWorker, To
<1>3. worker' \in Worker /\ worker'.pc \in {"resolve", "idle"}
  <2>1. [worker EXCEPT !.pc = "resolve"] \in Worker /\ [worker EXCEPT !.pc = "resolve"].pc = "resolve"
    BY <1>0 DEF Worker
  <2>2. Idle \in Worker /\ Idle.pc = "idle"
    BY Constants DEF Idle
  <2> QED
    BY <1>2, <2>1, <2>2
<1>4. AtRest' /\ StoreTyped'
  BY <1>0, <1>1, <1>3 DEF AtRest, StoreTyped
<1> QED
  BY <1>0, <1>1, <1>4, Quiet, MovesSame, QueueSame, RestStep

\* A barrier is answered.
LEMMA ResolveStep ==
    ASSUME StoreInv, Resolve
    PROVE  StoreInv' /\ UNCHANGED ops
<1>0. StoreTyped /\ worker.pc = "resolve" /\ started /\ worker \in Worker
  BY DEF StoreInv, StoreTyped, Resolve, QueueInv, Idle
<1>1. UNCHANGED <<defs, gens, ops, queue, started, dirty, disk, saved, owed,
                  epoch, fenced, rosterSeen, sessions, reserved, closing, seqs, imports>>
  BY DEF Resolve, WorkKeeps
<1>2. PICK ok \in {flushOk, FALSE} :
          /\ ok # flushOk => faults < MaxFaults
          /\ faults' = IF ok = flushOk THEN faults ELSE faults + 1
          /\ barriers' = [barriers EXCEPT ![worker.item.id] = IF ok THEN "true" ELSE "false"]
  BY DEF Resolve
<1>3. faults' \in 0..MaxFaults /\ flushOk' \in BOOLEAN
  <2>1. faults \in 0..MaxFaults
    BY <1>0 DEF StoreTyped
  <2> QED
    BY <1>2, <2>1 DEF Resolve
<1>4. barriers' \in Seq(Outcomes)
  <2> DEFINE answer == IF ok THEN "true" ELSE "false"
  <2>1. answer \in Outcomes
    BY DEF Outcomes
  <2>2. barriers \in Seq(Outcomes)
    BY <1>0 DEF StoreTyped
  <2>3. barriers' = [barriers EXCEPT ![worker.item.id] = answer]
    BY <1>2
  <2> HIDE DEF answer
  <2>4. CASE worker.item.id \in 1..Len(barriers)
    BY <2>1, <2>2, <2>3, <2>4, ExceptSeq
  <2>5. CASE worker.item.id \notin 1..Len(barriers)
    <3>1. barriers' = barriers
      BY <2>2, <2>3, <2>5
    <3> QED
      BY <2>2, <3>1
  <2> QED
    BY <2>4, <2>5
<1>5. worker' \in Worker /\ worker'.pc \in {"idle", "exit"}
  <2>1. worker' = IF worker.item.closing THEN [Idle EXCEPT !.pc = "exit"] ELSE Idle
    BY DEF Resolve, To
  <2>2. Idle \in Worker /\ Idle.pc = "idle"
    BY Constants DEF Idle
  <2>3. [Idle EXCEPT !.pc = "exit"] \in Worker /\ [Idle EXCEPT !.pc = "exit"].pc = "exit"
    BY <2>2 DEF Worker
  <2> QED
    BY <2>1, <2>2, <2>3
<1>6. AtRest' /\ StoreTyped'
  BY <1>0, <1>1, <1>3, <1>4, <1>5 DEF AtRest, StoreTyped
<1> QED
  BY <1>0, <1>1, <1>6, Quiet, MovesSame, QueueSame, RestStep

\* Any step of the worker keeps the invariant; it begins no edit and leaves the host alone.
LEMMA WorkerKeeps ==
    ASSUME StoreInv, HostTyped, Persist
    PROVE  StoreInv' /\ HostTyped'
<1>1. StoreInv' /\ DOMAIN ops' = DOMAIN ops
  BY TakeStep, AdmitStep, SaveStep, CommitStep, FlushAdmitStep, FlushSaveStep,
     FlushCommitStep, FlushDoneStep, ResolveStep DEF Persist, WorkerStep
<1>2. HostTyped'
  BY <1>1 DEF Persist, StoreOnly, hostVars, HostTyped
<1> QED
  BY <1>1, <1>2

-----------------------------------------------------------------------------
(* The invariant *)

\* The store as it is opened over a saved document.
LEMMA Initially == Init => IInv
<1> SUFFICES ASSUME Init
             PROVE  IInv
  OBVIOUS
<1> DEFINE Saved == [source |-> 0, window |-> 0, enabled |-> TRUE]
<1>1. /\ disk \in [Names -> {NoCrop, Saved}] /\ defs = disk
      /\ gens = [n \in Names |-> IF Exists(disk[n]) THEN 0 ELSE -1]
      /\ reserved = [n \in Names |-> 0]
      /\ ops = <<>> /\ queue = <<>> /\ started = FALSE /\ worker = Idle
      /\ epoch = 0 /\ fenced = TRUE /\ rosterSeen = 0 /\ sessions = [n \in Names |-> 0]
      /\ dirty = [n \in Names |-> NoMove] /\ seqs = [n \in Names |-> 0]
      /\ flushOk = TRUE /\ barriers = <<>> /\ closing = FALSE
      /\ saved = {} /\ owed = [n \in Names |-> 0] /\ faults = 0 /\ imports = 0
  BY DEF Init, StoreInit
<1>2. Saved \in Crops
  BY DEF Crops, Definition, Imported
<1> HIDE DEF Saved
<1>3. StoreTyped
  <2>1. disk \in [Names -> Crops] /\ defs \in [Names -> Crops]
    BY <1>1, <1>2, Constants
  <2>2. gens \in [Names -> -1..MaxOps] /\ reserved \in [Names -> 0..MaxOps]
    BY <1>1
  <2>3. ops \in Seq(Operation) /\ Len(ops) <= MaxOps /\ queue \in Seq(Item)
        /\ barriers \in Seq(Outcomes) /\ saved \subseteq DOMAIN ops
    BY <1>1
  <2>4. sessions \in Snapshot /\ worker \in Worker /\ dirty \in [Names -> Moves]
    BY <1>1, Constants DEF Offline
  <2>5. seqs \in [Names -> 0..MaxMoves] /\ owed \in [Names -> 0..MaxMoves]
    BY <1>1
  <2>6. /\ started \in BOOLEAN /\ fenced \in BOOLEAN /\ flushOk \in BOOLEAN
        /\ closing \in BOOLEAN /\ epoch \in 0..MaxEpoch /\ rosterSeen \in Nat
        /\ faults \in 0..MaxFaults /\ imports \in 0..MaxImports
    <3>1. /\ started = FALSE /\ fenced = TRUE /\ flushOk = TRUE /\ closing = FALSE
          /\ epoch = 0 /\ rosterSeen = 0 /\ faults = 0 /\ imports = 0
      BY <1>1
    <3>2. 0 \in 0..MaxEpoch /\ 0 \in 0..MaxFaults /\ 0 \in 0..MaxImports /\ 0 \in Nat
      BY CropBounds
    <3> QED
      BY <3>1, <3>2, Zenon
  <2> QED
    BY <2>1, <2>2, <2>3, <2>4, <2>5, <2>6 DEF StoreTyped
<1>4. HostTyped
  <2>1. roster = <<[n \in Names |-> 1]>> /\ [n \in Names |-> 1] \in Snapshot
    BY DEF Init, Snapshot
  <2>2. roster \in Seq(Snapshot) /\ Len(roster) <= MaxRosters
    BY <2>1
  <2>3. commands = <<>> /\ active = [n \in Names |-> 0] /\ waiting = [n \in Names |-> {}]
        /\ live = [n \in Names |-> NoWindow] /\ moves = 0 /\ pump = "stopped" /\ final = FALSE
    BY DEF Init
  <2>4. live \in [Names -> Frame]
    BY <2>3, Constants
  <2>5. commands \in Seq(Nat) /\ \A k \in DOMAIN commands : commands[k] \in DOMAIN ops
    BY <2>3
  <2>6. /\ active \in [Names -> Nat] /\ \A n \in Names : active[n] = 0
        /\ waiting \in [Names -> SUBSET Nat] /\ \A n \in Names : waiting[n] = {}
    BY <2>3
  <2>7. moves \in 0..MaxMoves /\ final \in BOOLEAN
        /\ pump \in {"stopped", "running", "asked", "stopping", "draining"}
    <3>1. 0 \in 0..MaxMoves
      BY CropBounds
    <3> QED
      BY <2>3, <3>1, Zenon
  <2> QED
    BY <2>2, <2>4, <2>5, <2>6, <2>7 DEF HostTyped
<1>5. QueueInv /\ GenInv
  BY <1>1 DEF QueueInv, GenInv
<1>6. WorkInv /\ CarryInv /\ OneTrueOutcome /\ DiskInv /\ MovesSurvive /\ ~Writes
  BY <1>1 DEF WorkInv, CarryInv, OneTrueOutcome, DiskInv, MovesSurvive, Writes, Idle
<1>7. MoveInv
  BY <1>1, <1>6, Constants DEF MoveInv
<1> QED
  BY <1>3, <1>4, <1>5, <1>6, <1>7 DEF IInv, StoreInv

\* A step is the worker's, or it does to the store what Outside says.
LEMMA Inductive == IInv /\ [Next]_vars => IInv'
<1> SUFFICES ASSUME IInv, [Next]_vars
             PROVE  IInv'
  OBVIOUS
<1>0. /\ StoreInv /\ HostTyped /\ StoreTyped /\ QueueInv /\ GenInv /\ WorkInv
      /\ OneTrueOutcome /\ DiskInv /\ MoveInv /\ CarryInv /\ MovesSurvive
  BY DEF IInv, StoreInv
<1>1. CASE Persist
  BY <1>0, <1>1, WorkerKeeps DEF IInv
<1>2. ASSUME Outside, HostTyped'
      PROVE  IInv'
  BY <1>0, <1>2, OutsideTyped, OutsideKeepsQueue, OutsideKeepsWork, OutsideKeepsOutcome,
     OutsideKeepsMoves DEF IInv, StoreInv
<1>3. CASE HostStep
  BY <1>0, <1>2, <1>3, HostStepOutside
<1>4. CASE Handlers \/ Picker
  BY <1>0, <1>2, <1>4, HandlersOutside
<1>5. CASE UNCHANGED vars
  <2>1. UNCHANGED storeVars /\ UNCHANGED hostVars
    BY <1>5 DEF vars
  <2>2. Outside
    BY <1>0, <2>1, Stays
  <2>3. HostTyped'
    BY <1>0, <2>1 DEF HostTyped, storeVars, hostVars
  <2> QED
    BY <1>2, <2>2, <2>3
<1> QED
  BY <1>1, <1>3, <1>4, <1>5 DEF Next

\* The inductive invariant holds in every state the store, the host and the pump reach.
THEOREM Invariance == Spec => []IInv
<1> QED
  BY Initially, Inductive, PTL DEF Spec

\* Every variable of the store, the host and the pump keeps the shape the code gives it.
THEOREM TypeCorrect == Spec => []TypeOK
<1>1. IInv => TypeOK
  <2> SUFFICES ASSUME StoreTyped, HostTyped
               PROVE  TypeOK
    BY DEF IInv, StoreInv
  <2>1. /\ \A k \in DOMAIN queue : queue[k].kind \in {"op", "flush", "barrier"}
        /\ worker.pc \in {"idle", "admit", "save", "commit", "flush", "flushSave",
                          "flushCommit", "resolve", "exit"}
        /\ worker.def \in Definition \cup {NoCrop} /\ worker.left \subseteq Names
    <3>1. \A k \in DOMAIN queue : queue[k] \in Item
      BY DEF StoreTyped
    <3>2. worker \in Worker
      BY DEF StoreTyped
    <3> QED
      BY <3>1, <3>2 DEF Item, Worker, Crops
  <2>2. DOMAIN ops \subseteq OpIds
    BY DEF StoreTyped, OpIds
  <2>3. active \in [Names -> 0..MaxOps]
    <3>1. \A n \in Names : active[n] \in 0..MaxOps
      BY <2>2 DEF HostTyped, OpIds
    <3> QED
      BY <3>1 DEF HostTyped
  <2>4. /\ defs \in [Names -> Definition \cup {NoCrop}]
        /\ disk \in [Names -> Definition \cup {NoCrop}]
        /\ gens \in [Names -> -1..MaxOps] /\ reserved \in [Names -> 0..MaxOps]
        /\ ops \in Seq(Operation) /\ Len(ops) <= MaxOps
        /\ sessions \in [Names -> 0..MaxRosters] /\ dirty \in [Names -> Move \cup {NoMove}]
        /\ seqs \in [Names -> 0..MaxMoves] /\ barriers \in Seq({"pending", "true", "false"})
        /\ saved \subseteq OpIds /\ owed \in [Names -> 0..MaxMoves]
    BY <2>2 DEF StoreTyped, Crops, Snapshot, Moves, Outcomes
  <2>5. /\ started \in BOOLEAN /\ fenced \in BOOLEAN /\ flushOk \in BOOLEAN
        /\ closing \in BOOLEAN /\ epoch \in 0..MaxEpoch
        /\ pump \in {"stopped", "running", "asked", "stopping", "draining"}
        /\ final \in BOOLEAN /\ moves \in 0..MaxMoves
    BY DEF StoreTyped, HostTyped
  <2> QED
    BY <2>1, <2>3, <2>4, <2>5 DEF TypeOK
<1> QED
  BY <1>1, Invariance, PTL

(* The answer an edit gets is the truth about the disk, whatever fence,    *)
(* cancellation, close or failed start meets it on the way.                *)
THEOREM OneTrueOutcomeAlways == Spec => []OneTrueOutcome
<1>1. IInv => OneTrueOutcome
  BY DEF IInv, StoreInv
<1> QED
  BY <1>1, Invariance, PTL

\* What the program shows as saved is on disk, but between a save and its own commit.
THEOREM MemoryIsDiskAlways == Spec => []MemoryIsDisk
<1>1. IInv => MemoryIsDisk
  BY DEF IInv, StoreInv, DiskInv, WorkInv, MemoryIsDisk
<1> QED
  BY <1>1, Invariance, PTL

(* A move of a crop window that the store accepted is in the definition or *)
(* still owed to the disk under the generation that will be let through.   *)
THEOREM MovesSurviveAlways == Spec => []MovesSurvive
<1>1. IInv => MovesSurvive
  BY DEF IInv, StoreInv
<1> QED
  BY <1>1, Invariance, PTL
=============================================================================
