----------------------- MODULE SharingControl_proofs -----------------------
(***************************************************************************)
(* Off is final, and nothing is published past it, for any number of       *)
(* choices, requests and faults.                                           *)
(*                                                                         *)
(* The argument is about revisions.  A request can change the relay only   *)
(* with the session it has and a revision it has not seen; the owner saves *)
(* a revision before it uses it, so what an answer was given to is the     *)
(* newest request there is (RevisionInv), and every other one is dead from *)
(* then on (AnswerInv).  FinalInv and OffInv say where an Off is on its    *)
(* way from the queue over the journal to the relay, and that no On can    *)
(* overtake it there.                                                      *)
(***************************************************************************)
EXTENDS SharingControl, TLAPS

(* The types of the variables, each under a name of its own *)

Choices == Intent \cup {NoIntent}
Users == [pc : {"idle", "chosen", "prefer"}, intent : Choices, saw : Choices]
Commands == [intent : Choices, supersedes : Choices]
Journal == [pending : Choices, observed : Participation, session : Nat, rev : Nat]
Flags == [device : BOOLEAN, part : BOOLEAN, fresh : BOOLEAN,
          withdraw : BOOLEAN, published : BOOLEAN, auth : Nat]
Proofs == [gen : Nat, fence : -1..MaxClicks]
Relays == [on : BOOLEAN, gen : Nat, session : Nat, rev : Nat]
Results == {"ok", "unauthorized", "replayed", "conflict", "forbidden"}
Answers == [result : Results, on : BOOLEAN, gen : Nat]
Turns == [pc : {"idle", "ingest", "alloc", "send", "wait", "reply", "accept", "ack"},
          work : Operations, fence : 0..MaxClicks, next : Journal, msg : Message,
          answer : Answers]

Typed ==
    /\ user \in Users /\ cmd \in Commands /\ gens \in 0..MaxClicks
    /\ inhibit \in BOOLEAN /\ pref \in BOOLEAN
    /\ off \in BOOLEAN /\ final \in BOOLEAN /\ ours \in BOOLEAN
    /\ state \in Journal /\ flags \in Flags /\ proof \in Proofs /\ own \in Turns
    /\ net \subseteq Message /\ relay \in Relays
    /\ clicks \in 0..MaxClicks /\ lives \in 0..MaxLive /\ faults \in 0..MaxFaults

Answered == {"reply", "accept", "ack"}
Acked == own.answer.result = "ok"

\* The request can no longer change the relay.
Dead(m) == m.session < relay.session \/ (m.session = relay.session /\ m.rev <= relay.rev)
NoOnIsLive == \A m \in net : m.op = "set" /\ m.on => Dead(m)

\* Only a bound choice was attempted, and revisions are a session's: in the journal
\* and in what is about to be saved there.  A choice just made is neither.
JournalInv ==
    /\ state.pending.attempted => state.pending.gen # 0
    /\ state.session = 0 => state.rev = 0
    /\ own.pc \in {"ingest", "alloc", "accept"} =>
          /\ own.next.pending.attempted => own.next.pending.gen # 0
          /\ own.next.session = 0 => own.next.rev = 0
    /\ ~cmd.intent.attempted /\ ~user.intent.attempted

\* The fence counts choices that were queued.
FenceInv ==
    /\ user.pc # "idle" => user.intent \in Intent
    /\ cmd # NoCommand => cmd.intent \in Intent
    /\ gens <= clicks /\ (user.pc = "chosen" => gens < clicks)

\* What the owner carries from one of its steps to the next.
TurnInv ==
    /\ own.pc = "ingest" => /\ own.next.session = state.session
                            /\ own.next.rev = state.rev
                            /\ cmd # NoCommand
    /\ own.pc = "alloc" => /\ own.next.pending.on = state.pending.on
                           /\ own.next.session = state.session
                           /\ own.next.rev = state.rev + 1
                           /\ own.next.observed = state.observed
                           /\ state.session # 0
                           /\ state.pending = NoIntent => own.work # "set"
                           /\ own.next.pending = NoIntent <=> state.pending = NoIntent
    /\ own.pc \in {"alloc", "send"} /\ own.work = "publish" => state.pending = NoIntent
    /\ own.pc = "wait" => /\ own.msg.op = own.work
                          /\ own.msg.session = state.session
                          /\ own.msg.rev = state.rev
                          /\ own.msg.on = state.pending.on
    /\ own.pc \in {"send", "wait"} => state.session # 0
    /\ own.pc \notin {"idle", "ingest"} /\ gens # own.fence => cmd # NoCommand

\* Every request is of the relay's session or an older one, and none has a
\* revision beyond the one the owner saved last.
RevisionInv ==
    /\ relay.session > 0
    /\ state.session <= relay.session
    /\ state.session = relay.session => relay.rev <= state.rev
    /\ \A m \in net : /\ m.session <= relay.session
                      /\ m.session = relay.session =>
                            state.session = relay.session /\ m.rev <= state.rev

\* What an answer in the owner's hands says: to a session that is gone, or to the
\* newest request, which showed what the relay then was.
AnswerInv ==
    own.pc \in Answered =>
        /\ own.answer.result = "unauthorized" => state.session # relay.session
        /\ Acked => /\ state.session = relay.session => relay.rev = state.rev
                    /\ ~own.answer.on =>
                          /\ ~(relay.on /\ ours)
                          /\ off /\ pref /\ cmd = NoCommand => ~relay.on
        /\ Acked /\ own.work = "set" /\ own.pc = "reply" => own.answer.on = state.pending.on
        /\ own.pc = "accept" =>
              /\ own.next.pending \in {state.pending, NoIntent}
              /\ own.next.pending # state.pending =>
                    Acked /\ own.answer.on = state.pending.on
              /\ own.next.observed = IF Acked THEN Seen ELSE state.observed
              /\ own.next.session = IF own.answer.result = "unauthorized" THEN 0
                                    ELSE state.session
              /\ own.next.session # 0 => own.next.rev = state.rev
        /\ own.pc = "ack" =>
              /\ state.pending \in {own.next.pending, NoIntent}
              /\ own.next.pending # state.pending =>
                    Acked /\ own.answer.on = own.next.pending.on
        /\ own.pc \in {"accept", "ack"} => own.answer.result \in {"ok", "unauthorized"}

\* Once an Off is acknowledged there is no On in the queue, in the journal or
\* under way to the relay.
FinalInv ==
    final => /\ ~cmd.intent.on /\ ~state.pending.on
             /\ own.pc = "ingest" => ~own.next.pending.on
             /\ NoOnIsLive

\* An Off the relay confirmed: it was observed, and nothing under way turns the
\* relay on again.
SettledOff ==
    /\ state.pending = NoIntent /\ ~state.observed.on /\ ~relay.on /\ NoOnIsLive
    /\ own.pc \in Answered /\ Acked => ~own.answer.on

\* While an Off protects, it is queued, or in the journal, or confirmed, unless the
\* preference is off; and what the owner is about to publish is older than it, or the
\* relay was seen off.
OffInv ==
    /\ off /\ pref => /\ ~cmd.intent.on
                      /\ cmd = NoCommand =>
                            (state.pending # NoIntent /\ ~state.pending.on) \/ SettledOff
    /\ InHand /\ cmd = NoCommand => ~off \/ ~state.observed.on

IInv ==
    /\ Typed /\ JournalInv /\ FenceInv /\ TurnInv /\ RevisionInv /\ AnswerInv
    /\ FinalInv /\ OffIsFinal /\ OffInv

-----------------------------------------------------------------------------
USE SharingBounds

\* The values a variable is set back to are of its type.
LEMMA Constants ==
    /\ NoIntent \notin Intent /\ NoIntent \in Choices /\ Intent \subseteq Choices
    /\ NoUser \in Users /\ NoCommand \in Commands /\ Idle \in Turns
    /\ Started \in Flags /\ NoProof \in Proofs /\ Unknown \in Participation
<1>1. NoIntent \notin Intent /\ NoIntent \in Choices /\ Unknown \in Participation
  BY DEF NoIntent, Intent, Choices, Unknown, Participation
<1>2. Idle.next \in Journal /\ NoMessage \in Message /\ Answer("ok", Unknown) \in Answers
  BY <1>1 DEF Idle, Journal, Unknown, Participation, NoMessage, Message,
              Answer, Answers, Results, Operations
<1>3. Idle \in Turns
  BY <1>2 DEF Idle, Turns, Operations
<1>4. NoUser \in Users /\ NoCommand \in Commands
  BY <1>1 DEF NoUser, Users, NoCommand, Commands, Queued
<1> QED
  BY <1>1, <1>3, <1>4 DEF Started, NoProof, Flags, Proofs, Choices

\* What the fields of the variables are.
LEMMA Fields ==
    ASSUME Typed
    PROVE  /\ \A s \in Journal : /\ s.pending \in Choices /\ s.observed \in Participation
                                 /\ s.session \in Nat /\ s.rev \in Nat
           /\ \A i \in Choices : /\ i.id \in 0..MaxClicks /\ i.on \in BOOLEAN
                                 /\ i.gen \in Nat /\ i.attempted \in BOOLEAN
           /\ own.work \in Operations /\ own.fence \in 0..MaxClicks /\ own.next \in Journal
           /\ own.msg \in Message /\ own.answer \in Answers
           /\ own.answer.on \in BOOLEAN /\ own.answer.gen \in Nat
           /\ relay.on \in BOOLEAN /\ {relay.gen, relay.session, relay.rev} \subseteq Nat
           /\ user.intent \in Choices /\ user.saw \in Choices
           /\ cmd.intent \in Choices /\ cmd.supersedes \in Choices
           /\ \A m \in Message : {m.gen, m.session, m.rev} \subseteq Nat /\ m.on \in BOOLEAN
<1>1. \A i \in Choices : /\ i.id \in 0..MaxClicks /\ i.on \in BOOLEAN
                         /\ i.gen \in Nat /\ i.attempted \in BOOLEAN
  <2>1. \A i \in Intent : i.id \in 0..MaxClicks /\ i.on \in BOOLEAN
                           /\ i.gen \in Nat /\ i.attempted \in BOOLEAN
    BY DEF Intent
  <2>2. /\ NoIntent.id \in 0..MaxClicks /\ NoIntent.on \in BOOLEAN
        /\ NoIntent.gen \in Nat /\ NoIntent.attempted \in BOOLEAN
    BY DEF NoIntent
  <2> QED
    BY <2>1, <2>2 DEF Choices
<1>2. \A s \in Journal : /\ s.pending \in Choices /\ s.observed \in Participation
                         /\ s.session \in Nat /\ s.rev \in Nat
  BY DEF Journal
<1>3. \A m \in Message : {m.gen, m.session, m.rev} \subseteq Nat /\ m.on \in BOOLEAN
  BY DEF Message
<1>4. \A a \in Answers : a.on \in BOOLEAN /\ a.gen \in Nat
  BY DEF Answers
<1>5. /\ own.work \in Operations /\ own.fence \in 0..MaxClicks /\ own.next \in Journal
      /\ own.msg \in Message /\ own.answer \in Answers
  BY DEF Typed, Turns
<1> QED
  BY <1>1, <1>2, <1>3, <1>4, <1>5 DEF Typed, Relays, Users, Commands

\* Every step keeps every variable in its type; what gens counts are choices.
LEMMA TypedKept ==
    ASSUME Typed, FenceInv, [Next]_vars
    PROVE  Typed'
<1> USE Constants, Fields DEF userVars, latches
<1>1. ASSUME NEW on \in BOOLEAN, NEW matched \in BOOLEAN, Choose(on, matched)
      PROVE  Typed'
  <2>1. clicks' \in 1..MaxClicks
    BY <1>1 DEF Choose, Typed
  <2>2. (IF matched THEN state.observed.gen ELSE 0) \in Nat
    BY DEF Typed, Participation
  <2>3. user'.intent \in Intent /\ user'.saw \in Choices /\ user' \in Users
    BY <1>1, <2>1, <2>2 DEF Choose, Typed, Intent, Users, Choices
  <2> QED
    BY <1>1, <2>1, <2>3 DEF Choose, Typed
<1>2. CASE Queue
  <2>1. user' \in Users
    BY <1>2 DEF Queue, Typed, Users
  <2>2. cmd' \in Commands
    BY <1>2 DEF Queue, Queued, Commands, Typed
  <2>3. gens' \in 0..MaxClicks
    BY <1>2 DEF Queue, FenceInv, Typed
  <2>4. off' \in BOOLEAN /\ final' \in BOOLEAN
    BY <1>2, Zenon DEF Queue, Typed
  <2> QED
    BY <1>2, <2>1, <2>2, <2>3, <2>4 DEF Queue, Typed
<1>3. CASE Prefer
  <2>1. off' \in BOOLEAN
    BY <1>3, Zenon DEF Prefer, Typed
  <2> QED
    BY <1>3, <2>1 DEF Prefer, Typed
<1>4. CASE RefuseCommand
  <2>1. off' \in BOOLEAN
    BY <1>4, Zenon DEF RefuseCommand, Typed
  <2> QED
    BY <1>4, <2>1 DEF RefuseCommand, Typed
<1>5. CASE Ingest
  <2>1. [state EXCEPT !.pending = cmd.intent] \in Journal
    BY DEF Typed, Journal
  <2>2. own' \in Turns
    BY <1>5, <2>1 DEF Ingest, Turns, Typed
  <2> QED
    BY <1>5, <2>2 DEF Ingest, Typed
<1>6. CASE SaveCommand
  <2>1. (~own.next.pending.on /\ flags.published) \in BOOLEAN
    OBVIOUS
  <2>2. flags' \in Flags
    BY <1>6, <2>1, Zenon DEF SaveCommand, Typed, Flags
  <2> QED
    BY <1>6, <2>2 DEF SaveCommand, Typed
<1>7. ASSUME NEW w \in Operations, Plan(w)
      PROVE  Typed'
  <2>1. (state.pending.attempted \/ w = "set") \in BOOLEAN /\ state.rev + 1 \in Nat
    BY DEF Typed
  <2>2. [state.pending EXCEPT !.attempted = @ \/ w = "set"] \in Choices
    <3>1. CASE state.pending \in Intent
      BY <2>1, <3>1, Zenon DEF Choices, Intent
    <3>2. CASE state.pending = NoIntent
      <4>1. w # "set" /\ ~state.pending.attempted
        BY <1>7, <3>2 DEF Plan, Works, LiveWorks, NoIntent
      <4> QED
        BY <3>2, <4>1 DEF NoIntent, Choices
    <3> QED
      BY <3>1, <3>2 DEF Typed, Choices
  <2>3. Candidate(state, w) \in Journal
    BY <2>1, <2>2 DEF Candidate, Typed, Journal
  <2>4. own' \in Turns
    BY <1>7, <2>3 DEF Plan, Turns, Typed
  <2>5. lives' \in 0..MaxLive
    BY <1>7 DEF Plan, Typed, LiveWorks
  <2> QED
    BY <1>7, <2>4, <2>5 DEF Plan, Typed
<1>8. CASE Allocate
  <2>1. own' \in Turns
    BY <1>8 DEF Allocate, Turns, Typed
  <2>2. (flags.part \/ own.work = "set") \in BOOLEAN
    OBVIOUS
  <2>3. flags' \in Flags
    BY <1>8, <2>2, Zenon DEF Allocate, Flags, Typed
  <2> QED
    BY <1>8, <2>1, <2>3 DEF Allocate, Typed
<1>9. CASE Send
  <2>1. [op |-> own.work, session |-> state.session, rev |-> state.rev,
         on |-> state.pending.on, gen |-> state.pending.gen] \in Message
    BY DEF Typed, Message
  <2>2. own' \in Turns /\ net' \subseteq Message
    BY <1>9, <2>1 DEF Send, Turns, Typed
  <2>3. off' \in BOOLEAN
    BY <1>9, Zenon DEF Send, Typed
  <2> QED
    BY <1>9, <2>2, <2>3 DEF Send, Typed
<1>10. CASE ReplyToSave
  <2>1. Seen \in Participation
    BY DEF Seen, Participation
  <2>2. own'.next \in Journal
    BY <1>10, <2>1 DEF ReplyToSave, WithoutSession, Journal, Turns, Typed
  <2>3. own' \in Turns
    BY <1>10, <2>2 DEF ReplyToSave, Turns, Typed
  <2>4. \E x \in BOOLEAN : flags' = [flags EXCEPT !.fresh = x]
    BY <1>10, Zenon DEF ReplyToSave
  <2>5. flags' \in Flags
    BY <2>4 DEF Flags, Typed
  <2> QED
    BY <1>10, <2>3, <2>5 DEF ReplyToSave, Typed
<1>11. CASE Reply
  <2>1. proof' \in Proofs
    BY <1>11 DEF Reply, Proofs, Typed
  <2>2. /\ (own.work = "publish") \in BOOLEAN
        /\ (flags.withdraw /\ own.work = "publish") \in BOOLEAN
    OBVIOUS
  <2>3. flags' \in Flags
    BY <1>11, <2>2, Zenon DEF Reply, Flags, Typed
  <2> QED
    BY <1>11, <2>1, <2>3 DEF Reply, Typed
<1>12. CASE Accept
  <2>1. own' \in Turns
    BY <1>12 DEF Accept, Turns, Typed
  <2> QED
    BY <1>12, <2>1 DEF Accept, Typed
<1>13. CASE Acknowledge
  <2> DEFINE lost == own.answer.result = "unauthorized"
  <2>1. flags' \in Flags
    <3>2. /\ flags.fresh \in BOOLEAN /\ flags.withdraw \in BOOLEAN /\ state.session \in Nat
      BY DEF Typed, Flags
    <3>3. CASE lost
      BY <1>13, <3>2, <3>3 DEF Acknowledge, Flags
    <3>4. CASE ~lost /\ own.work = "set"
      BY <1>13, <3>4 DEF Acknowledge, Flags, Typed
    <3>5. CASE ~lost /\ own.work # "set"
      <4>1. flags' = [flags EXCEPT !.device = FALSE, !.part = FALSE,
                                   !.auth = state.session]
        BY <1>13, <3>5 DEF Acknowledge
      <4> QED
        BY <3>2, <4>1, Zenon DEF Flags, Typed
    <3> QED
      BY <3>3, <3>4, <3>5
  <2>2. inhibit' \in BOOLEAN
    <3>1. /\ (~Seen.on) \in BOOLEAN
          /\ (inhibit /\ (flags.fresh \/ ~Seen.on \/ own.next.pending # NoIntent))
                \in BOOLEAN
      OBVIOUS
    <3> QED
      BY <1>13, <3>1, Zenon DEF Acknowledge, Typed
  <2>3. final' \in BOOLEAN
    BY <1>13, Zenon DEF Acknowledge
  <2> QED
    BY <1>13, <2>1, <2>2, <2>3 DEF Acknowledge, Typed
<1>14. CASE Recover
  <2>a. relay' \in Relays /\ relay'.session \in Nat
    <3>1. relay.session + 1 \in Nat
      OBVIOUS
    <3> QED
      BY <1>14, <3>1 DEF Recover, Relays, Typed
  <2>1. state' \in Journal
    BY <1>14, <2>a DEF Recover, Journal, Typed, Participation
  <2>2. flags' \in Flags
    BY <1>14, <2>a DEF Recover, Flags, Typed
  <2> QED
    BY <1>14, <2>a, <2>1, <2>2 DEF Recover, Typed
<1>15. ASSUME NEW m \in net, Deliver(m)
       PROVE  Typed'
  <2>1. RelayAnswer(m) \in Answers
    BY DEF RelayAnswer, Answer, Answers, Results, Typed
  <2>2. relay' \in Relays
    BY <1>15, <2>1 DEF Deliver, Relays, Answers, Typed
  <2>3. own' \in Turns
    BY <1>15, <2>1 DEF Deliver, Turns, Typed
  <2>4. ours' \in BOOLEAN
    BY <1>15 DEF Deliver, Typed
  <2> QED
    BY <1>15, <2>2, <2>3, <2>4 DEF Deliver, Typed
<1>16. CASE LoseAnswer
  <2>1. flags' \in Flags
    BY <1>16 DEF LoseAnswer, Flags, Typed
  <2> QED
    BY <1>16, <2>1 DEF LoseAnswer, Fault, Typed
<1>17. CASE SaveFails
  BY <1>17 DEF SaveFails, Fault, Typed
<1>18. CASE Crash
  <2>1. off' \in BOOLEAN /\ inhibit' \in BOOLEAN
    BY <1>18, Zenon DEF Crash
  <2> QED
    BY <1>18, <2>1 DEF Crash, Fault, Typed
<1>19. CASE Browser
  <2>1. (~relay.on) \in BOOLEAN /\ relay.gen + 1 \in Nat
    OBVIOUS
  <2>2. relay' \in Relays
    BY <1>19, <2>1, Zenon DEF Browser, Relays, Typed
  <2>3. off' \in BOOLEAN
    BY <1>19, Zenon DEF Browser
  <2>4. faults' \in 0..MaxFaults /\ FALSE \in BOOLEAN
    BY <1>19 DEF Browser, Fault, Typed
  <2> QED
    BY <1>19, <2>2, <2>3, <2>4, Zenon DEF Browser, Typed
<1>20. CASE Revoke
  <2>1. relay.session + 1 \in Nat
    OBVIOUS
  <2>2. relay' \in Relays
    BY <1>20, <2>1 DEF Revoke, Relays, Typed
  <2> QED
    BY <1>20, <2>2 DEF Revoke, Fault, Typed
<1>21. CASE UNCHANGED vars
  BY <1>21 DEF vars, Typed
<1> QED
  BY <1>1, <1>2, <1>3, <1>4, <1>5, <1>6, <1>7, <1>8, <1>9, <1>10, <1>11, <1>12, <1>13,
     <1>14, <1>15, <1>16, <1>17, <1>18, <1>19, <1>20, <1>21 DEF Next


\* A candidate takes the next revision, and marks a choice it is to send.
LEMMA CandidateFields ==
    ASSUME NEW s \in Journal, NEW w \in Operations,
           w = "set" => s.pending # NoIntent
    PROVE  LET c == Candidate(s, w) IN
           /\ c.session = s.session /\ c.rev = s.rev + 1 /\ c.observed = s.observed
           /\ c.pending.on = s.pending.on /\ c.pending.gen = s.pending.gen
           /\ c.pending.attempted => s.pending.attempted \/ w = "set"
           /\ c.pending = NoIntent <=> s.pending = NoIntent
<1>1. s.pending \in Choices
  BY DEF Journal
<1>2. /\ Candidate(s, w).session = s.session /\ Candidate(s, w).rev = s.rev + 1
      /\ Candidate(s, w).observed = s.observed
      /\ Candidate(s, w).pending = [s.pending EXCEPT !.attempted = @ \/ w = "set"]
  BY DEF Candidate, Journal
<1>3. CASE s.pending = NoIntent
  <2>1. w # "set" /\ NoIntent.attempted = FALSE
    BY <1>3 DEF NoIntent
  <2>2. (NoIntent.attempted \/ w = "set") = FALSE
    BY <2>1, Zenon
  <2>3. Candidate(s, w).pending = [NoIntent EXCEPT !.attempted = FALSE]
    BY <1>2, <1>3, <2>2, Zenon
  <2>4. [NoIntent EXCEPT !.attempted = FALSE] = NoIntent
    BY <2>1, Zenon DEF NoIntent
  <2>5. Candidate(s, w).pending = NoIntent
    BY <2>3, <2>4
  <2> QED
    BY <1>2, <1>3, <2>1, <2>5
<1>4. CASE s.pending \in Intent
  <2>1. /\ Candidate(s, w).pending.id = s.pending.id
        /\ Candidate(s, w).pending.on = s.pending.on
        /\ Candidate(s, w).pending.gen = s.pending.gen
        /\ Candidate(s, w).pending.attempted => s.pending.attempted \/ w = "set"
    BY <1>2, <1>4 DEF Intent
  <2>2. s.pending.id # 0 /\ NoIntent.id = 0
    BY <1>4 DEF Intent, NoIntent
  <2> QED
    BY <1>2, <2>1, <2>2
<1> QED
  BY <1>1, <1>3, <1>4 DEF Choices

\* A request that reaches the relay: a dead one changes nothing, and only a live
\* choice changes what the relay has on.
LEMMA Delivered ==
    ASSUME Typed, RevisionInv, NEW m \in net, Deliver(m)
    PROVE  /\ relay'.session = relay.session /\ relay'.rev >= relay.rev
           /\ Dead(m) <=> ~RelayAccepts(m)
           /\ Dead(m) => relay' = relay /\ ours' = ours
           /\ relay'.on # relay.on => m.op = "set" /\ relay'.on = m.on
           /\ ours' # ours => m.op = "set" /\ relay'.on = m.on /\ ours' = m.on
           /\ \A n \in net : Dead(n) => Dead(n)'
           /\ own'.pc \in {own.pc, "reply"} /\ own'.next = own.next
           /\ own.pc # "wait" => own' = own
           /\ own'.pc # own.pc => own'.answer = RelayAnswer(m)
<1> USE Fields
<1>1. Dead(m) <=> ~RelayAccepts(m)
  BY DEF Dead, RelayAccepts, RevisionInv, Typed
<1>2. CASE ~RelayAccepts(m)
  <2>1. relay' = relay /\ ours' = ours
    BY <1>2 DEF Deliver
  <2> QED
    BY <1>1, <1>2, <2>1 DEF Deliver, Dead, Typed, Turns
<1>3. CASE RelayAccepts(m)
  <2>1. /\ relay'.session = relay.session /\ relay'.rev = m.rev
        /\ relay'.on = RelayAnswer(m).on
    BY <1>3 DEF Deliver, Typed, Relays
  <2>2. relay'.rev > relay.rev
    BY <1>3, <2>1 DEF RelayAccepts
  <2>3. /\ m.op # "set" => RelayAnswer(m).on = relay.on
        /\ m.op = "set" => RelayAnswer(m).on \in {m.on, relay.on}
        /\ m.op = "set" /\ RelayAnswer(m).result = "ok" => RelayAnswer(m).on = m.on
        /\ m.op = "set" /\ RelayAnswer(m).on # relay.on => RelayAnswer(m).on = m.on
    BY <1>3 DEF RelayAnswer, RelayAccepts, Answer
  <2>4. /\ own'.pc \in {own.pc, "reply"} /\ own'.next = own.next
        /\ own.pc # "wait" => own' = own
        /\ own'.pc # own.pc => own'.answer = RelayAnswer(m)
    BY DEF Deliver, Typed, Turns
  <2>5. ours' # ours => m.op = "set" /\ RelayAnswer(m).result = "ok" /\ ours' = m.on
    BY DEF Deliver
  <2>6. \A n \in net : Dead(n) => Dead(n)'
    BY <2>1, <2>2 DEF Dead, Typed
  <2> QED
    BY <1>1, <1>3, <2>1, <2>2, <2>3, <2>4, <2>5, <2>6 DEF Typed
<1> QED
  BY <1>2, <1>3

\* A choice is attempted only after it is bound, and a journal without a session has no
\* revision, whatever the owner saves next.
LEMMA JournalKept ==
    ASSUME Typed, JournalInv, TurnInv, AnswerInv, [Next]_vars
    PROVE  JournalInv'
<1> USE Constants, Fields DEF userVars, latches, JournalInv, TurnInv
<1>1. ASSUME NEW on \in BOOLEAN, NEW matched \in BOOLEAN, Choose(on, matched)
      PROVE  JournalInv'
  BY <1>1 DEF Choose
<1>2. CASE Queue
  BY <1>2 DEF Queue, Queued
<1>3. CASE Prefer
  BY <1>3 DEF Prefer, NoUser, NoIntent
<1>4. CASE RefuseCommand
  BY <1>4 DEF RefuseCommand, NoCommand, Queued, NoIntent
<1>5. CASE Ingest
  <2>1. /\ own'.next.pending = cmd.intent /\ own'.next.session = state.session
        /\ own'.next.rev = state.rev
    BY <1>5 DEF Ingest, Idle, Typed, Journal
  <2> QED
    BY <1>5, <2>1 DEF Ingest
<1>6. CASE SaveCommand
  <2>1. ~cmd'.intent.attempted
    BY <1>6 DEF SaveCommand, NoCommand, Queued, NoIntent
  <2> QED
    BY <1>6, <2>1 DEF SaveCommand, Idle
<1>7. ASSUME NEW w \in Operations, Plan(w)
      PROVE  JournalInv'
  <2>1. own'.next = Candidate(state, w) /\ own'.pc = "alloc"
    BY <1>7 DEF Plan, Idle
  <2>2. w = "set" => state.pending # NoIntent /\ state.pending.gen # 0
    BY <1>7 DEF Plan, Works, LiveWorks
  <2>3. /\ own'.next.pending.attempted => state.pending.attempted \/ w = "set"
        /\ own'.next.pending.gen = state.pending.gen /\ own'.next.session = state.session
    BY <2>1, <2>2, CandidateFields DEF Typed
  <2> QED
    BY <1>7, <2>1, <2>2, <2>3 DEF Plan
<1>8. CASE Allocate
  <2>1. own'.pc \in {"idle", "send"}
    BY <1>8 DEF Allocate, Idle, Typed, Turns
  <2> QED
    BY <1>8, <2>1 DEF Allocate
<1>9. CASE Send
  <2>1. own'.pc \in {"idle", "wait"}
    BY <1>9 DEF Send, Idle, Typed, Turns
  <2> QED
    BY <1>9, <2>1 DEF Send
<1>10. CASE ReplyToSave
  <2>1. /\ own'.next.pending \in {state.pending, NoIntent}
        /\ own'.next.session \in {state.session, 0}
        /\ own'.next.session = 0 => own'.next.rev = 0
    BY <1>10 DEF ReplyToSave, WithoutSession, Typed, Turns, Journal
  <2>2. ~NoIntent.attempted
    BY DEF NoIntent
  <2> QED
    BY <1>10, <2>1, <2>2 DEF ReplyToSave
<1>11. CASE Reply
  BY <1>11 DEF Reply, Idle
<1>12. CASE Accept
  BY <1>12 DEF Accept, Idle
<1>13. CASE Acknowledge
  BY <1>13 DEF Acknowledge, Idle
<1>14. CASE Recover
  BY <1>14 DEF Recover, RevisionInv
<1>15. ASSUME NEW m \in net, Deliver(m)
      PROVE  JournalInv'
  BY <1>15 DEF Deliver
<1>16. CASE LoseAnswer
  BY <1>16 DEF LoseAnswer, Idle
<1>17. CASE SaveFails
  BY <1>17 DEF SaveFails, Idle
<1>18. CASE Crash
  BY <1>18 DEF Crash, Idle, NoUser, NoCommand, Queued, NoIntent
<1>19. CASE Browser
  BY <1>19 DEF Browser
<1>20. CASE Revoke
  BY <1>20 DEF Revoke
<1>21. CASE UNCHANGED vars
  BY <1>21 DEF vars
<1> QED
  BY <1>1, <1>2, <1>3, <1>4, <1>5, <1>6, <1>7, <1>8, <1>9, <1>10, <1>11, <1>12, <1>13,
     <1>14, <1>15, <1>16, <1>17, <1>18, <1>19, <1>20, <1>21 DEF Next

\* The fence never runs ahead of the choices made.
LEMMA FenceKept ==
    ASSUME Typed, FenceInv, [Next]_vars
    PROVE  FenceInv'
<1> USE Constants, Fields DEF userVars, latches, FenceInv
<1>1. ASSUME NEW on \in BOOLEAN, NEW matched \in BOOLEAN, Choose(on, matched)
      PROVE  FenceInv'
  BY <1>1 DEF Choose, Typed, Intent, Participation, Journal
<1>2. CASE Queue
  BY <1>2 DEF Queue, Queued, Typed
<1>3. CASE Prefer
  BY <1>3 DEF Prefer, NoUser
<1>4. CASE RefuseCommand
  BY <1>4 DEF RefuseCommand, NoCommand, Queued, Typed
<1>5. CASE Ingest
  BY <1>5 DEF Ingest, Idle
<1>6. CASE SaveCommand
  BY <1>6 DEF SaveCommand, Idle, NoCommand, Queued
<1>7. ASSUME NEW w \in Operations, Plan(w)
      PROVE  FenceInv'
  BY <1>7 DEF Plan, Idle
<1>8. CASE Allocate
  BY <1>8 DEF Allocate, Idle
<1>9. CASE Send
  BY <1>9 DEF Send, Idle
<1>10. CASE ReplyToSave
  BY <1>10 DEF ReplyToSave
<1>11. CASE Reply
  BY <1>11 DEF Reply, Idle
<1>12. CASE Accept
  BY <1>12 DEF Accept, Idle
<1>13. CASE Acknowledge
  BY <1>13 DEF Acknowledge, Idle
<1>14. CASE Recover
  BY <1>14 DEF Recover
<1>15. ASSUME NEW m \in net, Deliver(m)
      PROVE  FenceInv'
  BY <1>15 DEF Deliver
<1>16. CASE LoseAnswer
  BY <1>16 DEF LoseAnswer, Idle
<1>17. CASE SaveFails
  BY <1>17 DEF SaveFails, Idle
<1>18. CASE Crash
  BY <1>18 DEF Crash, Idle, NoUser, NoCommand, Queued, Typed
<1>19. CASE Browser
  BY <1>19 DEF Browser
<1>20. CASE Revoke
  BY <1>20 DEF Revoke
<1>21. CASE UNCHANGED vars
  BY <1>21 DEF vars
<1> QED
  BY <1>1, <1>2, <1>3, <1>4, <1>5, <1>6, <1>7, <1>8, <1>9, <1>10, <1>11, <1>12, <1>13,
     <1>14, <1>15, <1>16, <1>17, <1>18, <1>19, <1>20, <1>21 DEF Next

\* What a turn carries stays what the journal says: the owner alone saves it, and a
\* choice queued meanwhile stays queued.
LEMMA TurnKept ==
    ASSUME Typed, FenceInv, TurnInv, [Next]_vars
    PROVE  TurnInv'
<1> USE Constants, Fields DEF userVars, latches, TurnInv
<1>1. ASSUME NEW on \in BOOLEAN, NEW matched \in BOOLEAN, Choose(on, matched)
      PROVE  TurnInv'
  BY <1>1 DEF Choose
<1>2. CASE Queue
  <2>1. cmd' # NoCommand
    BY <1>2 DEF Queue, Queued, NoCommand, FenceInv
  <2> QED
    BY <1>2, <2>1 DEF Queue
<1>3. CASE Prefer
  BY <1>3 DEF Prefer, NoUser
<1>4. CASE RefuseCommand
  BY <1>4 DEF RefuseCommand, NoCommand, Queued
<1>5. CASE Ingest
  <2>1. own'.next.session = state.session /\ own'.next.rev = state.rev /\ own'.pc = "ingest"
    BY <1>5 DEF Ingest, Idle, Typed, Journal
  <2> QED
    BY <1>5, <2>1 DEF Ingest
<1>6. CASE SaveCommand
  BY <1>6 DEF SaveCommand, Idle, NoCommand, Queued
<1>7. ASSUME NEW w \in Operations, Plan(w)
      PROVE  TurnInv'
  <2>1. /\ own'.next = Candidate(state, w) /\ own'.pc = "alloc" /\ own'.work = w
        /\ own'.fence = gens
    BY <1>7 DEF Plan, Idle
  <2>2. /\ w = "set" => state.pending # NoIntent
        /\ w = "publish" => state.pending = NoIntent
    BY <1>7 DEF Plan, Works, LiveWorks, Sharing
  <2>3. /\ own'.next.pending.on = state.pending.on /\ own'.next.session = state.session
        /\ own'.next.rev = state.rev + 1 /\ own'.next.observed = state.observed
        /\ own'.next.pending = NoIntent <=> state.pending = NoIntent
    BY <2>1, <2>2, CandidateFields DEF Typed
  <2> QED
    BY <1>7, <2>1, <2>2, <2>3 DEF Plan
<1>8. CASE Allocate
  BY <1>8 DEF Allocate, Idle, Typed, Turns, Obsolete
<1>9. CASE Send
  <2>1. CASE Admitted(own.work)
    <3>1. /\ own'.pc = "wait" /\ own'.work = own.work /\ own'.fence = own.fence
          /\ own'.msg.op = own.work /\ own'.msg.session = state.session
          /\ own'.msg.rev = state.rev /\ own'.msg.on = state.pending.on
      <4>1. own' = [own EXCEPT !.pc = "wait",
                         !.msg = [op |-> own.work, session |-> state.session,
                                  rev |-> state.rev, on |-> state.pending.on,
                                  gen |-> state.pending.gen]]
        BY <1>9, <2>1 DEF Send
      <4> QED
        BY <4>1 DEF Typed, Turns
    <3> QED
      BY <1>9, <3>1 DEF Send
  <2>2. CASE ~Admitted(own.work)
    BY <1>9, <2>2 DEF Send, Idle
  <2> QED
    BY <2>1, <2>2
<1>10. CASE ReplyToSave
  BY <1>10 DEF ReplyToSave
<1>11. CASE Reply
  BY <1>11 DEF Reply, Idle, Typed, Turns
<1>12. CASE Accept
  BY <1>12 DEF Accept, Idle
<1>13. CASE Acknowledge
  BY <1>13 DEF Acknowledge, Idle
<1>14. CASE Recover
  BY <1>14 DEF Recover
<1>15. ASSUME NEW m \in net, Deliver(m)
      PROVE  TurnInv'
  BY <1>15 DEF Deliver, Typed, Turns
<1>16. CASE LoseAnswer
  BY <1>16 DEF LoseAnswer, Idle
<1>17. CASE SaveFails
  BY <1>17 DEF SaveFails, Idle
<1>18. CASE Crash
  BY <1>18 DEF Crash, Idle, NoUser, NoCommand, Queued
<1>19. CASE Browser
  BY <1>19 DEF Browser
<1>20. CASE Revoke
  BY <1>20 DEF Revoke
<1>21. CASE UNCHANGED vars
  BY <1>21 DEF vars
<1> QED
  BY <1>1, <1>2, <1>3, <1>4, <1>5, <1>6, <1>7, <1>8, <1>9, <1>10, <1>11, <1>12, <1>13,
     <1>14, <1>15, <1>16, <1>17, <1>18, <1>19, <1>20, <1>21 DEF Next

\* No request gets ahead of the journal: a revision is saved before it is sent, and a
\* new session starts above every request of the old ones.
LEMMA RevisionKept ==
    ASSUME Typed, TurnInv, RevisionInv, AnswerInv, [Next]_vars
    PROVE  RevisionInv'
<1> USE Constants, Fields DEF userVars, latches, RevisionInv, TurnInv
<1>1. ASSUME NEW on \in BOOLEAN, NEW matched \in BOOLEAN, Choose(on, matched)
      PROVE  RevisionInv'
  BY <1>1 DEF Choose
<1>2. CASE Queue
  BY <1>2 DEF Queue, Queued
<1>3. CASE Prefer
  BY <1>3 DEF Prefer, NoUser
<1>4. CASE RefuseCommand
  BY <1>4 DEF RefuseCommand, NoCommand, Queued
<1>5. CASE Ingest
  BY <1>5 DEF Ingest, Idle
<1>6. CASE SaveCommand
  BY <1>6 DEF SaveCommand, Idle, NoCommand, Queued
<1>7. ASSUME NEW w \in Operations, Plan(w)
      PROVE  RevisionInv'
  BY <1>7 DEF Plan, Idle
<1>8. CASE Allocate
  BY <1>8 DEF Allocate, Idle, Typed, Journal
<1>9. CASE Send
  <2>1. \A m \in net' \ net : m.session = state.session /\ m.rev = state.rev
    BY <1>9 DEF Send
  <2> QED
    BY <1>9, <2>1 DEF Send, Typed
<1>10. CASE ReplyToSave
  BY <1>10 DEF ReplyToSave
<1>11. CASE Reply
  BY <1>11 DEF Reply, Idle
<1>12. CASE Accept
  BY <1>12 DEF Accept, Idle, AnswerInv, Answered
<1>13. CASE Acknowledge
  BY <1>13 DEF Acknowledge, Idle
<1>14. CASE Recover
  BY <1>14 DEF Recover, Typed, Journal, Relays
<1>15. ASSUME NEW m \in net, Deliver(m)
      PROVE  RevisionInv'
  BY <1>15 DEF Deliver, RelayAccepts, Typed, Relays
<1>16. CASE LoseAnswer
  BY <1>16 DEF LoseAnswer, Idle
<1>17. CASE SaveFails
  BY <1>17 DEF SaveFails, Idle
<1>18. CASE Crash
  BY <1>18 DEF Crash, Idle, NoUser, NoCommand, Queued
<1>19. CASE Browser
  BY <1>19 DEF Browser, Typed, Relays
<1>20. CASE Revoke
  BY <1>20 DEF Revoke, Typed, Relays
<1>21. CASE UNCHANGED vars
  BY <1>21 DEF vars
<1> QED
  BY <1>1, <1>2, <1>3, <1>4, <1>5, <1>6, <1>7, <1>8, <1>9, <1>10, <1>11, <1>12, <1>13,
     <1>14, <1>15, <1>16, <1>17, <1>18, <1>19, <1>20, <1>21 DEF Next

\* An answer in hand stays true: the request it answers is the newest there is, so
\* nothing else can change the relay until the owner's turn is over, save a browser.
LEMMA AnswerKept ==
    ASSUME Typed, FenceInv, TurnInv, RevisionInv, AnswerInv, OffInv, [Next]_vars
    PROVE  AnswerInv'
<1> USE Constants, Fields DEF userVars, latches, AnswerInv, Answered, Acked, Seen
<1>1. ASSUME NEW on \in BOOLEAN, NEW matched \in BOOLEAN, Choose(on, matched)
      PROVE  AnswerInv'
  BY <1>1 DEF Choose
<1>2. CASE Queue
  <2>1. cmd' # NoCommand
    BY <1>2 DEF Queue, Queued, NoCommand, FenceInv
  <2> QED
    BY <1>2, <2>1 DEF Queue
<1>3. CASE Prefer
  BY <1>3 DEF Prefer, NoUser
<1>4. CASE RefuseCommand
  BY <1>4 DEF RefuseCommand, NoCommand, Queued
<1>5. CASE Ingest
  BY <1>5 DEF Ingest, Idle
<1>6. CASE SaveCommand
  BY <1>6 DEF SaveCommand, Idle, NoCommand, Queued
<1>7. ASSUME NEW w \in Operations, Plan(w)
      PROVE  AnswerInv'
  BY <1>7 DEF Plan, Idle
<1>8. CASE Allocate
  BY <1>8 DEF Allocate, Idle, Typed, Turns
<1>9. CASE Send
  BY <1>9 DEF Send, Idle, Typed, Turns
<1>10. CASE ReplyToSave
  BY <1>10 DEF ReplyToSave, Dropped, Obsolete, Seen, WithoutSession, Typed, Turns,
               Journal, Settles, TurnInv
<1>11. CASE Reply
  BY <1>11 DEF Reply, Idle
<1>12. CASE Accept
  BY <1>12 DEF Accept, Idle, Typed, Turns, RevisionInv, Obsolete
<1>13. CASE Acknowledge
  BY <1>13 DEF Acknowledge, Idle
<1>14. CASE Recover
  BY <1>14 DEF Recover
<1>15. ASSUME NEW m \in net, Deliver(m)
      PROVE  AnswerInv'
  <2>1. CASE own.pc = "wait" /\ own.msg = m
    <3>1. own'.pc = "reply" /\ own'.answer = RelayAnswer(m) /\ own'.work = own.work
      BY <1>15, <2>1 DEF Deliver, Typed, Turns
    <3>2. m.session = state.session /\ m.rev = state.rev /\ m.on = state.pending.on
          /\ m.op = own.work
      BY <2>1 DEF TurnInv
    <3>3. RelayAnswer(m).result = "unauthorized" => m.session # relay.session
      BY DEF RelayAnswer, Answer
    <3>4. RelayAnswer(m).result = "ok" =>
             RelayAccepts(m) /\ (m.op = "set" => RelayAnswer(m).on = m.on)
      BY DEF RelayAnswer, Answer, RelayAccepts, Typed
    <3>5. /\ relay'.session = relay.session
          /\ RelayAccepts(m) => relay'.rev = m.rev /\ relay'.on = RelayAnswer(m).on
      BY <1>15 DEF Deliver, Typed, Relays
    <3> QED
      BY <1>15, <3>1, <3>2, <3>3, <3>4, <3>5 DEF Deliver
  <2>2. CASE ~(own.pc = "wait" /\ own.msg = m)
    <3>1. own.pc \in Answered /\ Acked => ~RelayAccepts(m)
      BY DEF RelayAccepts, RevisionInv, Typed
    <3>2. relay'.session = relay.session
      BY <1>15 DEF Deliver, Typed, Relays
    <3> QED
      BY <1>15, <2>2, <3>1, <3>2 DEF Deliver
  <2> QED
    BY <2>1, <2>2
<1>16. CASE LoseAnswer
  BY <1>16 DEF LoseAnswer, Idle
<1>17. CASE SaveFails
  BY <1>17 DEF SaveFails, Idle
<1>18. CASE Crash
  BY <1>18 DEF Crash, Idle, NoUser, NoCommand, Queued
<1>19. CASE Browser
  BY <1>19 DEF Browser, Typed, Relays
<1>20. CASE Revoke
  BY <1>20 DEF Revoke, RevisionInv
<1>21. CASE UNCHANGED vars
  BY <1>21 DEF vars
<1> QED
  BY <1>1, <1>2, <1>3, <1>4, <1>5, <1>6, <1>7, <1>8, <1>9, <1>10, <1>11, <1>12, <1>13,
     <1>14, <1>15, <1>16, <1>17, <1>18, <1>19, <1>20, <1>21 DEF Next

\* No On starts or survives while an Off is final, and it becomes final only when the
\* answer showed the relay off with every request dead.
LEMMA FinalKept ==
    ASSUME Typed, FenceInv, TurnInv, RevisionInv, AnswerInv, FinalInv, OffIsFinal,
           [Next]_vars
    PROVE  FinalInv' /\ OffIsFinal'
<1> USE Constants, Fields DEF userVars, latches, FinalInv, OffIsFinal, NoOnIsLive, Dead
<1>1. ASSUME NEW on \in BOOLEAN, NEW matched \in BOOLEAN, Choose(on, matched)
      PROVE  FinalInv' /\ OffIsFinal'
  BY <1>1 DEF Choose
<1>2. CASE Queue
  BY <1>2 DEF Queue, Queued
<1>3. CASE Prefer
  BY <1>3 DEF Prefer, NoUser
<1>4. CASE RefuseCommand
  BY <1>4 DEF RefuseCommand, NoCommand, Queued, NoIntent
<1>5. CASE Ingest
  <2>1. own'.next.pending = cmd.intent
    BY <1>5 DEF Ingest, Idle, Typed, Journal
  <2> QED
    BY <1>5, <2>1 DEF Ingest
<1>6. CASE SaveCommand
  BY <1>6 DEF SaveCommand, Idle, NoCommand, Queued, NoIntent
<1>7. ASSUME NEW w \in Operations, Plan(w)
      PROVE  FinalInv' /\ OffIsFinal'
  BY <1>7 DEF Plan, Idle
<1>8. CASE Allocate
  <2>1. state'.pending.on = state.pending.on /\ own'.pc # "ingest"
    BY <1>8 DEF Allocate, TurnInv, Idle, Typed, Turns
  <2> QED
    BY <1>8, <2>1 DEF Allocate
<1>9. CASE Send
  <2>1. \A m \in net' \ net : m.on = state.pending.on
    BY <1>9 DEF Send
  <2>2. own'.pc \in {"idle", "wait"}
    BY <1>9 DEF Send, Idle, Typed, Turns
  <2> QED
    BY <1>9, <2>1, <2>2 DEF Send
<1>10. CASE ReplyToSave
  BY <1>10 DEF ReplyToSave, Typed, Turns
<1>11. CASE Reply
  BY <1>11 DEF Reply, Idle
<1>12. CASE Accept
  BY <1>12 DEF Accept, Idle, AnswerInv, Answered, NoIntent, Typed, Turns
<1>13. CASE Acknowledge
  <2>1. CASE final
    BY <1>13, <2>1 DEF Acknowledge, Idle
  <2>2. CASE ~final /\ final'
    <3>1. /\ own.pc = "ack" /\ own.next.pending # NoIntent /\ state.pending = NoIntent
          /\ ~own.next.pending.on /\ own.answer.result = "ok" /\ ~cmd.intent.on
      BY <1>13, <2>2 DEF Acknowledge, AnswerInv, Answered
    <3>2. ~own.answer.on /\ ~(relay.on /\ ours)
      BY <3>1 DEF AnswerInv, Answered, Acked
    <3>3. \A m \in net : Dead(m)
      BY <3>1 DEF AnswerInv, Answered, Acked, RevisionInv, Dead, Typed
    <3> QED
      BY <1>13, <3>1, <3>2, <3>3 DEF Acknowledge, Idle, NoIntent
  <2>3. CASE ~final'
    BY <2>3
  <2> QED
    BY <2>1, <2>2, <2>3
<1>14. CASE Recover
  BY <1>14 DEF Recover, RevisionInv, Typed, Relays
<1>15. ASSUME NEW m \in net, Deliver(m)
      PROVE  FinalInv' /\ OffIsFinal'
  BY <1>15, Delivered DEF Deliver
<1>16. CASE LoseAnswer
  BY <1>16 DEF LoseAnswer, Idle
<1>17. CASE SaveFails
  BY <1>17 DEF SaveFails, Idle
<1>18. CASE Crash
  BY <1>18 DEF Crash, Idle, NoUser, NoCommand, Queued, NoIntent
<1>19. CASE Browser
  BY <1>19 DEF Browser
<1>20. CASE Revoke
  BY <1>20 DEF Revoke, RevisionInv, Typed, Relays
<1>21. CASE UNCHANGED vars
  BY <1>21 DEF vars
<1> QED
  BY <1>1, <1>2, <1>3, <1>4, <1>5, <1>6, <1>7, <1>8, <1>9, <1>10, <1>11, <1>12, <1>13,
     <1>14, <1>15, <1>16, <1>17, <1>18, <1>19, <1>20, <1>21 DEF Next

\* An Off that protects stays somewhere: in the queue, in the journal, or confirmed by
\* a relay that nothing under way can turn on.
LEMMA OffKept ==
    ASSUME Typed, FenceInv, TurnInv, RevisionInv, AnswerInv, OffInv, [Next]_vars
    PROVE  OffInv'
<1> USE Constants, Fields DEF userVars, latches, OffInv, SettledOff, NoOnIsLive, Dead,
                              Answered, Acked, InHand, Seen
<1>1. ASSUME NEW on \in BOOLEAN, NEW matched \in BOOLEAN, Choose(on, matched)
      PROVE  OffInv'
  BY <1>1 DEF Choose
<1>2. CASE Queue
  <2>1. cmd' # NoCommand /\ cmd'.intent = user.intent /\ user'.intent = user.intent
    BY <1>2 DEF Queue, Queued, NoCommand, FenceInv, Typed, Users
  <2> QED
    BY <1>2, <2>1 DEF Queue
<1>3. CASE Prefer
  BY <1>3 DEF Prefer, NoUser
<1>4. CASE RefuseCommand
  BY <1>4 DEF RefuseCommand, NoCommand, Queued, NoIntent
<1>5. CASE Ingest
  BY <1>5 DEF Ingest, Idle
<1>6. CASE SaveCommand
  <2>1. CASE cmd.intent = own.next.pending
    <3>1. cmd # NoCommand /\ cmd.intent # NoIntent
      BY <1>6 DEF SaveCommand, TurnInv, FenceInv
    <3> QED
      BY <1>6, <2>1, <3>1 DEF SaveCommand, Idle, NoCommand, Queued, NoIntent
  <2>2. CASE cmd.intent # own.next.pending
    BY <1>6, <2>2 DEF SaveCommand, Idle, TurnInv
  <2> QED
    BY <2>1, <2>2
<1>7. ASSUME NEW w \in Operations, Plan(w)
      PROVE  OffInv'
  BY <1>7 DEF Plan, Idle
<1>8. CASE Allocate
  BY <1>8 DEF Allocate, Idle, TurnInv, Obsolete, Typed, Turns
<1>9. CASE Send
  <2>1. \A m \in net' \ net : m.on = state.pending.on
    BY <1>9 DEF Send
  <2>2. own'.pc \in {"idle", "wait"}
    BY <1>9 DEF Send, Idle, Typed, Turns
  <2>3. ~NoIntent.on
    BY DEF NoIntent
  <2> QED
    BY <1>9, <2>1, <2>2, <2>3 DEF Send
<1>10. CASE ReplyToSave
  BY <1>10 DEF ReplyToSave, Typed, Turns
<1>11. CASE Reply
  BY <1>11 DEF Reply, Idle
<1>12. CASE Accept
  <2>1. own'.pc \in {"idle", "ack"}
    BY <1>12 DEF Accept, Idle, Typed, Turns
  <2>2. ASSUME off, pref, cmd = NoCommand
        PROVE  (state'.pending # NoIntent /\ ~state'.pending.on) \/ SettledOff'
    <3>1. own'.pc = "ack" /\ own'.next = state /\ own'.answer = own.answer
      BY <1>12, <2>2 DEF Accept, Obsolete, TurnInv, Typed, Turns
    <3>a. state'.observed.on = IF Acked THEN own.answer.on ELSE state.observed.on
      BY <1>12 DEF Accept, AnswerInv
    <3>2. CASE state.pending # NoIntent /\ own.next.pending = NoIntent
      <4>1. Acked /\ own.answer.on = state.pending.on
        BY <1>12, <3>2 DEF Accept, AnswerInv
      <4>2. CASE SettledOff
        BY <3>2, <4>2
      <4>3. CASE ~state.pending.on
        <5>1. ~relay.on
          BY <1>12, <2>2, <4>1, <4>3 DEF Accept, AnswerInv
        <5>2. NoOnIsLive
          BY <1>12, <4>1 DEF Accept, AnswerInv, RevisionInv, Typed
        <5> QED
          BY <1>12, <3>a, <3>1, <3>2, <4>1, <4>3, <5>1, <5>2 DEF Accept
      <4> QED
        BY <2>2, <3>2, <4>2, <4>3
    <3>3. CASE own.next.pending = state.pending
      BY <1>12, <2>2, <3>a, <3>1, <3>3 DEF Accept
    <3> QED
      BY <1>12, <3>2, <3>3 DEF Accept, AnswerInv
  <2> QED
    BY <1>12, <2>1, <2>2 DEF Accept
<1>13. CASE Acknowledge
  BY <1>13 DEF Acknowledge, Idle, AnswerInv, Seen
<1>14. CASE Recover
  <2>1. \A m \in net : Dead(m)'
    BY <1>14 DEF Recover, RevisionInv, Typed, Relays
  <2> QED
    BY <1>14, <2>1 DEF Recover, Typed, Relays, Journal
<1>15. ASSUME NEW m \in net, Deliver(m)
      PROVE  OffInv'
  <2>1. CASE off /\ pref /\ cmd = NoCommand /\ SettledOff
    <3>1. m.on => m.op # "set" \/ Dead(m)
      BY <2>1
    <3>2. ~relay'.on /\ NoOnIsLive'
      BY <1>15, <2>1, <3>1, Delivered DEF Deliver
    <3>3. own'.pc # own.pc => ~own'.answer.on
      <4>1. RelayAnswer(m).on \in {relay.on, m.on}
        BY DEF RelayAnswer, Answer
      <4>2. m.op # "set" \/ ~RelayAccepts(m) => RelayAnswer(m).on = relay.on
        BY DEF RelayAnswer, RelayAccepts, Answer, Typed
      <4>3. ~RelayAnswer(m).on
        BY <1>15, <2>1, <3>1, <4>1, <4>2, Delivered
      <4> QED
        BY <1>15, <4>3, Delivered
    <3> QED
      BY <1>15, <2>1, <3>2, <3>3, Delivered DEF Deliver
  <2>2. CASE ~(off /\ pref /\ cmd = NoCommand /\ SettledOff)
    BY <1>15, <2>2, Delivered DEF Deliver
  <2> QED
    BY <2>1, <2>2
<1>16. CASE LoseAnswer
  BY <1>16 DEF LoseAnswer, Idle
<1>17. CASE SaveFails
  BY <1>17 DEF SaveFails, Idle
<1>18. CASE Crash
  BY <1>18 DEF Crash, Idle, NoUser, NoCommand, Queued, NoIntent
<1>19. CASE Browser
  BY <1>19 DEF Browser
<1>20. CASE Revoke
  BY <1>20 DEF Revoke, RevisionInv, Typed, Relays
<1>21. CASE UNCHANGED vars
  BY <1>21 DEF vars
<1> QED
  BY <1>1, <1>2, <1>3, <1>4, <1>5, <1>6, <1>7, <1>8, <1>9, <1>10, <1>11, <1>12, <1>13,
     <1>14, <1>15, <1>16, <1>17, <1>18, <1>19, <1>20, <1>21 DEF Next

\* The program starts with nothing queued, saved or sent.
LEMMA Initially == Init => IInv
<1> SUFFICES ASSUME Init PROVE IInv
  OBVIOUS
<1> USE Constants DEF Init
<1>1. Typed
  <2>1. state \in Journal
    BY DEF Journal
  <2>2. relay \in Relays /\ relay.on \in BOOLEAN
    BY DEF Relays
  <2>3. 0 \in 0..MaxClicks /\ 0 \in 0..MaxLive /\ 0 \in 0..MaxFaults
    OBVIOUS
  <2>4. FALSE \in BOOLEAN /\ pref \in BOOLEAN /\ ours \in BOOLEAN
    BY <2>2
  <2> QED
    BY <2>1, <2>2, <2>3, <2>4, Zenon DEF Typed
<1>2. JournalInv /\ FenceInv /\ TurnInv
  BY DEF JournalInv, FenceInv, TurnInv, Idle, NoUser, NoCommand, Queued, NoIntent
<1>3. RevisionInv /\ AnswerInv /\ FinalInv /\ OffIsFinal
  BY DEF RevisionInv, AnswerInv, Answered, FinalInv, OffIsFinal, Idle
<1>4. OffInv
  <2>1. ~(off /\ pref) /\ ~InHand
    BY DEF InHand, Idle
  <2> QED
    BY <2>1 DEF OffInv
<1> QED
  BY <1>1, <1>2, <1>3, <1>4 DEF IInv

\* The inductive invariant holds in every reachable state.
THEOREM Invariance == Spec => []IInv
<1>1. IInv /\ [Next]_vars => IInv'
  BY TypedKept, JournalKept, FenceKept, TurnKept, RevisionKept, AnswerKept, FinalKept,
     OffKept DEF IInv
<1> QED
  BY Initially, <1>1, PTL DEF Spec

\* Every variable keeps its type, a choice is only attempted once it is bound to a
\* generation, and without a session there is no revision.
THEOREM TypeCorrect == Spec => []TypeOK
<1>1. IInv => TypeOK
  <2> SUFFICES ASSUME IInv PROVE TypeOK
    OBVIOUS
  <2>1. Typed /\ JournalInv
    BY DEF IInv
  <2> QED
    BY <2>1 DEF TypeOK, Typed, JournalInv, Users, Commands, Choices, Journal, Flags,
                Proofs,
                Turns, Relays
<1> QED
  BY Invariance, <1>1, PTL

\* An acknowledged Off is the end of it: no older On turns the relay on again.
THEOREM OffIsFinalAlways == Spec => []OffIsFinal
<1>1. IInv => OffIsFinal
  BY DEF IInv
<1> QED
  BY Invariance, <1>1, PTL

\* No snapshot leaves past an Off that protects: either it was planned before that Off,
\* which then waits in the queue or has moved the fence, or the relay was seen off.
THEOREM OffHoldsAlways == Spec => OffHolds
<1>1. IInv /\ [Next]_vars => [\A m \in net' \ net : m.op = "publish" => ~off]_vars
  <2> SUFFICES ASSUME IInv, Next, NEW m \in net' \ net, m.op = "publish"
               PROVE  ~off
    BY DEF vars
  <2>1. CASE Send
    <3>1. InHand /\ cmd = NoCommand /\ state.observed.on
      BY <2>1 DEF Send, Admitted, Obsolete, MayPublish, InHand
    <3> QED
      BY <3>1 DEF IInv, OffInv
  <2>2. CASE ~Send
    <3>1. net' \subseteq net
      BY <2>2 DEF Next, Choose, Queue, Prefer, RefuseCommand, Ingest, SaveCommand, Plan,
         Allocate, ReplyToSave, Reply, Accept, Acknowledge, Recover, Deliver, LoseAnswer,
         SaveFails, Crash, Browser, Revoke
    <3> QED
      BY <3>1
  <2> QED
    BY <2>1, <2>2
<1> QED
  BY Invariance, <1>1, PTL DEF Spec, OffHolds
=============================================================================
