--------------------------- MODULE SharingControl ---------------------------
(***************************************************************************)
(* Sharing On and Off: how the user's choice reaches the relay, and what   *)
(* may leave this computer meanwhile (src/wingman/fleetsharing/worker.py). *)
(*                                                                         *)
(* A choice is queued under a lock; one owner thread saves it in a journal *)
(* before anything else, observes the relay, sends the choice as a compare *)
(* and swap on the generation the user saw, and retires it when the relay  *)
(* confirms.  Each signed request takes a revision that is saved before it *)
(* is sent; answers are lost, late requests still arrive, the process dies *)
(* between any two steps, the choice is also changed from a browser.       *)
(*                                                                         *)
(* Memory holds what the last save wrote, so `state' stands for both.  The *)
(* sources and automatic consent, pairing, capabilities, clocks and reads  *)
(* of other pilots are left out; the settings section stays open.          *)
(***************************************************************************)
EXTENDS Integers, FiniteSets

CONSTANTS
    MaxClicks,      \* bound: choices the user makes
    MaxLive,        \* bound: works of a live owner: observations, proofs, publications
    MaxFaults       \* bound: lost answers, failed saves, crashes, revoked sessions
                    \*   and changes made from a browser

ASSUME SharingBounds ==
    /\ MaxClicks \in Nat \ {0}
    /\ {MaxLive, MaxFaults} \subseteq Nat

Intent == [id : 1..MaxClicks, on : BOOLEAN, gen : Nat, attempted : BOOLEAN]
NoIntent == [id |-> 0, on |-> FALSE, gen |-> 0, attempted |-> FALSE]
Participation == [on : BOOLEAN, gen : Nat]
Unknown == [on |-> FALSE, gen |-> 0]
Queued(i, s) == [intent |-> i, supersedes |-> s]
NoCommand == Queued(NoIntent, NoIntent)
NoProof == [gen |-> 0, fence |-> -1]

Operations == {"device", "set", "prove", "publish", "withdraw"}
Message == [op : Operations, session : Nat, rev : Nat, on : BOOLEAN, gen : Nat]
NoMessage == [op |-> "device", session |-> 0, rev |-> 0, on |-> FALSE, gen |-> 0]
Answer(result, p) == [result |-> result, on |-> p.on, gen |-> p.gen]

VARIABLES
    user,       \* the bridge call under way: the choice, the generation and journal it saw
    cmd,        \* _commands["participation"]
    gens,       \* _participation_generation
    inhibit,    \* _inhibit
    pref,       \* the saved preference, what sharing_enabled() answers
    state,      \* _state: pending_participation, observed_participation, the session
                \*   (0: none) and its last revision
    flags,      \* _needs_device, _part_observe, _needs_fresh_intent, _withdraw_needed,
                \*   _last_published, and the session _control_auth was bound to
    proof,      \* _eligibility_proof: the generation proved, and the fence it was asked under
    own,        \* the owner's turn: pc, work, fence, state to save, request, answer
    net,        \* requests that left and may still reach the relay
    relay,      \* what the relay holds: on, gen, session and its highest revision
    off,        \* history: nothing may be published, for the latest choice is an Off or
                \*   the saved preference is
    final,      \* history: an Off was acknowledged, and no On was chosen since
    ours,       \* history: the relay is on, and no browser turned it on meanwhile
    clicks, lives, faults

userVars == <<user, clicks, pref>>
latches == <<cmd, gens, inhibit>>
vars == <<user, cmd, gens, inhibit, pref, state, flags, proof, own, net, relay,
          off, final, ours, clicks, lives, faults>>

Idle == [pc |-> "idle", work |-> "device", fence |-> 0,
         next |-> [pending |-> NoIntent, observed |-> Unknown, session |-> 0, rev |-> 0],
         msg |-> NoMessage, answer |-> Answer("ok", Unknown)]
NoUser == [pc |-> "idle", intent |-> NoIntent, saw |-> NoIntent]
Started == [device |-> TRUE, part |-> TRUE, fresh |-> FALSE, withdraw |-> FALSE,
            published |-> FALSE, auth |-> 0]

TypeOK ==
    /\ user \in [pc : {"idle", "chosen", "prefer"}, intent : Intent \cup {NoIntent},
                 saw : Intent \cup {NoIntent}]
    /\ cmd.intent \in Intent \cup {NoIntent} /\ cmd.supersedes \in Intent \cup {NoIntent}
    /\ gens \in 0..MaxClicks /\ {inhibit, pref, off, final, ours} \subseteq BOOLEAN
    /\ state \in [pending : Intent \cup {NoIntent}, observed : Participation,
                  session : Nat, rev : Nat]
    /\ flags \in [device : BOOLEAN, part : BOOLEAN, fresh : BOOLEAN,
                  withdraw : BOOLEAN, published : BOOLEAN, auth : Nat]
    /\ proof \in [gen : Nat, fence : -1..MaxClicks]
    /\ state.pending.attempted => state.pending.gen # 0      \* only a bound choice is sent
    /\ state.session = 0 => state.rev = 0                    \* revisions are a session's
    /\ own.pc \in {"idle", "ingest", "alloc", "send", "wait", "reply", "accept", "ack"}
    /\ own.work \in Operations /\ own.fence \in 0..MaxClicks
    /\ net \subseteq Message
    /\ relay \in [on : BOOLEAN, gen : Nat, session : Nat, rev : Nat]
    /\ clicks \in 0..MaxClicks /\ lives \in 0..MaxLive /\ faults \in 0..MaxFaults

Init ==
    /\ user = NoUser /\ cmd = NoCommand /\ gens = 0 /\ inhibit = FALSE
    /\ pref \in BOOLEAN
    /\ relay \in [on : BOOLEAN, gen : {1}, session : {1}, rev : {0}]
    /\ state = [pending |-> NoIntent, observed |-> Unknown, session |-> 1, rev |-> 0]
    /\ flags = Started /\ proof = NoProof /\ own = Idle /\ net = {}
    /\ off = ~pref /\ final = FALSE /\ ours = relay.on /\ clicks = 0 /\ lives = 0 /\ faults = 0

-----------------------------------------------------------------------------
(* The bridge call: fleet_sharing_set_enabled *)

AuthCurrent == state.session # 0 /\ flags.auth = state.session

\* The choice, bound to the generation shown when the page still shows the present
\* status and the session is authenticated.  An On that is not is refused at once
\* unless nothing was ever observed; an Off goes on unbound.
Choose(on, matched) ==
    /\ user.pc = "idle" /\ clicks < MaxClicks
    /\ matched => state.observed = Unknown \/ AuthCurrent
    /\ on /\ ~matched => state.observed = Unknown
    /\ clicks' = clicks + 1
    /\ user' = [pc |-> "chosen",
                intent |-> [id |-> clicks', on |-> on, attempted |-> FALSE,
                            gen |-> IF matched THEN state.observed.gen ELSE 0],
                saw |-> IF matched THEN state.pending ELSE NoIntent]
    /\ UNCHANGED <<latches, pref, state, flags, proof, own, net, relay, off, final, ours,
                   lives, faults>>

\* A newer choice replaces one still queued, and inhibits before any I/O.
Queue ==
    /\ user.pc = "chosen" /\ user' = [user EXCEPT !.pc = "prefer"]
    /\ cmd' = Queued(user.intent, user.saw)
    /\ gens' = gens + 1 /\ inhibit' = TRUE
    /\ off' = ~user.intent.on /\ final' = (final /\ ~user.intent.on)
    /\ UNCHANGED <<pref, state, flags, proof, own, net, relay, ours, clicks, lives, faults>>

\* The owner holds a snapshot for which it no longer looks at the preference.
InHand == own.pc = "send" /\ own.work = "publish"

Prefer ==
    /\ user.pc = "prefer" /\ user' = NoUser /\ pref' = user.intent.on
    /\ off' = (~user.intent.on /\ (off \/ ~InHand))
    /\ UNCHANGED <<latches, state, flags, proof, own, net, relay, final, ours, clicks,
                   lives, faults>>

-----------------------------------------------------------------------------
(* The owner saves a queued choice *)

\* Work of an older turn may not go on once a choice was made.
Obsolete == cmd # NoCommand \/ gens # own.fence

Resolves(c) == state.pending \in {NoIntent, c.supersedes}

\* A choice about another journal than the one it saw is dropped for confirmation.
RefuseCommand ==
    /\ own.pc = "idle" /\ cmd # NoCommand /\ ~Resolves(cmd)
    /\ cmd' = NoCommand
    /\ off' = (off /\ (cmd.intent.on \/ ~pref))
    /\ UNCHANGED <<userVars, gens, inhibit, state, flags, proof, own, net, relay,
                   final, ours, lives, faults>>

Ingest ==
    /\ own.pc = "idle" /\ cmd # NoCommand /\ Resolves(cmd)
    /\ own' = [Idle EXCEPT !.pc = "ingest", !.fence = gens,
                           !.next = [state EXCEPT !.pending = cmd.intent]]
    /\ UNCHANGED <<userVars, latches, state, flags, proof, net, relay, off, final, ours,
                   lives, faults>>

\* Mutant: whatever is queued by the end of the save is taken for the choice saved.
SaveCommandAny ==
    /\ own.pc = "ingest" /\ own' = Idle /\ state' = own.next
    /\ flags' = [flags EXCEPT !.fresh = FALSE, !.part = TRUE, !.device = TRUE,
                     !.withdraw = ~own.next.pending.on /\ flags.published]
    /\ proof' = NoProof
    /\ cmd' = NoCommand
    /\ UNCHANGED <<userVars, gens, inhibit, net, relay, off, final, ours, lives, faults>>

\* The turn goes on only if nothing was queued during the save, and then re-plans.
SaveCommand ==
    /\ own.pc = "ingest" /\ own' = Idle /\ state' = own.next
    /\ flags' = [flags EXCEPT !.fresh = FALSE, !.part = TRUE, !.device = TRUE,
                     !.withdraw = ~own.next.pending.on /\ flags.published]
    /\ proof' = NoProof
    /\ cmd' = IF cmd.intent = own.next.pending THEN NoCommand ELSE cmd
    /\ UNCHANGED <<userVars, gens, inhibit, net, relay, off, final, ours, lives, faults>>

-----------------------------------------------------------------------------
(* Planning and sending *)

Proved == proof.gen # 0 /\ proof.fence = gens /\ proof.gen = state.observed.gen

\* Mutant: a choice that was attempted is never sent again.
WorksOnce(s, f) ==
    IF f.device THEN {"device"} ELSE
       (IF f.withdraw THEN {"withdraw"} ELSE {})
       \cup (IF s.pending = NoIntent \/ f.fresh THEN {}
             ELSE IF f.part THEN {"device"}
             ELSE IF s.pending.gen # 0 /\ ~s.pending.attempted THEN {"set"} ELSE {})

\* What the journal calls for: an observation first, then a bound choice.
Works(s, f) ==
    IF f.device THEN {"device"} ELSE
       (IF f.withdraw THEN {"withdraw"} ELSE {})
       \cup (IF s.pending = NoIntent \/ f.fresh THEN {}
             ELSE IF f.part THEN {"device"}
             ELSE IF s.pending.gen # 0 THEN {"set"} ELSE {})

Sharing == pref /\ ~inhibit /\ state.observed.on /\ state.pending = NoIntent

LiveWorks ==
    IF Sharing /\ ~flags.device /\ lives < MaxLive
    THEN {"device", "prove"} \cup (IF Proved THEN {"publish"} ELSE {}) ELSE {}

\* A signed attempt is journalled, its revision with it, before it may leave.
Candidate(s, w) ==
    [s EXCEPT !.rev = @ + 1, !.pending.attempted = @ \/ w = "set"]

Plan(w) ==
    /\ own.pc = "idle" /\ cmd = NoCommand /\ state.session # 0
    /\ w \in Works(state, flags) \cup LiveWorks
    /\ own' = [Idle EXCEPT !.pc = "alloc", !.work = w, !.fence = gens,
                           !.next = Candidate(state, w)]
    /\ lives' = IF w \in Works(state, flags) THEN lives ELSE lives + 1
    /\ UNCHANGED <<userVars, latches, state, flags, proof, net, relay, off, final, ours, faults>>

Allocate ==
    /\ own.pc = "alloc" /\ state' = own.next
    /\ IF Obsolete \/ (own.work = "publish" /\ (inhibit \/ ~pref))
       THEN own' = Idle /\ UNCHANGED flags
       ELSE /\ own' = [own EXCEPT !.pc = "send"]
            /\ flags' = [flags EXCEPT !.part = @ \/ own.work = "set"]
    /\ UNCHANGED <<userVars, latches, proof, net, relay, off, final, ours, lives, faults>>

MayPublish == ~inhibit /\ state.pending = NoIntent /\ state.observed.on /\ Proved

\* before_send, under the lock that a choice is queued under.
Admitted(w) ==
    /\ ~Obsolete
    /\ w = "set" => AuthCurrent
    /\ w = "publish" => MayPublish
    /\ w = "withdraw" => flags.withdraw /\ AuthCurrent

Send ==
    /\ own.pc = "send"
    /\ LET m == [op |-> own.work, session |-> state.session, rev |-> state.rev,
                 on |-> state.pending.on, gen |-> state.pending.gen]
       IN IF Admitted(own.work)
          THEN own' = [own EXCEPT !.pc = "wait", !.msg = m] /\ net' = net \cup {m}
          ELSE own' = Idle /\ UNCHANGED net
    /\ off' = (off \/ (own.work = "publish" /\ ~pref))
    /\ UNCHANGED <<userVars, latches, state, flags, proof, relay, final, ours, lives, faults>>

-----------------------------------------------------------------------------
(* The relay, as the code relies on it *)

\* A request of another session, or with a revision already seen, changes nothing;
\* a choice is compared with the generation it was bound to.
RelayAccepts(m) == m.session = relay.session /\ m.rev > relay.rev

RelayAnswer(m) ==
    IF m.session # relay.session THEN Answer("unauthorized", relay)
    ELSE IF m.rev <= relay.rev THEN Answer("replayed", relay)
    ELSE IF m.op = "set" THEN
        IF m.gen = relay.gen THEN Answer("ok", [on |-> m.on, gen |-> relay.gen + 1])
        ELSE Answer("conflict", relay)
    ELSE IF m.op \in {"prove", "publish"} /\ ~relay.on THEN Answer("forbidden", relay)
    ELSE Answer("ok", relay)

\* The answer reaches the owner only if it still waits for this request.
Deliver(m) ==
    /\ m \in net /\ net' = net \ {m}
    /\ relay' = IF ~RelayAccepts(m) THEN relay
                ELSE [relay EXCEPT !.rev = m.rev, !.on = RelayAnswer(m).on,
                                   !.gen = RelayAnswer(m).gen]
    /\ ours' = IF m.op = "set" /\ RelayAccepts(m) /\ RelayAnswer(m).result = "ok"
             THEN m.on ELSE ours
    /\ own' = IF own.pc = "wait" /\ own.msg = m
              THEN [own EXCEPT !.pc = "reply", !.answer = RelayAnswer(m)] ELSE own
    /\ UNCHANGED <<userVars, latches, state, flags, proof, off, final, lives, faults>>

-----------------------------------------------------------------------------
(* Answers *)

\* Mutant: an observation of the generation the choice names retires the choice.
SettlesByGeneration(s, seen) == s.pending # NoIntent /\ s.pending.gen = seen.gen

\* An observation that already shows a bound choice retires it without a request.
Settles(s, seen) ==
    s.pending # NoIntent /\ s.pending.gen # 0 /\ seen.on = s.pending.on

\* The choice names no generation, or not the one that is there: the user has to
\* confirm it again.
Stale(s, seen) ==
    s.pending # NoIntent /\ ~Settles(s, seen) /\ s.pending.gen # seen.gen

Seen == [on |-> own.answer.on, gen |-> own.answer.gen]
Dropped == Obsolete \/ (own.work = "publish" /\ ~MayPublish)
Installs == own.answer.result = "unauthorized" \/ own.work \in {"device", "set"}

\* Mutant: the revision of the old session is kept for the next.
WithoutSessionOnly(s) == [s EXCEPT !.session = 0]

\* replace_session(None): the next session counts its revisions from the start.
WithoutSession(s) == [s EXCEPT !.session = 0, !.rev = 0]

\* An answer that changes the journal is first turned into the state to save.
ReplyToSave ==
    /\ own.pc = "reply" /\ ~Dropped /\ Installs
    /\ own.answer.result \in {"ok", "unauthorized"}
    /\ LET next ==
             IF own.answer.result = "unauthorized"
             THEN WithoutSession(state)
             ELSE [state EXCEPT !.observed = Seen,
                       !.pending = IF own.work = "set" \/ Settles(state, Seen)
                                   THEN NoIntent ELSE @]
       IN own' = [own EXCEPT !.pc = "accept", !.next = next]
    /\ flags' = [flags EXCEPT !.fresh = @ \/ (/\ own.answer.result = "ok"
                                               /\ own.work = "device"
                                               /\ Stale(state, Seen))]
    /\ UNCHANGED <<userVars, latches, state, proof, net, relay, off, final, ours, lives, faults>>

\* Any other answer only changes what the owner remembers, under the lock.
Reply ==
    /\ own.pc = "reply"
    /\ Dropped \/ ~Installs \/ own.answer.result \in {"conflict", "replayed"}
    /\ own' = Idle
    /\ LET ok == own.answer.result = "ok"
           forbidden == own.answer.result = "forbidden"
       IN
       IF Dropped THEN UNCHANGED <<flags, proof>>
       ELSE \/ /\ own.work = "prove" /\ ok
               /\ proof' = [gen |-> own.answer.gen, fence |-> gens] /\ UNCHANGED flags
            \/ /\ own.work \in {"publish", "withdraw"} /\ ok
               /\ flags' = [flags EXCEPT !.published = (own.work = "publish"),
                                !.withdraw = @ /\ own.work = "publish"]
               /\ UNCHANGED proof
            \/ /\ own.work = "set" /\ ~ok
               /\ flags' = [flags EXCEPT !.part = TRUE, !.device = TRUE] /\ UNCHANGED proof
            \/ /\ own.work # "set" /\ forbidden
               /\ flags' = [flags EXCEPT !.device = TRUE] /\ proof' = NoProof
            \/ /\ own.work # "set" /\ ~ok /\ ~forbidden /\ UNCHANGED <<flags, proof>>
    /\ UNCHANGED <<userVars, latches, state, net, relay, off, final, ours, lives, faults>>

\* The candidate is installed though a choice was queued during the save; what
\* follows it in memory is then left to a later turn.
Accept ==
    /\ own.pc = "accept" /\ state' = own.next
    /\ own' = IF Obsolete THEN Idle ELSE [own EXCEPT !.pc = "ack", !.next = state]
    /\ UNCHANGED <<userVars, latches, flags, proof, net, relay, off, final, ours, lives, faults>>

\* What memory makes of an installed answer: own.next is the state it replaced.
\* No fence is looked at any more.  An observation that settles a choice the user was
\* asked to confirm retires it, and keeps asking and inhibiting.
Acknowledge ==
    /\ own.pc = "ack" /\ own' = Idle
    /\ LET lost == own.answer.result = "unauthorized"
           settled == own.next.pending # NoIntent /\ state.pending = NoIntent
           confirmed == settled /\ (own.work = "set" \/ ~flags.fresh)
       IN /\ flags' =
               IF lost THEN [Started EXCEPT !.fresh = flags.fresh, !.withdraw = flags.withdraw]
               ELSE IF own.work = "set" THEN [flags EXCEPT !.fresh = FALSE, !.part = FALSE]
               ELSE [flags EXCEPT !.device = FALSE, !.part = FALSE,
                                  !.auth = state.session]
          /\ inhibit' = CASE lost -> inhibit
                          [] ~lost /\ confirmed -> ~Seen.on
                          [] OTHER -> inhibit /\ (flags.fresh \/ ~Seen.on
                                                  \/ own.next.pending # NoIntent)
          /\ proof' = IF lost \/ confirmed \/ ~Seen.on THEN NoProof ELSE proof
          /\ final' = (final \/ (/\ ~lost /\ settled /\ ~own.next.pending.on
                                /\ ~cmd.intent.on))
    /\ UNCHANGED <<userVars, cmd, gens, state, net, relay, off, ours, lives, faults>>

\* A new session after the relay no longer knew the old one: two unsigned requests
\* that no choice of the user makes obsolete.
Recover ==
    /\ own.pc = "idle" /\ cmd = NoCommand /\ state.session = 0
    /\ relay' = [relay EXCEPT !.session = @ + 1, !.rev = 0]
    /\ state' = [state EXCEPT !.session = relay'.session, !.rev = 0,
                     !.observed = [on |-> relay.on, gen |-> relay.gen]]
    /\ flags' = [Started EXCEPT !.auth = relay'.session, !.fresh = flags.fresh,
                                !.withdraw = flags.withdraw]
    /\ proof' = NoProof
    /\ UNCHANGED <<userVars, latches, own, net, off, final, ours, lives, faults>>

-----------------------------------------------------------------------------
(* Faults *)

Fault == faults < MaxFaults /\ faults' = faults + 1

\* The request may still arrive, or never.
LoseAnswer ==
    /\ Fault /\ own.pc = "wait" /\ own' = Idle
    /\ flags' = IF own.work = "set" /\ ~Obsolete
                THEN [flags EXCEPT !.part = TRUE, !.device = TRUE] ELSE flags
    /\ UNCHANGED <<userVars, latches, state, proof, net, relay, off, final, ours, lives>>

SaveFails ==
    /\ Fault /\ own.pc \in {"ingest", "alloc", "accept"} /\ own' = Idle
    /\ UNCHANGED <<userVars, latches, state, flags, proof, net, relay, off, final, ours, lives>>

\* The process dies and starts again over its journal: a queued choice is gone.
Crash ==
    /\ Fault /\ user' = NoUser /\ cmd' = NoCommand /\ gens' = 0 /\ own' = Idle
    /\ inhibit' = (state.pending # NoIntent)
    /\ flags' = Started /\ proof' = NoProof
    /\ off' = (~pref \/ (off /\ state.pending # NoIntent /\ ~state.pending.on))
    /\ UNCHANGED <<clicks, pref, state, net, relay, final, ours, lives>>

\* The choice is also changed from a browser; an On there is an On.
Browser ==
    /\ Fault
    /\ relay' = [relay EXCEPT !.on = ~@, !.gen = @ + 1]
    /\ off' = (off /\ (relay.on \/ ~pref)) /\ ours' = FALSE
    /\ UNCHANGED <<userVars, latches, state, flags, proof, own, net, final, lives>>

Revoke ==
    /\ Fault /\ relay' = [relay EXCEPT !.session = @ + 1, !.rev = 0]
    /\ UNCHANGED <<userVars, latches, state, flags, proof, own, net, off, final, ours, lives>>

-----------------------------------------------------------------------------
Owner ==
    \/ RefuseCommand \/ Ingest \/ SaveCommand
    \/ \E w \in Operations : Plan(w)
    \/ Allocate \/ Send \/ ReplyToSave \/ Reply \/ Accept \/ Acknowledge \/ Recover

Next ==
    \/ \E on, matched \in BOOLEAN : Choose(on, matched)
    \/ Queue \/ Prefer
    \/ RefuseCommand \/ Ingest \/ SaveCommand
    \/ \E w \in Operations : Plan(w)
    \/ Allocate \/ Send \/ ReplyToSave \/ Reply \/ Accept \/ Acknowledge \/ Recover
    \/ \E m \in net : Deliver(m)
    \/ LoseAnswer \/ SaveFails \/ Crash \/ Browser \/ Revoke

\* The owner thread keeps taking turns, and a request that is waited for is
\* answered; a lost answer is a fault of its own.
Spec ==
    /\ Init /\ [][Next]_vars
    /\ WF_vars(Owner)
    /\ WF_vars(own.pc = "wait" /\ \E m \in net : m = own.msg /\ Deliver(m))

-----------------------------------------------------------------------------
\* No snapshot leaves past an Off.  A choice of Off protects from its queueing until On
\* is chosen again, in this program or in a browser, whatever is queued, saved, in
\* flight, lost or restarted; not so if the owner has to refuse it, or if the process
\* dies before it is saved.  The preference protects from its saving in any case, but
\* for one snapshot that was already past the last look at it.
OffHolds ==
    [][\A m \in net' \ net : m.op = "publish" => ~off]_vars

\* An acknowledged Off is the end of it: no older On still under way, retried or
\* delivered late turns the relay on again; only a browser does.
OffIsFinal == final => ~(relay.on /\ ours)

\* A bound Off in the journal is settled by the relay, replaced by another choice
\* or handed back to the user to confirm, whatever answers and sessions are lost.
OffIsSettled ==
    \A i \in 1..MaxClicks :
        (state.pending.id = i /\ ~state.pending.on /\ state.pending.gen # 0)
            ~> (state.pending.id # i \/ flags.fresh)

\* src/wingman/settings.py:1250: "The bridge inhibits first, before waiting for I/O."
\* So nothing is published while a bridge call that chose Off still has to save it.
OffInhibitsFirst ==
    [][\A m \in net' \ net :
          m.op = "publish" => ~(user.pc = "prefer" /\ ~user.intent.on)]_vars
=============================================================================
