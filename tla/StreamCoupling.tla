--------------------------- MODULE StreamCoupling ---------------------------
(***************************************************************************)
(* The combat trigger: Wingman presses the user's Discord chord once when  *)
(* a fight begins and once more when it has gone quiet.  The chord is a    *)
(* toggle, the user presses it too, and the only look at the stream is a   *)
(* probe that may have no answer.                                          *)
(*                                                                         *)
(* One worker thread decides; alerts reach it through a queue.  The        *)
(* latches of all characters share one quiet period, so one flag says      *)
(* whether any of them still holds.                                        *)
(***************************************************************************)
EXTENDS Naturals

CONSTANT MaxAlerts       \* bound: alerts waiting in the queue

ASSUME AlertsAssumption == MaxAlerts \in Nat

VARIABLES
    stream,              \* the Discord stream: off, or who opened it
    chord,               \* the recorded chord: none, one that cannot be sent, ok
    mirror,              \* the stream mirror is running
    alerts,              \* the controller's queue: gated combat alerts not yet taken
    closed,              \* close() has queued the sentinel
    pc,                  \* the worker
    plan,                \* the chord the worker read for the decision in hand
    verdict,             \* the answer of the probe in hand
    episode,             \* _episode is not None
    wingmanLive,         \* _wingman_live
    latched,             \* some latch is younger than the quiet period
    touched,             \* history: the stream changed by another hand since the probe
    meddled,             \* history: ... since the probe before Wingman's last press
    presses              \* history: Wingman's presses since the fight began

outside == <<stream, chord, mirror, alerts, closed>>
memory == <<episode, wingmanLive, latched>>
history == <<touched, meddled, presses>>
vars == <<outside, pc, plan, verdict, memory, history>>

Chords == {"none", "unspellable", "ok"}

TypeOK ==
    /\ stream \in {"off", "wingman", "hand"}
    /\ chord \in Chords
    /\ mirror \in BOOLEAN
    /\ alerts \in Nat
    /\ closed \in BOOLEAN
    /\ pc \in {"idle", "gates", "startProbe", "startAnswer", "startPress",
               "stopProbe", "stopAnswer", "stopPress", "stopped"}
    /\ plan \in Chords
    /\ verdict \in {"off", "live"}
    /\ episode \in BOOLEAN /\ wingmanLive \in BOOLEAN /\ latched \in BOOLEAN
    /\ touched \in BOOLEAN /\ meddled \in BOOLEAN
    /\ presses \in 0 .. 2

Init ==
    /\ stream \in {"off", "hand"}
    /\ chord \in Chords
    /\ mirror \in BOOLEAN
    /\ alerts = 0 /\ closed = FALSE
    /\ pc = "idle" /\ plan = "none" /\ verdict = "off"
    /\ episode = FALSE /\ wingmanLive = FALSE /\ latched = FALSE
    /\ touched = FALSE /\ meddled = FALSE /\ presses = 0

-----------------------------------------------------------------------------
(* The worker: a decision to start. *)

\* Mutant: an open episode does not keep a start from being decided.
ProcessUnarmed ==
    /\ pc = "idle" /\ alerts > 0
    /\ alerts' = alerts - 1
    /\ latched' = TRUE
    /\ plan' = chord
    /\ pc' = IF chord # "none" THEN "gates" ELSE "idle"
    /\ presses' = IF latched THEN presses ELSE 0
    /\ UNCHANGED <<stream, chord, mirror, closed, verdict, episode, wingmanLive, touched,
                   meddled>>

\* _process: every alert refreshes its latches; only a closed episode lets it
\* start anything.  A fight begins with the first alert after a quiet period.
Process ==
    /\ pc = "idle" /\ alerts > 0
    /\ alerts' = alerts - 1
    /\ latched' = TRUE
    /\ plan' = chord
    /\ pc' = IF chord # "none" /\ ~episode THEN "gates" ELSE "idle"
    /\ presses' = IF latched THEN presses ELSE 0
    /\ UNCHANGED <<stream, chord, mirror, closed, verdict, episode, wingmanLive, touched,
                   meddled>>

\* The gates that cost nothing: the mirror and the spelling.
FreeGates ==
    /\ pc = "gates"
    /\ pc' = IF mirror /\ plan = "ok" THEN "startProbe" ELSE "idle"
    /\ UNCHANGED <<outside, plan, verdict, memory, history>>

\* One budgeted probe, answered: a snapshot of the stream.
Answered(next) ==
    /\ verdict' = IF stream = "off" THEN "off" ELSE "live"
    /\ touched' = FALSE
    /\ pc' = next
    /\ UNCHANGED <<outside, plan, memory, meddled, presses>>

\* No token, budget dry, gateway down: no answer, and no press.
Unanswered ==
    /\ pc' = "idle"
    /\ UNCHANGED <<outside, plan, verdict, memory, history>>

\* Mutant: a start probe without an answer presses all the same.
StartProbeOpenLoop ==
    /\ pc = "startProbe"
    /\ \/ Answered("startAnswer")
       \/ pc' = "startPress" /\ UNCHANGED <<outside, plan, verdict, memory, history>>

StartProbe == pc = "startProbe" /\ (Answered("startAnswer") \/ Unanswered)

\* Mutant: any stream that is up opens an episode.
StartAnswerAdopts ==
    /\ pc = "startAnswer"
    /\ IF verdict = "off" THEN pc' = "startPress" /\ UNCHANGED episode
       ELSE pc' = "idle" /\ episode' = TRUE
    /\ UNCHANGED <<outside, plan, verdict, wingmanLive, latched, history>>

StartAnswer ==
    /\ pc = "startAnswer"
    /\ IF verdict = "off" THEN pc' = "startPress" /\ UNCHANGED episode
       ELSE pc' = "idle" /\ episode' = wingmanLive
    /\ UNCHANGED <<outside, plan, verdict, wingmanLive, latched, history>>

\* The chord reaches Discord, or the keystrokes are lost on the way.
Toggle(opener) ==
    \/ stream' = IF stream = "off" THEN opener ELSE "off"
    \/ UNCHANGED stream

Sent ==
    /\ Toggle("wingman")
    /\ presses' = presses + 1
    /\ meddled' = touched

\* _press_start, and _process opening the episode; a send that raises is dropped.
StartPress ==
    /\ pc = "startPress"
    /\ pc' = "idle"
    /\ \/ Sent /\ wingmanLive' = TRUE /\ episode' = TRUE
       \/ UNCHANGED <<stream, presses, meddled, wingmanLive, episode>>
    /\ UNCHANGED <<chord, mirror, alerts, closed, plan, verdict, latched, touched>>

-----------------------------------------------------------------------------
(* The worker: a decision to stop. *)

\* Mutant: the wake does not look at the latches again.
StopWakeInCombat ==
    /\ pc = "idle" /\ alerts = 0 /\ ~closed
    /\ episode
    /\ plan' = chord
    /\ pc' = "stopProbe"
    /\ UNCHANGED <<outside, verdict, memory, history>>

\* The timed wake with an episode open and every latch expired.
StopWake ==
    /\ pc = "idle" /\ alerts = 0 /\ ~closed
    /\ episode /\ ~latched
    /\ plan' = chord
    /\ pc' = "stopProbe"
    /\ UNCHANGED <<outside, verdict, memory, history>>

StopProbe == pc = "stopProbe" /\ (Answered("stopAnswer") \/ Unanswered)

\* Mutant: a stream found off leaves the episode open.
StopAnswerKeepsEpisode ==
    /\ pc = "stopAnswer"
    /\ IF verdict = "live" /\ wingmanLive
       THEN /\ episode' = FALSE
            /\ pc' = IF mirror /\ plan = "ok" THEN "stopPress" ELSE "idle"
            /\ UNCHANGED wingmanLive
       ELSE pc' = "idle" /\ UNCHANGED <<episode, wingmanLive>>
    /\ UNCHANGED <<outside, plan, verdict, latched, history>>

\* Off, or not Wingman's: the episode is closed.  Else it is closed too, before
\* the last gates and the press.
StopAnswer ==
    /\ pc = "stopAnswer"
    /\ episode' = FALSE
    /\ IF verdict = "live" /\ wingmanLive
       THEN /\ pc' = IF mirror /\ plan = "ok" THEN "stopPress" ELSE "idle"
            /\ UNCHANGED wingmanLive
       ELSE pc' = "idle" /\ wingmanLive' = FALSE
    /\ UNCHANGED <<outside, plan, verdict, latched, history>>

StopPress ==
    /\ pc = "stopPress"
    /\ pc' = "idle"
    /\ \/ Sent /\ wingmanLive' = FALSE
       \/ UNCHANGED <<stream, presses, meddled, wingmanLive>>
    /\ UNCHANGED <<chord, mirror, alerts, closed, plan, verdict, episode, latched, touched>>

\* The sentinel comes after whatever was queued before it.
Stopped ==
    /\ pc = "idle" /\ alerts = 0 /\ closed
    /\ pc' = "stopped"
    /\ UNCHANGED <<outside, plan, verdict, memory, history>>

-----------------------------------------------------------------------------
(* Everything else. *)

\* observe_combat, on the telemetry dispatcher's thread.
ObserveCombat ==
    /\ ~closed /\ alerts < MaxAlerts
    /\ alerts' = alerts + 1
    /\ UNCHANGED <<stream, chord, mirror, closed, pc, plan, verdict, memory, history>>

Quiet ==
    /\ latched' = FALSE
    /\ UNCHANGED <<outside, pc, plan, verdict, episode, wingmanLive, history>>

\* The user presses the same chord, or Discord or the mirror's end drops the stream.
OtherHand ==
    /\ stream' \in {"off", IF stream = "off" THEN "hand" ELSE "off"}
    /\ touched' = TRUE /\ meddled' = TRUE
    /\ UNCHANGED <<chord, mirror, alerts, closed, pc, plan, verdict, memory, presses>>

ChangeSettings ==
    /\ chord' \in Chords
    /\ mirror' \in BOOLEAN
    /\ UNCHANGED <<stream, alerts, closed, pc, plan, verdict, memory, history>>

Close ==
    /\ closed' = TRUE
    /\ UNCHANGED <<stream, chord, mirror, alerts, pc, plan, verdict, memory, history>>

\* The process ends, cleanly or not, and another begins; the stream goes on.
Restart ==
    /\ alerts' = 0 /\ closed' = FALSE
    /\ pc' = "idle" /\ plan' = "none" /\ verdict' = "off"
    /\ episode' = FALSE /\ wingmanLive' = FALSE /\ latched' = FALSE
    /\ presses' = 0
    /\ UNCHANGED <<stream, chord, mirror, touched, meddled>>

-----------------------------------------------------------------------------
Worker ==
    \/ Process \/ FreeGates \/ StartProbe \/ StartAnswer \/ StartPress
    \/ StopWake \/ StopProbe \/ StopAnswer \/ StopPress
    \/ Stopped

Next ==
    \/ Worker
    \/ ObserveCombat \/ Quiet \/ OtherHand \/ ChangeSettings \/ Close \/ Restart

Spec == Init /\ [][Next]_vars

\* The worker runs, and a probe repeated for ever is answered some day.
FairSpec ==
    /\ Spec
    /\ WF_vars(Worker)
    /\ SF_vars(pc = "stopProbe" /\ Answered("stopAnswer"))

-----------------------------------------------------------------------------
(* Properties. *)

\* An open episode is one Wingman pressed for, so its stop gate may trust the
\* flag; the branches of _try_fire and _maybe_stop for an episode without it are
\* never taken.
EpisodeIsWingmans == episode => wingmanLive

\* One stream per fight: while alerts keep a latch, Wingman presses at most once.
OnePressPerFight == latched => presses <= 1

\* A press does what it was decided for.  The first opens a stream where there
\* is none, and the second ends Wingman's own, as long as nobody else has used
\* the toggle since the probe, or since the first press.
PressesHitTheirTarget ==
    [][presses' > presses =>
        /\ pc = "startPress" /\ ~touched => stream = "off"
        /\ pc = "stopPress" /\ ~meddled => stream = "wingman"]_vars

\* A quiet episode is closed, or combat resumes, or the process shuts down.
EpisodeEnds == episode /\ ~latched ~> ~episode \/ latched \/ closed

\* A press never ends a stream the user opened by hand, unless the toggle was
\* used behind the probe's back: `Their stream is not ours to end'
\* (alerts/streamcoupling.py:747-752).
HandStreamsAreLeftAlone ==
    [][presses' > presses /\ ~touched => stream # "hand"]_vars
=============================================================================
