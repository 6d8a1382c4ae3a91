------------------------ MODULE StreamCoupling_proofs ------------------------
(***************************************************************************)
(* The safety of the combat trigger, for a queue of any length.            *)
(*                                                                         *)
(* Neither `at most one press in a fight' nor `a press hits its target' is *)
(* inductive: what makes them true is what the worker knows at each of its *)
(* steps.  DecisionInv says what a decision in hand implies, SnapshotInv   *)
(* what its probe's answer is still worth, PressInv what a fight has cost  *)
(* so far.                                                                 *)
(***************************************************************************)
EXTENDS StreamCoupling, TLAPS

Starting == {"gates", "startProbe", "startAnswer", "startPress"}
Stopping == {"stopProbe", "stopAnswer", "stopPress"}

\* A start is decided without an episode, a stop without a latch.
DecisionInv ==
    /\ pc \in Starting => ~episode
    /\ pc \in Stopping => ~latched
    /\ pc \in {"stopProbe", "stopAnswer"} => episode
    /\ pc = "stopPress" => wingmanLive /\ ~episode

\* A snapshot nobody has meddled with still tells the truth, and a stream that
\* nobody else has touched since Wingman's press is not the user's.
SnapshotInv ==
    /\ touched => meddled
    /\ pc \in {"startAnswer", "stopAnswer"} /\ ~touched => (verdict = "off" <=> stream = "off")
    /\ pc = "startPress" /\ ~touched => stream = "off"
    /\ pc = "stopPress" /\ ~touched => stream # "off"
    /\ wingmanLive /\ ~meddled => stream # "hand"

\* Until an episode opens the fight has cost no press, until a stop only one.
PressInv ==
    /\ pc \in Starting => presses = 0
    /\ latched /\ ~episode => presses = 0
    /\ episode \/ pc = "stopPress" => presses <= 1

IInv == TypeOK /\ EpisodeIsWingmans /\ DecisionInv /\ SnapshotInv /\ PressInv

\* Every step keeps every variable in its type: a press is decided only when a
\* fight has had at most one, so their count stays within two.
LEMMA Typed ==
    ASSUME TypeOK, PressInv, [Next]_vars
    PROVE  TypeOK'
<1> USE DEF TypeOK, outside, memory, history
<1>1. CASE Process
  <2>1. presses' \in 0 .. 2 /\ alerts' \in Nat
    BY <1>1 DEF Process
  <2> QED
    BY <1>1, <2>1, Zenon DEF Process
<1>2. CASE FreeGates
  BY <1>2, Zenon DEF FreeGates
<1>3. CASE StartProbe
  BY <1>3, Zenon DEF StartProbe, Answered, Unanswered
<1>4. CASE StartAnswer
  BY <1>4, Zenon DEF StartAnswer
<1>5. CASE StartPress
  <2>1. presses <= 1
    BY <1>5 DEF StartPress, Sent, Toggle, PressInv, Starting
  <2>2. presses' \in 0 .. 2
    BY <1>5, <2>1 DEF StartPress, Sent, Toggle
  <2> QED
    BY <1>5, <2>2, Zenon DEF StartPress, Sent, Toggle
<1>6. CASE StopWake
  BY <1>6, Zenon DEF StopWake
<1>7. CASE StopProbe
  BY <1>7, Zenon DEF StopProbe, Answered, Unanswered
<1>8. CASE StopAnswer
  BY <1>8, Zenon DEF StopAnswer
<1>9. CASE StopPress
  <2>1. presses <= 1
    BY <1>9 DEF StopPress, Sent, Toggle, PressInv
  <2>2. presses' \in 0 .. 2
    BY <1>9, <2>1 DEF StopPress, Sent, Toggle
  <2> QED
    BY <1>9, <2>2, Zenon DEF StopPress, Sent, Toggle
<1>10. CASE Stopped
  BY <1>10, Zenon DEF Stopped
<1>11. CASE ObserveCombat
  <2>1. presses' \in 0 .. 2 /\ alerts' \in Nat
    BY <1>11 DEF ObserveCombat
  <2> QED
    BY <1>11, <2>1, Zenon DEF ObserveCombat
<1>12. CASE Quiet
  BY <1>12, Zenon DEF Quiet
<1>13. CASE OtherHand
  BY <1>13, Zenon DEF OtherHand
<1>14. CASE ChangeSettings
  BY <1>14, Zenon DEF ChangeSettings
<1>15. CASE Close
  BY <1>15, Zenon DEF Close
<1>16. CASE Restart
  <2>1. presses' \in 0 .. 2 /\ alerts' \in Nat
    BY <1>16 DEF Restart
  <2> QED
    BY <1>16, <2>1, Zenon DEF Restart, Chords
<1>17. CASE UNCHANGED vars
  BY <1>17 DEF vars
<1> QED
  BY <1>1, <1>2, <1>3, <1>4, <1>5, <1>6, <1>7, <1>8, <1>9, <1>10, <1>11, <1>12, <1>13,
     <1>14, <1>15, <1>16, <1>17 DEF Next, Worker

\* No step leaves an episode open without Wingman's flag: the presses set both,
\* and what clears the flag closes the episode.
LEMMA OwnershipKept ==
    ASSUME TypeOK, EpisodeIsWingmans, DecisionInv, [Next]_vars
    PROVE  EpisodeIsWingmans'
<1> USE DEF EpisodeIsWingmans, memory
<1>1. CASE Process
  BY <1>1 DEF Process
<1>2. CASE FreeGates
  BY <1>2 DEF FreeGates
<1>3. CASE StartProbe
  BY <1>3 DEF StartProbe, Answered, Unanswered
<1>4. CASE StartAnswer
  BY <1>4 DEF StartAnswer
<1>5. CASE StartPress
  BY <1>5 DEF StartPress, Sent, Toggle
<1>6. CASE StopWake
  BY <1>6 DEF StopWake
<1>7. CASE StopProbe
  BY <1>7 DEF StopProbe, Answered, Unanswered
<1>8. CASE StopAnswer
  BY <1>8 DEF StopAnswer
<1>9. CASE StopPress
  BY <1>9 DEF StopPress, Sent, Toggle, DecisionInv
<1>10. CASE Stopped
  BY <1>10 DEF Stopped
<1>11. CASE ObserveCombat
  BY <1>11 DEF ObserveCombat
<1>12. CASE Quiet
  BY <1>12 DEF Quiet
<1>13. CASE OtherHand
  BY <1>13 DEF OtherHand
<1>14. CASE ChangeSettings
  BY <1>14 DEF ChangeSettings
<1>15. CASE Close
  BY <1>15 DEF Close
<1>16. CASE Restart
  BY <1>16 DEF Restart
<1>17. CASE UNCHANGED vars
  BY <1>17 DEF vars
<1> QED
  BY <1>1, <1>2, <1>3, <1>4, <1>5, <1>6, <1>7, <1>8, <1>9, <1>10, <1>11, <1>12, <1>13,
     <1>14, <1>15, <1>16, <1>17 DEF Next, Worker

\* Every step of the worker keeps what the decision in hand stands on.
LEMMA DecisionsKept ==
    ASSUME TypeOK, EpisodeIsWingmans, DecisionInv, [Next]_vars
    PROVE  DecisionInv'
<1> USE DEF DecisionInv, Starting, Stopping, memory, EpisodeIsWingmans
<1>1. CASE Process
  BY <1>1 DEF Process
<1>2. CASE FreeGates
  BY <1>2 DEF FreeGates
<1>3. CASE StartProbe
  BY <1>3 DEF StartProbe, Answered, Unanswered
<1>4. CASE StartAnswer
  BY <1>4 DEF StartAnswer
<1>5. CASE StartPress
  BY <1>5 DEF StartPress, Sent, Toggle
<1>6. CASE StopWake
  BY <1>6 DEF StopWake
<1>7. CASE StopProbe
  <2>1. pc = "stopProbe" /\ episode /\ ~latched
    BY <1>7 DEF StopProbe
  <2>2. (pc' = "stopAnswer" \/ pc' = "idle") /\ episode' = episode /\ latched' = latched
    BY <1>7 DEF StopProbe, Answered, Unanswered
  <2> QED
    BY <2>1, <2>2
<1>8. CASE StopAnswer
  BY <1>8 DEF StopAnswer
<1>9. CASE StopPress
  BY <1>9 DEF StopPress, Sent, Toggle
<1>10. CASE Stopped
  BY <1>10 DEF Stopped
<1>11. CASE ObserveCombat
  BY <1>11 DEF ObserveCombat
<1>12. CASE Quiet
  BY <1>12 DEF Quiet
<1>13. CASE OtherHand
  BY <1>13 DEF OtherHand
<1>14. CASE ChangeSettings
  BY <1>14 DEF ChangeSettings
<1>15. CASE Close
  BY <1>15 DEF Close
<1>16. CASE Restart
  BY <1>16 DEF Restart
<1>17. CASE UNCHANGED vars
  BY <1>17 DEF vars
<1> QED
  BY <1>1, <1>2, <1>3, <1>4, <1>5, <1>6, <1>7, <1>8, <1>9, <1>10, <1>11, <1>12, <1>13,
     <1>14, <1>15, <1>16, <1>17 DEF Next, Worker

\* A probe answers what the stream is, and any other hand's toggle is recorded.
LEMMA SnapshotsKept ==
    ASSUME TypeOK, SnapshotInv, [Next]_vars
    PROVE  SnapshotInv'
<1> USE DEF SnapshotInv, outside, memory, history
<1>1. CASE Process
  BY <1>1 DEF Process
<1>2. CASE FreeGates
  BY <1>2 DEF FreeGates
<1>3. CASE StartProbe
  BY <1>3 DEF StartProbe, Answered, Unanswered
<1>4. CASE StartAnswer
  BY <1>4 DEF StartAnswer
<1>5. CASE StartPress
  BY <1>5 DEF StartPress, Sent, Toggle
<1>6. CASE StopWake
  BY <1>6 DEF StopWake
<1>7. CASE StopProbe
  BY <1>7 DEF StopProbe, Answered, Unanswered
<1>8. CASE StopAnswer
  BY <1>8 DEF StopAnswer
<1>9. CASE StopPress
  BY <1>9 DEF StopPress, Sent, Toggle
<1>10. CASE Stopped
  BY <1>10 DEF Stopped
<1>11. CASE ObserveCombat
  BY <1>11 DEF ObserveCombat
<1>12. CASE Quiet
  BY <1>12 DEF Quiet
<1>13. CASE OtherHand
  BY <1>13 DEF OtherHand
<1>14. CASE ChangeSettings
  BY <1>14 DEF ChangeSettings
<1>15. CASE Close
  BY <1>15 DEF Close
<1>16. CASE Restart
  BY <1>16 DEF Restart
<1>17. CASE UNCHANGED vars
  BY <1>17 DEF vars
<1> QED
  BY <1>1, <1>2, <1>3, <1>4, <1>5, <1>6, <1>7, <1>8, <1>9, <1>10, <1>11, <1>12, <1>13,
     <1>14, <1>15, <1>16, <1>17 DEF Next, Worker

\* A fight has had no press before its episode and one while it is open.
LEMMA PressesKept ==
    ASSUME TypeOK, DecisionInv, PressInv, [Next]_vars
    PROVE  PressInv'
<1> USE DEF TypeOK, DecisionInv, PressInv, Starting, Stopping, memory, history
<1>1. CASE Process
  BY <1>1 DEF Process
<1>2. CASE FreeGates
  BY <1>2 DEF FreeGates
<1>3. CASE StartProbe
  BY <1>3 DEF StartProbe, Answered, Unanswered
<1>4. CASE StartAnswer
  BY <1>4 DEF StartAnswer
<1>5. CASE StartPress
  BY <1>5 DEF StartPress, Sent, Toggle
<1>6. CASE StopWake
  BY <1>6 DEF StopWake
<1>7. CASE StopProbe
  BY <1>7 DEF StopProbe, Answered, Unanswered
<1>8. CASE StopAnswer
  BY <1>8 DEF StopAnswer
<1>9. CASE StopPress
  BY <1>9 DEF StopPress, Sent, Toggle
<1>10. CASE Stopped
  BY <1>10 DEF Stopped
<1>11. CASE ObserveCombat
  BY <1>11 DEF ObserveCombat
<1>12. CASE Quiet
  BY <1>12 DEF Quiet
<1>13. CASE OtherHand
  BY <1>13 DEF OtherHand
<1>14. CASE ChangeSettings
  BY <1>14 DEF ChangeSettings
<1>15. CASE Close
  BY <1>15 DEF Close
<1>16. CASE Restart
  BY <1>16 DEF Restart
<1>17. CASE UNCHANGED vars
  BY <1>17 DEF vars
<1> QED
  BY <1>1, <1>2, <1>3, <1>4, <1>5, <1>6, <1>7, <1>8, <1>9, <1>10, <1>11, <1>12, <1>13,
     <1>14, <1>15, <1>16, <1>17 DEF Next, Worker

\* The first state, with whatever stream, chord and mirror the process finds.
LEMMA Initially == Init => IInv
<1> SUFFICES ASSUME Init PROVE IInv
  OBVIOUS
<1>1. presses \in 0 .. 2 /\ alerts \in Nat
  BY DEF Init
<1>2. TypeOK
  BY <1>1, Zenon DEF Init, TypeOK, Chords
<1>3. EpisodeIsWingmans
  BY Zenon DEF Init, EpisodeIsWingmans
<1>4. DecisionInv /\ SnapshotInv /\ PressInv
  BY DEF Init, DecisionInv, SnapshotInv, PressInv, Starting, Stopping
<1> QED
  BY <1>2, <1>3, <1>4 DEF IInv

\* The invariant holds at first and is kept by every step of the worker, of the
\* alerts and of the outside world.
THEOREM Invariance == Spec => []IInv
<1>1. IInv /\ [Next]_vars => IInv'
  BY Typed, OwnershipKept, DecisionsKept, SnapshotsKept, PressesKept DEF IInv
<1> QED
  BY Initially, <1>1, PTL DEF Spec

\* Every variable keeps its type; no fight sees a third press.
THEOREM TypeCorrect == Spec => []TypeOK
<1>1. IInv => TypeOK
  BY DEF IInv
<1> QED
  BY <1>1, Invariance, PTL

\* An open episode is always one Wingman pressed for: _maybe_stop may trust the
\* flag.
THEOREM EpisodeOwnership == Spec => []EpisodeIsWingmans
<1>1. IInv => EpisodeIsWingmans
  BY DEF IInv
<1> QED
  BY <1>1, Invariance, PTL

\* One stream per fight: no second press while a fight's alerts keep a latch.
THEOREM OneStreamPerFight == Spec => []OnePressPerFight
<1>1. IInv => OnePressPerFight
  BY DEF IInv, TypeOK, PressInv, OnePressPerFight
<1> QED
  BY <1>1, Invariance, PTL

\* A start press opens a stream and a stop press ends Wingman's own, as long as
\* nobody else used the toggle behind the probe's back.
THEOREM TargetedPresses == Spec => PressesHitTheirTarget
<1> DEFINE Hit ==
      presses' > presses =>
        /\ pc = "startPress" /\ ~touched => stream = "off"
        /\ pc = "stopPress" /\ ~meddled => stream = "wingman"
<1>1. IInv => Hit
  BY DEF IInv, TypeOK, DecisionInv, SnapshotInv
<1> QED
  BY <1>1, Invariance, PTL DEF PressesHitTheirTarget
=============================================================================
