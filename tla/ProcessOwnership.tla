-------------------------- MODULE ProcessOwnership --------------------------
(***************************************************************************)
(* What the work gate promises, without threads, phases or program         *)
(* counters: the process belongs to at most one of a work tenant and an    *)
(* installation, Setup starts only from a held installation, and the       *)
(* process leaves while a tenant works only with the user's consent.       *)
(***************************************************************************)
CONSTANT Tenants

VARIABLES
    active,              \* the work tenants at work
    hands,               \* "none", "held" by an installation, or "launched"
    leaving,             \* the process no longer accepts anything
    consent              \* the user agreed to lose a running job

vars == <<active, hands, leaving, consent>>

Init ==
    /\ active = {}
    /\ hands = "none"
    /\ leaving = FALSE
    /\ consent = FALSE

Begin(t) ==
    /\ active = {} /\ hands = "none" /\ ~leaving
    /\ active' = {t}
    /\ UNCHANGED <<hands, leaving, consent>>

End(t) ==
    /\ active = {t}
    /\ active' = {}
    /\ UNCHANGED <<hands, leaving, consent>>

Hold ==
    /\ active = {} /\ hands = "none" /\ ~leaving
    /\ hands' = "held"
    /\ UNCHANGED <<active, leaving, consent>>

GiveBack ==
    /\ hands = "held" /\ ~leaving
    /\ hands' = "none"
    /\ UNCHANGED <<active, leaving, consent>>

Launch ==
    /\ active = {} /\ hands = "held" /\ ~leaving
    /\ hands' = "launched"
    /\ UNCHANGED <<active, leaving, consent>>

\* Leaving is granted to Quit, or to Setup once it runs; never to Quit while
\* an installation is being prepared, and over a job only with consent.
Leave ==
    /\ ~leaving /\ hands # "held"
    /\ leaving' = TRUE
    /\ consent' = (active # {})
    /\ UNCHANGED <<active, hands>>

Next ==
    \/ \E t \in Tenants : Begin(t) \/ End(t)
    \/ Hold \/ GiveBack \/ Launch \/ Leave

Spec == Init /\ [][Next]_vars

\* The two facts a user of the gate relies on.
Exclusive == hands # "none" => active = {}
=============================================================================
