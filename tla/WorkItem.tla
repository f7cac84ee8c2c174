------------------------------- MODULE WorkItem -------------------------------
(***************************************************************************)
(* What jobs.py promises of a row it works on, with the sessions, copies   *)
(* and queues left out: one run at a time holds it, every run that does    *)
(* not get through costs a strike, a spent budget stops it, a person may   *)
(* start it over, and what is done stays done.                             *)
(***************************************************************************)
EXTENDS Naturals

CONSTANTS
    Runs,           \* runs that may hold the item
    NoRun,          \* not one of them
    MaxAttempts     \* the budget: strikes that stop the item

VARIABLES
    phase,      \* waiting, held, done, stopped, gone
    strikes,    \* consecutive runs that did not get through
    holder      \* the live run that holds the item, if any

itemVars == <<phase, strikes, holder>>

ItemTypeOK ==
    /\ phase \in {"waiting", "held", "done", "stopped", "gone"}
    /\ strikes \in Nat
    /\ holder \in Runs \cup {NoRun}

ItemInit == phase = "waiting" /\ strikes = 0 /\ holder = NoRun

\* A delivery that arrives late takes a stopped item up again as well.
Take(w) ==
    /\ phase \in {"waiting", "stopped"}
    /\ phase' = "held"
    /\ holder' = w
    /\ UNCHANGED strikes

Succeed ==
    /\ phase = "held"
    /\ holder # NoRun
    /\ phase' = "done"
    /\ strikes' = 0
    /\ holder' = NoRun

\* A failure no later run would change.
Refuse ==
    /\ phase = "held"
    /\ holder # NoRun
    /\ phase' = "stopped"
    /\ strikes' \in {0, strikes + 1}
    /\ holder' = NoRun

\* A failure worth trying again, or the sweep finding the holder gone.
Strike ==
    /\ phase = "held"
    /\ strikes' = strikes + 1
    /\ phase' = IF strikes' < MaxAttempts THEN "waiting" ELSE "stopped"
    /\ holder' = NoRun

Vanish ==
    /\ phase = "held"
    /\ holder # NoRun
    /\ holder' = NoRun
    /\ UNCHANGED <<phase, strikes>>

Replay ==
    /\ phase = "stopped" \/ (phase = "held" /\ holder = NoRun)
    /\ phase' = "waiting"
    /\ strikes' = 0
    /\ UNCHANGED holder

Remove ==
    /\ phase # "gone"
    /\ phase' = "gone"
    /\ strikes' = 0
    /\ holder' = NoRun

ItemNext ==
    \/ \E w \in Runs : Take(w)
    \/ Succeed \/ Refuse \/ Strike \/ Vanish \/ Replay \/ Remove

ItemSpec == ItemInit /\ [][ItemNext]_itemVars
=============================================================================
