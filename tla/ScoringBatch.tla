---------------------------- MODULE ScoringBatch ----------------------------
(***************************************************************************)
(* What the platform promises of one batch, with everything that carries   *)
(* messages left out: every run gets at most one outcome and keeps it; the *)
(* handoff document appears once, only when all runs have an outcome, and  *)
(* holds exactly those; the batch ends once, and as completed only with    *)
(* its handoff written.                                                    *)
(***************************************************************************)
CONSTANTS
    Runs,      \* the runs of the batch
    Statuses,  \* the outcomes a run can have
    Open       \* a run without outcome, a batch without handoff

VARIABLES
    phase,    \* "open", or how the batch ended
    outcome,  \* each run's authoritative outcome
    handoff   \* the result document clients pick up

vars == <<phase, outcome, handoff>>

Endings == {"completed", "failed", "terminated"}

Init ==
    /\ phase = "open"
    /\ outcome = [r \in Runs |-> Open]
    /\ handoff = Open

\* A run's outcome is settled, while the batch is open.
Settle(r, s) ==
    /\ phase = "open"
    /\ outcome[r] = Open
    /\ outcome' = [outcome EXCEPT ![r] = s]
    /\ UNCHANGED <<phase, handoff>>

\* The handoff is written; a batch cancelled meanwhile may still get one.
Publish ==
    /\ handoff = Open
    /\ \A r \in Runs : outcome[r] # Open
    /\ handoff' = outcome
    /\ UNCHANGED <<phase, outcome>>

End(how) ==
    /\ phase = "open"
    /\ how = "completed" => handoff # Open
    /\ phase' = how
    /\ UNCHANGED <<outcome, handoff>>

Next ==
    \/ \E r \in Runs, s \in Statuses : Settle(r, s)
    \/ Publish
    \/ \E how \in Endings : End(how)

Spec == Init /\ [][Next]_vars
=============================================================================
